---------------------------- MODULE EventsProofs ----------------------------
(***************************************************************************)
(* Event streams: theorems for any number of devices, requests, pushes and *)
(* streams, with the command line at work on the same database.            *)
(***************************************************************************)
EXTENDS Events, AccessProofs

----------------------------------------------------------------------------
(* The inductive invariant.                                                *)

PushNumbers == 1..MaxPushes

EventsTyped ==
  /\ streams \in [Devices -> 0..MAX_STREAMS_PER_DEVICE]
  /\ channel \in [there : BOOLEAN, listeners : SUBSET Workers]
  /\ pushes \in 0..MaxPushes /\ unsaid \subseteq PushNumbers
  /\ inbox \in [Workers -> Seq(PushNumbers)] /\ \A w \in Workers : Len(inbox[w]) <= CHANNEL
  /\ sending \in [Workers -> PushNumbers \cup {0}]
  /\ outbox \in [Workers -> Seq(PushNumbers)] /\ \A w \in Workers : Len(outbox[w]) <= OUTBOX

\* The requests that are streams, and those of one device.
Streaming == {w \in Workers : req[w].at = "streaming"}
OpenOf(d) == {w \in Workers : req[w].at = "streaming" /\ req[w].device = d}

\* Streams and nobody else listen, wait and are waited for.
StreamsOK ==
  /\ channel.listeners = Streaming
  /\ Streaming # {} => channel.there
  /\ hungup \subseteq Streaming /\ due \subseteq Streaming
  /\ \A w \in Workers \ Streaming : inbox[w] = <<>> /\ sending[w] = 0 /\ outbox[w] = <<>>

\* The count of each device's streams is the number that are open.
CountsOK == \A d \in Devices : streams[d] = Cardinality(OpenOf(d))

EventsInv == AccessInv /\ EventsTyped /\ StreamsOK /\ CountsOK /\ NewsOnItsWay

----------------------------------------------------------------------------
(* What the rest of the server leaves alone.                               *)

\* A request that becomes a stream, or ends, changes nothing else.
LEMMA RequestOnly ==
  ASSUME AccessInv, NEW w \in Workers, UNCHANGED <<stored, sessions, challenges, minted, command>>,
         req' \in [Workers -> Request], \A v \in Workers \ {w} : req'[v] = req[v],
         \/ req'[w] = NoRequest
         \/ /\ req'[w].at = "streaming" /\ req[w].at # "idle" /\ req'[w].kind = req[w].kind
            /\ req'[w].device = req[w].device /\ req'[w].target = req[w].target
            /\ req'[w].challenge = req[w].challenge
  PROVE  AccessInv'
<1>0. /\ Typed /\ HandedOK /\ ReqOK /\ TablesOK /\ ChallengesOK /\ SignedOK /\ JoinOK /\ CountedOK
      /\ GuessOK
      /\ UNCHANGED <<device, password, enrolments, by_token, by_device, challenges, minted, command>>
  BY DEF AccessInv, stored, sessions
<1>1. Typed'
  BY <1>0 DEF Typed
<1>2. ReqOK'
  BY <1>0, Rows DEF ReqOK
<1>3. ASSUME NEW K, "none" \notin K, NEW n \in Nat, NEW bound \in Nat, Fits(n, K, bound)
      PROVE  n + Cardinality(Asking(K)') <= bound
  <2>1. Asking(K)' \subseteq Asking(K)
    BY <1>3, Rows DEF Asking
  <2>2. PICK a \in Nat, b \in Nat : a = Cardinality(Asking(K)) /\ b = Cardinality(Asking(K)') /\ b <= a
    BY <1>0, <2>1, AskingMoves
  <2>3. n + a <= bound
    BY <1>3, <2>2 DEF Fits
  <2> QED
    BY <2>2, <2>3
<1>4. HandedOK'
  <2>1. minted.tokens \in Nat /\ minted.challenges \in Nat /\ minted.enrolments \in Nat
    BY <1>0, IdSets DEF Typed
  <2>2. /\ minted.tokens + Cardinality(Asking({"login", "enrol"})') <= MaxTokens
        /\ minted.challenges + Cardinality(Asking({"challenge"})') <= MaxChallenges
        /\ minted.enrolments + Cardinality(Asking({"invite"})') <= MaxEnrolments
    BY <1>0, <1>3, <2>1, IdSets DEF HandedOK
  <2>3. /\ Fits(minted.tokens, {"login", "enrol"}, MaxTokens)'
        /\ Fits(minted.challenges, {"challenge"}, MaxChallenges)'
        /\ Fits(minted.enrolments, {"invite"}, MaxEnrolments)'
    BY <1>0, <2>2, Zenon DEF Fits
  <2>4. \A v \in Workers : req'[v].challenge <= minted.challenges
    BY <1>0, <2>1, Rows DEF HandedOK
  <2> QED
    BY <1>0, <2>3, <2>4 DEF HandedOK
<1>5. TablesOK' /\ ChallengesOK' /\ GuessOK'
  BY <1>0 DEF TablesOK, ChallengesOK, GuessOK
<1>6. \A v \in Workers : req'[v].at \in {"spent", "counted", "redeemed"} => req'[v] = req[v]
  BY Rows
<1>7. SignedOK'
  BY <1>0, <1>6 DEF SignedOK
<1>8. JoinOK'
  BY <1>0, <1>6 DEF JoinOK, OneTokenOneDevice
<1>9. CountedOK'
  BY <1>0, <1>6 DEF CountedOK
<1> QED
  BY <1>1, <1>2, <1>4, <1>5, <1>7, <1>8, <1>9 DEF AccessInv

\* No step of the rest opens a stream or touches one.
LEMMA StreamsLeft ==
  ASSUME AccessInv, Step \/ Command
  PROVE  \A w \in Workers : req[w].at = "streaming" \/ req'[w].at = "streaming" => req'[w] = req[w]
<1>0. AnyStep
  BY DEF AnyStep, Next
<1>1. \A w \in Workers : Work(w) => req[w].at # "streaming"
  BY DEF Work, ChallengeIssued, LoginFinds, LoginSpends, LoginIssues, Authenticated, TurnedAway, Proves,
         PasswordChanged, Invited, EnrolFails, EnrolAdds, EnrolIssues, RevokeRefused, RevokeMarks, RevokeDropsEnrolments,
         RevokeDropsTokens, At, MayRevoke
<1>2. ASSUME NEW w \in Workers, Work(w)
      PROVE  \A v \in Workers : req[v].at = "streaming" \/ req'[v].at = "streaming" => req'[v] = req[v]
  BY <1>1, <1>2, WorkIs, Rows DEF AccessInv, GoesOn, Answers
<1>3. ASSUME NEW w \in Workers, Asked(w)
      PROVE  \A v \in Workers : req[v].at = "streaming" \/ req'[v].at = "streaming" => req'[v] = req[v]
  BY <1>3, AskedIs DEF AccessInv, IsAsked
<1>4. CASE Expiry \/ Sweep \/ Command
  BY <1>4 DEF Expiry, TokenExpires, EnrolmentExpires, ChallengesExpire, Sweep, Command, CommandRevokes,
              CommandDropsEnrolments
<1>5. ASSUME NEW w \in Workers, StatementFails(w)
      PROVE  \A v \in Workers : req[v].at = "streaming" \/ req'[v].at = "streaming" => req'[v] = req[v]
  BY <1>5, Rows, PutIs DEF AccessInv, StatementFails, Done
<1> QED
  BY <1>2, <1>3, <1>4, <1>5 DEF Step

----------------------------------------------------------------------------
(* The steps.                                                              *)

\* Nothing of the streams changes, and no request that is one.
LEMMA Quiet ==
  ASSUME EventsInv, AccessInv', UNCHANGED events,
         \A w \in Workers : req[w].at = "streaming" \/ req'[w].at = "streaming" => req'[w] = req[w]
  PROVE  EventsInv'
<1>0. UNCHANGED <<streams, channel, pushes, unsaid, inbox, sending, outbox, hungup, due>>
  BY DEF events, queues, outside
<1>1. Streaming' = Streaming
  BY DEF Streaming
<1>2. \A d \in Devices : OpenOf(d)' = OpenOf(d)
  BY DEF OpenOf
<1> QED
  BY <1>0, <1>1, <1>2 DEF EventsInv, EventsTyped, StreamsOK, CountsOK, NewsOnItsWay

\* A push commits.
LEMMA PushIs ==
  ASSUME EventsInv, Push
  PROVE  EventsInv'
<1>0. UNCHANGED <<vars, device, password, enrolments, by_token, by_device, challenges, minted, req, command,
                  streams, channel, inbox, sending, outbox, hungup>>
  BY DEF Push, vars, queues
<1>1. AccessInv'
  BY <1>0, InvKept DEF EventsInv, AnyStep
<1>2. Streaming' = Streaming /\ \A d \in Devices : OpenOf(d)' = OpenOf(d)
  BY <1>0 DEF Streaming, OpenOf
<1>3. pushes + 1 \in PushNumbers /\ pushes + 1 \in 0..MaxPushes
  BY EventsAssumption DEF EventsInv, EventsTyped, Push, PushNumbers
<1>4. EventsTyped'
  BY <1>0, <1>3 DEF Push, EventsInv, EventsTyped
<1>5. due' \subseteq Streaming /\ unsaid' # {}
  BY DEF Push, EventsInv, StreamsOK
<1> QED
  BY <1>0, <1>1, <1>2, <1>4, <1>5 DEF EventsInv, StreamsOK, CountsOK, NewsOnItsWay

\* What is put in a queue that has room stays within its length.
LEMMA AppendIs ==
  ASSUME NEW q \in Seq(PushNumbers), NEW n \in PushNumbers, NEW bound \in Nat, Len(q) < bound
  PROVE  Append(q, n) \in Seq(PushNumbers) /\ Len(Append(q, n)) <= bound /\ Append(q, n) # <<>>
<1>1. PICK k \in Nat : k = Len(q)
  OBVIOUS
<1>2. Append(q, n) \in Seq(PushNumbers) /\ Len(Append(q, n)) = k + 1
  BY <1>1
<1>3. k + 1 <= bound /\ k + 1 # 0
  BY <1>1
<1>4. Append(q, n) # <<>>
  OBVIOUS
<1> QED
  BY <1>2, <1>3, <1>4

\* A number is announced: everyone who listens has something to receive.
LEMMA AnnounceIs ==
  ASSUME EventsInv, NEW n \in unsaid, Announce(n)
  PROVE  EventsInv'
<1>0. /\ UNCHANGED <<vars, device, password, enrolments, by_token, by_device, challenges, minted, req, command,
                     streams, pushes, sending, outbox, hungup, due>>
      /\ unsaid' = unsaid \ {n} /\ n \in PushNumbers
  BY DEF Announce, vars, outside, EventsInv, EventsTyped
<1>1. AccessInv'
  BY <1>0, InvKept DEF EventsInv, AnyStep
<1>2. Streaming' = Streaming /\ \A d \in Devices : OpenOf(d)' = OpenOf(d)
  BY <1>0 DEF Streaming, OpenOf
<1>3. CASE NobodyListens
  <2>1. channel' = NoChannel /\ UNCHANGED inbox /\ channel.listeners = {} /\ due = {}
    BY <1>3 DEF Announce, NobodyListens, EventsInv, StreamsOK
  <2>2. NoChannel \in [there : BOOLEAN, listeners : SUBSET Workers] /\ NoChannel.listeners = {}
    BY DEF NoChannel
  <2> QED
    BY <1>0, <1>1, <1>2, <2>1, <2>2 DEF EventsInv, EventsTyped, StreamsOK, CountsOK, NewsOnItsWay
<1>4. CASE ~NobodyListens
  <2>1. /\ UNCHANGED channel
        /\ inbox' = [w \in Workers |-> IF w \in channel.listeners THEN Kept(inbox[w], n) ELSE inbox[w]]
    BY <1>4 DEF Announce
  <2>2. ASSUME NEW q \in Seq(PushNumbers), Len(q) <= CHANNEL
        PROVE  Kept(q, n) \in Seq(PushNumbers) /\ Len(Kept(q, n)) <= CHANNEL /\ Kept(q, n) # <<>>
    <3>1. PICK r \in Seq(PushNumbers) : /\ r = IF Len(q) = CHANNEL THEN Tail(q) ELSE q
                                        /\ Len(r) < CHANNEL
      <4>1. CASE Len(q) = CHANNEL
        <5>1. q # <<>>
          BY <4>1, EventsAssumption
        <5>2. Tail(q) \in Seq(PushNumbers) /\ Len(Tail(q)) = Len(q) - 1
          BY <5>1
        <5>3. Len(Tail(q)) < CHANNEL
          BY <4>1, <5>2, EventsAssumption
        <5> QED
          BY <4>1, <5>2, <5>3
      <4>2. CASE Len(q) # CHANNEL
        BY <2>2, <4>2, EventsAssumption
      <4> QED
        BY <4>1, <4>2
    <3>2. Kept(q, n) = Append(r, n)
      BY <3>1 DEF Kept
    <3>3. Append(r, n) \in Seq(PushNumbers) /\ Len(Append(r, n)) = Len(r) + 1
      BY <1>0
    <3> QED
      BY <3>1, <3>2, <3>3, EventsAssumption
  <2>3. /\ inbox' \in [Workers -> Seq(PushNumbers)] /\ \A w \in Workers : Len(inbox'[w]) <= CHANNEL
        /\ \A w \in Workers : w \in channel.listeners => inbox'[w] # <<>>
        /\ \A w \in Workers : w \notin channel.listeners => inbox'[w] = inbox[w]
    BY <2>1, <2>2 DEF EventsInv, EventsTyped
  <2> QED
    BY <1>0, <1>1, <1>2, <2>1, <2>3 DEF EventsInv, EventsTyped, StreamsOK, CountsOK, NewsOnItsWay
<1> QED
  BY <1>3, <1>4

\* A task takes a number, a task that waited hands it on, a client reads or goes.
LEMMA QueuesIs ==
  ASSUME EventsInv, NEW w \in Workers,
         StreamReceives(w) \/ StreamSends(w) \/ ClientReads(w) \/ ClientHangsUp(w)
  PROVE  EventsInv'
<1>0. UNCHANGED <<vars, device, password, enrolments, by_token, by_device, challenges, minted, req, command,
                  streams, channel, pushes, unsaid>>
  BY DEF StreamReceives, StreamSends, ClientReads, ClientHangsUp, vars
<1>1. AccessInv'
  BY <1>0, InvKept DEF EventsInv, AnyStep
<1>2. Streaming' = Streaming /\ \A d \in Devices : OpenOf(d)' = OpenOf(d)
  BY <1>0 DEF Streaming, OpenOf
<1>3. /\ inbox \in [Workers -> Seq(PushNumbers)] /\ outbox \in [Workers -> Seq(PushNumbers)]
      /\ sending \in [Workers -> PushNumbers \cup {0}]
      /\ inbox[w] \in Seq(PushNumbers) /\ outbox[w] \in Seq(PushNumbers)
      /\ Len(inbox[w]) <= CHANNEL /\ Len(outbox[w]) <= OUTBOX
      /\ 0 \notin PushNumbers /\ CHANNEL \in Nat /\ OUTBOX \in Nat
  BY EventsAssumption DEF EventsInv, EventsTyped, PushNumbers
<1>4. /\ w \in Streaming /\ hungup' \subseteq Streaming /\ due' \subseteq due
      /\ \A v \in Workers \ {w} :
           inbox'[v] = inbox[v] /\ sending'[v] = sending[v] /\ outbox'[v] = outbox[v]
  <2>1. w \in Streaming
    BY DEF StreamReceives, StreamSends, ClientReads, ClientHangsUp, EventsInv, StreamsOK, Streaming
  <2> QED
    BY <1>3, <2>1 DEF StreamReceives, StreamSends, ClientReads, ClientHangsUp, EventsInv, StreamsOK, outside
<1>5. ASSUME /\ inbox' \in [Workers -> Seq(PushNumbers)] /\ outbox' \in [Workers -> Seq(PushNumbers)]
             /\ sending' \in [Workers -> PushNumbers \cup {0}]
             /\ Len(inbox'[w]) <= CHANNEL /\ Len(outbox'[w]) <= OUTBOX
             /\ w \in due' => inbox'[w] # <<>> \/ sending'[w] # 0 \/ outbox'[w] # <<>>
      PROVE  EventsInv'
  <2>1. EventsTyped'
    BY <1>0, <1>4, <1>5 DEF EventsInv, EventsTyped
  <2>2. StreamsOK' /\ CountsOK'
    BY <1>0, <1>2, <1>4 DEF EventsInv, StreamsOK, CountsOK
  <2>3. NewsOnItsWay'
    <3>1. \A v \in due' : v \in due /\ v \in Workers
      BY <1>4 DEF EventsInv, StreamsOK, Streaming
    <3>2. \A v \in due' \ {w} : unsaid # {} \/ inbox'[v] # <<>> \/ sending'[v] # 0 \/ outbox'[v] # <<>>
      BY <1>4, <3>1 DEF EventsInv, NewsOnItsWay
    <3> QED
      BY <1>0, <1>5, <3>2 DEF NewsOnItsWay
  <2> QED
    BY <1>1, <2>1, <2>2, <2>3 DEF EventsInv
<1>6. CASE StreamReceives(w)
  <2>1. PICK q \in Seq(PushNumbers), n \in PushNumbers :
          /\ q = Tail(inbox[w]) /\ n = Head(inbox[w]) /\ Len(q) <= CHANNEL
    <3>1. inbox[w] # <<>>
      BY <1>6 DEF StreamReceives
    <3>2. Tail(inbox[w]) \in Seq(PushNumbers) /\ Len(Tail(inbox[w])) = Len(inbox[w]) - 1
          /\ Head(inbox[w]) \in PushNumbers /\ Len(inbox[w]) \in Nat
      BY <1>3, <3>1
    <3>3. Len(Tail(inbox[w])) <= CHANNEL
      BY <1>3, <3>2
    <3> QED
      BY <3>2, <3>3
  <2>2. inbox' = [inbox EXCEPT ![w] = q]
    BY <1>6, <2>1 DEF StreamReceives
  <2>3. inbox' \in [Workers -> Seq(PushNumbers)] /\ inbox'[w] = q
    BY <1>3, <2>2
  <2>4. CASE HasRoom(w)
    <3>1. PICK o \in Seq(PushNumbers) : o = Append(outbox[w], n) /\ Len(o) <= OUTBOX /\ o # <<>>
      <4>1. Len(outbox[w]) < OUTBOX
        BY <1>3, <2>4 DEF HasRoom
      <4> QED
        BY <1>3, <4>1, AppendIs
    <3>2. outbox' = [outbox EXCEPT ![w] = o] /\ UNCHANGED sending
      BY <1>6, <2>1, <2>4, <3>1 DEF StreamReceives
    <3> QED
      BY <1>3, <1>5, <2>1, <2>3, <3>1, <3>2
  <2>5. CASE ~HasRoom(w)
    <3>1. sending' = [sending EXCEPT ![w] = n] /\ UNCHANGED outbox
      BY <1>6, <2>1, <2>5 DEF StreamReceives
    <3> QED
      BY <1>3, <1>5, <2>1, <2>3, <3>1
  <2> QED
    BY <2>4, <2>5
<1>7. CASE StreamSends(w)
  <2>1. PICK n \in PushNumbers : n = sending[w]
    BY <1>3, <1>7 DEF StreamSends
  <2>2. PICK o \in Seq(PushNumbers) : o = Append(outbox[w], n) /\ Len(o) <= OUTBOX /\ o # <<>>
    <3>1. Len(outbox[w]) < OUTBOX
      BY <1>3, <1>7 DEF StreamSends, HasRoom
    <3> QED
      BY <1>3, <3>1, AppendIs
  <2>3. outbox' = [outbox EXCEPT ![w] = o] /\ sending' = [sending EXCEPT ![w] = 0] /\ UNCHANGED inbox
    BY <1>7, <2>1, <2>2 DEF StreamSends
  <2> QED
    BY <1>3, <1>5, <2>2, <2>3
<1>8. CASE ClientReads(w)
  <2>1. PICK o \in Seq(PushNumbers) : o = Tail(outbox[w]) /\ Len(o) <= OUTBOX
    <3>1. outbox[w] # <<>>
      BY <1>8 DEF ClientReads
    <3>2. Tail(outbox[w]) \in Seq(PushNumbers) /\ Len(Tail(outbox[w])) = Len(outbox[w]) - 1
          /\ Len(outbox[w]) \in Nat
      BY <1>3, <3>1
    <3>3. Len(Tail(outbox[w])) <= OUTBOX
      BY <1>3, <3>2
    <3> QED
      BY <3>2, <3>3
  <2>2. outbox' = [outbox EXCEPT ![w] = o] /\ UNCHANGED <<inbox, sending>> /\ w \notin due'
    BY <1>8, <2>1 DEF ClientReads
  <2> QED
    BY <1>3, <1>5, <2>1, <2>2
<1>9. CASE ClientHangsUp(w)
  <2>1. outbox' = [outbox EXCEPT ![w] = <<>>] /\ UNCHANGED <<inbox, sending>> /\ w \notin due'
    BY <1>9 DEF ClientHangsUp
  <2>2. <<>> \in Seq(PushNumbers) /\ Len(<<>>) <= OUTBOX
    BY <1>3
  <2> QED
    BY <1>3, <1>5, <2>1, <2>2
<1> QED
  BY <1>6, <1>7, <1>8, <1>9

\* A stream is opened, or refused.
LEMMA OpenedIs ==
  ASSUME EventsInv, NEW w \in Workers, StreamOpened(w)
  PROVE  EventsInv'
<1>0. /\ AccessInv /\ Typed /\ ReqOK /\ EventsTyped /\ StreamsOK /\ CountsOK /\ NewsOnItsWay
      /\ UNCHANGED <<stored, sessions, challenges, minted, command, pushes, unsaid, inbox, sending, outbox,
                     hungup, due>>
      /\ req[w].at = "in"
  BY DEF StreamOpened, queues, outside, At, EventsInv, AccessInv
<1>1. PICK d \in Devices : d = req[w].device
  BY <1>0 DEF ReqOK
<1>2. CASE streams[d] < MAX_STREAMS_PER_DEVICE
  <2>1. /\ streams' = [streams EXCEPT ![d] = streams[d] + 1]
        /\ channel' = Tuned(w) /\ Goes(w, "streaming")
    BY <1>1, <1>2 DEF StreamOpened
  <2>2. /\ req' \in [Workers -> Request] /\ \A v \in Workers \ {w} : req'[v] = req[v]
        /\ req'[w].at = "streaming" /\ req'[w].kind = req[w].kind /\ req'[w].device = d
        /\ req'[w].target = req[w].target /\ req'[w].challenge = req[w].challenge
    BY <1>0, <1>1, <2>1, GoesIs DEF Places
  <2>3. AccessInv'
    BY <1>0, <1>1, <2>2, RequestOnly
  <2>4. Streaming' = Streaming \cup {w}
    BY <2>2 DEF Streaming
  <2>5. /\ OpenOf(d)' = OpenOf(d) \cup {w} /\ w \notin OpenOf(d)
        /\ \A e \in Devices \ {d} : OpenOf(e)' = OpenOf(e)
    BY <1>0, <1>1, <2>2 DEF OpenOf
  <2>6. channel' \in [there : BOOLEAN, listeners : SUBSET Workers]
        /\ channel'.there /\ channel'.listeners = channel.listeners \cup {w}
    BY <1>0, <2>1 DEF Tuned, EventsTyped
  <2>7. PICK k \in 0..MAX_STREAMS_PER_DEVICE : k = streams[d] + 1
    BY <1>0, <1>2, EventsAssumption DEF EventsTyped
  <2>8. /\ streams' \in [Devices -> 0..MAX_STREAMS_PER_DEVICE] /\ streams'[d] = k
        /\ \A e \in Devices \ {d} : streams'[e] = streams[e]
    BY <1>0, <2>1, <2>7 DEF EventsTyped
  <2>9. Cardinality(OpenOf(d) \cup {w}) = k
    <3>1. OpenOf(d) \in SUBSET Workers
      BY DEF OpenOf
    <3>2. IsFiniteSet(OpenOf(d))
      BY <3>1, IdSets, FS_Subset
    <3>3. Cardinality(OpenOf(d) \cup {w}) = Cardinality(OpenOf(d)) + 1
      BY <2>5, <3>2, FS_AddElement
    <3>4. Cardinality(OpenOf(d)) = streams[d]
      BY <1>0 DEF CountsOK
    <3> QED
      BY <2>7, <3>3, <3>4
  <2>10. CountsOK'
    <3>1. ASSUME NEW e \in Devices
          PROVE  streams'[e] = Cardinality(OpenOf(e)')
      <4>1. CASE e = d
        BY <2>5, <2>8, <2>9, <4>1
      <4>2. CASE e # d
        BY <1>0, <2>5, <2>8, <4>2 DEF CountsOK
      <4> QED
        BY <4>1, <4>2
    <3> QED
      BY <3>1 DEF CountsOK
  <2>11. EventsTyped'
    BY <1>0, <2>6, <2>8 DEF EventsTyped
  <2>12. StreamsOK' /\ NewsOnItsWay'
    BY <1>0, <2>4, <2>6 DEF StreamsOK, NewsOnItsWay
  <2> QED
    BY <2>3, <2>10, <2>11, <2>12 DEF EventsInv
<1>3. CASE ~(streams[d] < MAX_STREAMS_PER_DEVICE)
  <2>1. Done(w) /\ UNCHANGED <<streams, channel>>
    BY <1>1, <1>3 DEF StreamOpened
  <2>2. req' \in [Workers -> Request] /\ req'[w] = NoRequest /\ \A v \in Workers \ {w} : req'[v] = req[v]
    BY <1>0, <2>1, Rows, PutIs DEF Done
  <2>3. AccessInv'
    BY <1>0, <2>2, RequestOnly
  <2>4. \A v \in Workers : req[v].at = "streaming" \/ req'[v].at = "streaming" => req'[v] = req[v]
    BY <1>0, <2>2, Rows
  <2> QED
    BY <1>0, <2>1, <2>3, <2>4, Quiet DEF events, queues, outside
<1> QED
  BY <1>2, <1>3

\* A stream's task returns.
LEMMA ReturnsIs ==
  ASSUME EventsInv, NEW w \in Workers, StreamFindsNobody(w) \/ StreamEnds(w)
  PROVE  EventsInv'
<1>0. /\ AccessInv /\ Typed /\ ReqOK /\ EventsTyped /\ StreamsOK /\ CountsOK /\ NewsOnItsWay
      /\ StreamReturns(w)
  BY DEF EventsInv, AccessInv, StreamFindsNobody, StreamEnds
<1>1. w \in Streaming
  BY <1>0 DEF StreamFindsNobody, StreamEnds, StreamsOK, Streaming
<1>2. PICK d \in Devices : d = req[w].device
  BY <1>0, <1>1 DEF ReqOK, Streaming
<1>3. /\ UNCHANGED <<stored, sessions, challenges, minted, command, pushes, unsaid>>
      /\ streams' = [streams EXCEPT ![d] = streams[d] - 1]
      /\ channel' = [channel EXCEPT !.listeners = channel.listeners \ {w}]
      /\ inbox' = [inbox EXCEPT ![w] = <<>>] /\ sending' = [sending EXCEPT ![w] = 0]
      /\ outbox' = [outbox EXCEPT ![w] = <<>>]
      /\ hungup' = hungup \ {w} /\ due' = due \ {w}
      /\ Done(w)
  BY <1>0, <1>2 DEF StreamReturns, CountedOff
<1>4. req' \in [Workers -> Request] /\ req'[w] = NoRequest /\ \A v \in Workers \ {w} : req'[v] = req[v]
  BY <1>0, <1>3, Rows, PutIs DEF Done
<1>5. AccessInv'
  BY <1>0, <1>3, <1>4, RequestOnly
<1>6. Streaming' = Streaming \ {w}
  BY <1>4, Rows DEF Streaming
<1>7. /\ OpenOf(d)' = OpenOf(d) \ {w} /\ w \in OpenOf(d)
      /\ \A e \in Devices \ {d} : OpenOf(e)' = OpenOf(e)
  BY <1>1, <1>2, <1>4, Rows DEF OpenOf, Streaming
<1>8. /\ channel' \in [there : BOOLEAN, listeners : SUBSET Workers]
      /\ channel'.there = channel.there /\ channel'.listeners = channel.listeners \ {w}
  BY <1>0, <1>3 DEF EventsTyped
<1>9. PICK k \in 0..MAX_STREAMS_PER_DEVICE : k = streams[d] - 1 /\ Cardinality(OpenOf(d) \ {w}) = k
  <2>1. OpenOf(d) \in SUBSET Workers
    BY DEF OpenOf
  <2>2. IsFiniteSet(OpenOf(d))
    BY <2>1, IdSets, FS_Subset
  <2>3. Cardinality(OpenOf(d) \ {w}) = Cardinality(OpenOf(d)) - 1 /\ IsFiniteSet(OpenOf(d) \ {w})
    BY <1>7, <2>2, FS_RemoveElement
  <2>4. Cardinality(OpenOf(d) \ {w}) \in Nat
    BY <2>3, FS_CardinalityType
  <2>5. Cardinality(OpenOf(d)) = streams[d] /\ streams[d] \in 0..MAX_STREAMS_PER_DEVICE
    BY <1>0 DEF CountsOK, EventsTyped
  <2> QED
    BY <2>3, <2>4, <2>5, EventsAssumption
<1>10. /\ streams' \in [Devices -> 0..MAX_STREAMS_PER_DEVICE] /\ streams'[d] = k
       /\ \A e \in Devices \ {d} : streams'[e] = streams[e]
  BY <1>0, <1>3, <1>9 DEF EventsTyped
<1>11. CountsOK'
  <2>1. ASSUME NEW e \in Devices
        PROVE  streams'[e] = Cardinality(OpenOf(e)')
    <3>1. CASE e = d
      BY <1>7, <1>9, <1>10, <3>1
    <3>2. CASE e # d
      BY <1>0, <1>7, <1>10, <3>2 DEF CountsOK
    <3> QED
      BY <3>1, <3>2
  <2> QED
    BY <2>1 DEF CountsOK
<1>12. /\ inbox' \in [Workers -> Seq(PushNumbers)] /\ outbox' \in [Workers -> Seq(PushNumbers)]
       /\ sending' \in [Workers -> PushNumbers \cup {0}]
       /\ inbox'[w] = <<>> /\ outbox'[w] = <<>> /\ sending'[w] = 0
       /\ \A v \in Workers \ {w} : inbox'[v] = inbox[v] /\ outbox'[v] = outbox[v] /\ sending'[v] = sending[v]
  BY <1>0, <1>3 DEF EventsTyped
<1>13. EventsTyped'
  BY <1>0, <1>3, <1>8, <1>10, <1>12, EventsAssumption DEF EventsTyped
<1>14. StreamsOK'
  BY <1>0, <1>3, <1>6, <1>8, <1>12 DEF StreamsOK
<1>15. NewsOnItsWay'
  <2>1. \A v \in due' : v \in due /\ v \in Workers \ {w}
    BY <1>0, <1>3 DEF StreamsOK, Streaming
  <2> QED
    BY <1>0, <1>3, <1>12, <2>1 DEF NewsOnItsWay
<1> QED
  BY <1>5, <1>11, <1>13, <1>14, <1>15 DEF EventsInv

\* No request, and nothing in the queues.
Still ==
  /\ \A w \in Workers : req[w] = NoRequest
  /\ streams = [d \in Devices |-> 0] /\ channel = NoChannel /\ unsaid = {} /\ pushes \in 0..MaxPushes
  /\ inbox = [w \in Workers |-> <<>>] /\ sending = [w \in Workers |-> 0]
  /\ outbox = [w \in Workers |-> <<>>] /\ hungup = {} /\ due = {}

\* A server that has just started has no streams, and that is as it should be.
LEMMA Silent == Still => EventsTyped /\ StreamsOK /\ CountsOK /\ NewsOnItsWay
<1> SUFFICES ASSUME Still
             PROVE  EventsTyped /\ StreamsOK /\ CountsOK /\ NewsOnItsWay
  OBVIOUS
<1> USE DEF Still
<1>1. Streaming = {} /\ \A d \in Devices : OpenOf(d) = {}
  BY Rows DEF Streaming, OpenOf
<1>2. NoChannel \in [there : BOOLEAN, listeners : SUBSET Workers] /\ NoChannel.listeners = {}
  BY DEF NoChannel
<1>3. EventsTyped
  BY <1>2, EventsAssumption DEF EventsTyped
<1>4. StreamsOK
  BY <1>1, <1>2 DEF StreamsOK
<1>5. CountsOK
  BY <1>1, FS_EmptySet DEF CountsOK
<1> QED
  BY <1>3, <1>4, <1>5 DEF NewsOnItsWay

\* The invariant holds at first.
LEMMA EventsInvAtFirst ==
  ASSUME EventsInit
  PROVE  EventsInv
<1>1. \A w \in Workers : req[w] = NoRequest
  BY DEF EventsInit, Init
<1>2. pushes \in 0..MaxPushes
  BY EventsAssumption DEF EventsInit
<1> QED
  BY <1>1, <1>2, Silent, InvAtFirst DEF EventsInit, EventsInv, Still

\* Every step keeps it.
LEMMA EventsInvKept ==
  ASSUME EventsInv, [EventsNext]_all
  PROVE  EventsInv'
<1>0. AccessInv
  BY DEF EventsInv
<1>1. CASE (Step \/ Command) /\ UNCHANGED events
  <2>1. AccessInv'
    BY <1>0, <1>1, InvKept DEF AnyStep, Next
  <2> QED
    BY <1>0, <1>1, <2>1, StreamsLeft, Quiet
<1>2. CASE EventsRestart
  <2>1. AccessInv'
    BY <1>0, <1>2, InvKept DEF EventsRestart, AnyStep, Next
  <2>2. Still'
    BY <1>2 DEF EventsRestart, Restart, EventsInv, EventsTyped, Still
  <2>3. (EventsTyped /\ StreamsOK /\ CountsOK /\ NewsOnItsWay)'
    BY <2>2, Silent, PTL
  <2> QED
    BY <2>1, <2>3 DEF EventsInv
<1>3. CASE Push
  BY <1>3, PushIs
<1>4. CASE \E n \in unsaid : Announce(n)
  BY <1>4, AnnounceIs
<1>5. CASE \E w \in Workers : Stream(w) \/ ClientReads(w) \/ ClientHangsUp(w)
  BY <1>5, OpenedIs, ReturnsIs, QueuesIs DEF Stream
<1>6. CASE UNCHANGED all
  <2>1. UNCHANGED <<vars, events, req>>
    BY <1>6 DEF all, vars
  <2>2. AccessInv'
    BY <1>0, <2>1, InvKept DEF AnyStep
  <2> QED
    BY <2>1, <2>2, Quiet
<1> QED
  BY <1>1, <1>2, <1>3, <1>4, <1>5, <1>6 DEF EventsNext

----------------------------------------------------------------------------
(* Theorems.                                                               *)

\* The invariant holds with the command line at work, and across restarts.
THEOREM EventsInvariant == EventsSpec => []EventsInv
BY EventsInvAtFirst, EventsInvKept, PTL DEF EventsSpec

\* The count a device's streams are capped by is the number that are open.
THEOREM CountsCorrect == EventsSpec => []StreamsCounted
<1>1. EventsInv => StreamsCounted
  <2> SUFFICES ASSUME EventsInv
               PROVE  StreamsCounted
    OBVIOUS
  <2>1. hungup \subseteq Workers /\ due \subseteq Workers
    BY DEF EventsInv, StreamsOK, Streaming
  <2>2. PushNumbers \cup {0} \subseteq 0..MaxPushes
    BY EventsAssumption DEF PushNumbers
  <2>3. EventsTypeOK
    BY <2>1, <2>2 DEF EventsInv, EventsTyped, EventsTypeOK, PushNumbers
  <2> QED
    BY <2>3 DEF EventsInv, CountsOK, OpenOf, StreamsCounted
<1> QED
  BY EventsInvariant, <1>1, PTL

\* Every stream listens to the channel that announcements go to.
THEOREM NobodyIsCutOffCorrect == EventsSpec => []NobodyIsCutOff
<1>1. EventsInv => NobodyIsCutOff
  BY DEF EventsInv, StreamsOK, Streaming, NobodyIsCutOff
<1> QED
  BY EventsInvariant, <1>1, PTL

\* Word of the last push is on its way to every client that listened when it
\* was committed, until the client is told.
THEOREM NewsCorrect == EventsSpec => []NewsOnItsWay
<1>1. EventsInv => NewsOnItsWay
  BY DEF EventsInv
<1> QED
  BY EventsInvariant, <1>1, PTL

\* The invariants of Access that do not depend on who revokes hold of the
\* server with its streams and with the command line as well.
THEOREM AccessCorrectWithEvents ==
  EventsSpec => [](OneSignatureOneSession /\ OneTokenOneDevice /\ GuessesBounded)
<1>1. EventsInv => OneSignatureOneSession /\ OneTokenOneDevice /\ GuessesBounded
  BY InvGives DEF EventsInv
<1> QED
  BY EventsInvariant, <1>1, PTL

=============================================================================
