------------------------------- MODULE Events -------------------------------
(***************************************************************************)
(* Event streams (Events in state.rs, push and events in api/records.rs):  *)
(* how the devices of an account hear that there is something new, and how *)
(* a stream ends.  A worker of Access that was let in with "events" is the *)
(* stream's task from then on.                                             *)
(*                                                                         *)
(* A push commits under the database's mutex and announces its number once *)
(* it has let go, so announcements may overtake each other.  The account's *)
(* broadcast channel is in a map behind a mutex; a listener that lags      *)
(* loses the oldest.  The task hands each number on to the client's queue  *)
(* and waits there while the client does not read: it asks whether its     *)
(* token is still good only when it does not wait.                         *)
(***************************************************************************)
EXTENDS Access

CONSTANTS
  MAX_STREAMS_PER_DEVICE,
  CHANNEL,         \* numbers a broadcast channel keeps for a listener
  OUTBOX,          \* events that wait for a client
  MaxPushes        \* bound: pushes ever made

ASSUME EventsAssumption ==
  /\ MAX_STREAMS_PER_DEVICE \in Nat \ {0}
  /\ CHANNEL \in Nat \ {0} /\ OUTBOX \in Nat \ {0} /\ MaxPushes \in Nat

VARIABLES
  streams,    \* open streams counted per device
  channel,    \* the account's entry in the map: whether it is there, and who
              \* listens to it
  pushes,     \* the account's number,
  unsaid,     \* and those of them that are not announced yet
  inbox,      \* what a listener has yet to receive
  sending,    \* the number a task waits to hand on, or 0
  outbox,     \* what waits for the client
  hungup,     \* external: whose client has gone
  due         \* external: whose client has not been told since the last push

queues == <<inbox, sending, outbox>>
outside == <<hungup, due>>
events == <<streams, channel, pushes, unsaid, queues, outside>>
all == <<vars, events>>

----------------------------------------------------------------------------

NoChannel == [there |-> FALSE, listeners |-> {}]

EventsInit ==
  /\ Init
  /\ streams = [d \in Devices |-> 0]
  /\ channel = NoChannel
  /\ pushes = 0 /\ unsaid = {}
  /\ inbox = [w \in Workers |-> <<>>]
  /\ sending = [w \in Workers |-> 0]
  /\ outbox = [w \in Workers |-> <<>>]
  /\ hungup = {} /\ due = {}

----------------------------------------------------------------------------
(* Saying that there is something new.                                     *)

\* A push that takes a record commits.  Whoever listens has to hear of it.
Push ==
  /\ pushes < MaxPushes /\ DbFree
  /\ pushes' = pushes + 1
  /\ unsaid' = unsaid \cup {pushes + 1}
  /\ due' = due \cup channel.listeners
  /\ UNCHANGED <<vars, streams, channel, queues, hungup>>

\* Mutant: a listener that lags starts over.
KeptNone(queue, n) == IF Len(queue) = CHANNEL THEN <<>> ELSE Append(queue, n)

\* A full channel loses its oldest number, which the listener skips.
Kept(queue, n) ==
  Append(IF Len(queue) = CHANNEL THEN Tail(queue) ELSE queue, n)

\* Mutant: one listener is as good as none.
NobodyButOne == Cardinality(channel.listeners) <= 1

\* receiver_count.
NobodyListens == channel.listeners = {}

\* Events::announce: a channel nobody listens to goes.
Announce(n) ==
  /\ n \in unsaid
  /\ unsaid' = unsaid \ {n}
  /\ IF NobodyListens
     THEN /\ channel' = NoChannel
          /\ UNCHANGED inbox
     ELSE /\ inbox' = [w \in Workers |-> IF w \in channel.listeners THEN Kept(inbox[w], n)
                                                                    ELSE inbox[w]]
          /\ UNCHANGED channel
  /\ UNCHANGED <<vars, streams, pushes, sending, outbox, outside>>

----------------------------------------------------------------------------
(* A stream.                                                               *)

\* Mutant: a channel of its own.
TunedAlone(w) == [there |-> TRUE, listeners |-> {w}]

\* Events::subscribe: the account's channel, made when there is none.
Tuned(w) == [there |-> TRUE, listeners |-> channel.listeners \cup {w}]

\* Events::open_stream: one more for this device, or none.  The two tables are
\* behind a mutex each, and nobody looks at both.
StreamOpened(w) ==
  LET d == req[w].device
  IN  /\ At(w, "events", "in")
      /\ IF streams[d] < MAX_STREAMS_PER_DEVICE
         THEN /\ streams' = [streams EXCEPT ![d] = @ + 1]
              /\ channel' = Tuned(w)
              /\ Goes(w, "streaming")
         ELSE /\ Done(w)
              /\ UNCHANGED <<streams, channel>>
      /\ UNCHANGED <<stored, sessions, challenges, minted, command>>
      /\ UNCHANGED <<pushes, unsaid, queues, outside>>

HasRoom(w) == Len(outbox[w]) < OUTBOX /\ w \notin hungup

\* The task takes the next number and hands it on, or waits to.
StreamReceives(w) ==
  LET n == Head(inbox[w])
  IN  /\ req[w].at = "streaming" /\ sending[w] = 0
      /\ inbox[w] # <<>>
      /\ inbox' = [inbox EXCEPT ![w] = Tail(@)]
      /\ IF HasRoom(w)
         THEN outbox' = [outbox EXCEPT ![w] = Append(@, n)] /\ UNCHANGED sending
         ELSE sending' = [sending EXCEPT ![w] = n] /\ UNCHANGED outbox
      /\ UNCHANGED <<vars, streams, channel, pushes, unsaid, outside>>

StreamSends(w) ==
  /\ sending[w] # 0 /\ HasRoom(w)
  /\ outbox' = [outbox EXCEPT ![w] = Append(@, sending[w])]
  /\ sending' = [sending EXCEPT ![w] = 0]
  /\ UNCHANGED <<vars, streams, channel, pushes, unsaid, inbox, outside>>

\* Mutant: it is not counted off.
CountedOffNever(d) == UNCHANGED streams

\* StreamGuard::drop.
CountedOff(d) == streams' = [streams EXCEPT ![d] = @ - 1]

\* The task returns, and drops its receiver, its queue and its guard.
StreamReturns(w) ==
  /\ CountedOff(req[w].device)
  /\ channel' = [channel EXCEPT !.listeners = @ \ {w}]
  /\ inbox' = [inbox EXCEPT ![w] = <<>>]
  /\ sending' = [sending EXCEPT ![w] = 0]
  /\ outbox' = [outbox EXCEPT ![w] = <<>>]
  /\ hungup' = hungup \ {w} /\ due' = due \ {w}
  /\ Done(w)
  /\ UNCHANGED <<stored, sessions, challenges, minted, command, pushes, unsaid>>

\* Nobody takes what it has to hand on.
StreamFindsNobody(w) ==
  /\ sending[w] # 0 /\ w \in hungup
  /\ StreamReturns(w)

\* Mutant: whoever was in when the stream was opened stays in.
StillInForGood(w) == TRUE

\* still_in: the token is good and the device is in.
StillIn(w) == Good(req[w].token) /\ device[req[w].device].status = "live"

\* The recheck, every half minute; or the channel was closed.
StreamEnds(w) ==
  /\ req[w].at = "streaming" /\ sending[w] = 0 /\ DbFree
  /\ w \in hungup \/ ~StillIn(w) \/ w \notin channel.listeners
  /\ StreamReturns(w)

----------------------------------------------------------------------------
(* The client at the other end.                                            *)

\* It is told, and pulls.
ClientReads(w) ==
  /\ outbox[w] # <<>> /\ w \notin hungup
  /\ outbox' = [outbox EXCEPT ![w] = Tail(@)]
  /\ due' = due \ {w}
  /\ UNCHANGED <<vars, streams, channel, pushes, unsaid, inbox, sending, hungup>>

\* The connection goes, and what was on its way with it.
ClientHangsUp(w) ==
  /\ req[w].at = "streaming" /\ w \notin hungup
  /\ hungup' = hungup \cup {w}
  /\ outbox' = [outbox EXCEPT ![w] = <<>>]
  /\ due' = due \ {w}
  /\ UNCHANGED <<vars, streams, channel, pushes, unsaid, inbox, sending>>

----------------------------------------------------------------------------

Stream(w) ==
  \/ StreamOpened(w) \/ StreamReceives(w) \/ StreamSends(w)
  \/ StreamFindsNobody(w) \/ StreamEnds(w)

\* The server stops and starts again: what is in memory is gone, pushes that
\* were committed and not announced with it.
EventsRestart ==
  /\ Restart
  /\ streams' = [d \in Devices |-> 0]
  /\ channel' = NoChannel
  /\ unsaid' = {}
  /\ inbox' = [w \in Workers |-> <<>>]
  /\ sending' = [w \in Workers |-> 0]
  /\ outbox' = [w \in Workers |-> <<>>]
  /\ hungup' = {} /\ due' = {}
  /\ UNCHANGED pushes

EventsNext ==
  \/ (Step \/ Command) /\ UNCHANGED events
  \/ EventsRestart
  \/ Push
  \/ \E n \in unsaid : Announce(n)
  \/ \E w \in Workers : Stream(w) \/ ClientReads(w) \/ ClientHangsUp(w)

EventsSpec == EventsInit /\ [][EventsNext]_all

\* Tasks run, timers fire and time passes; a command that is run finishes.  Of
\* the client: it reads what it is sent, or goes.
EventsFair ==
  /\ EventsSpec
  /\ \A w \in Workers : WF_all(Work(w) /\ UNCHANGED events) /\ WF_all(Stream(w))
  /\ WF_all(\E w \in Workers : ClientReads(w))
  /\ WF_all(\E n \in unsaid : Announce(n))
  /\ WF_all(((\E t \in Tokens : TokenExpires(t)) \/ Sweep) /\ UNCHANGED events)
  /\ WF_all(CommandDropsEnrolments /\ UNCHANGED events)

----------------------------------------------------------------------------
(* What must hold.                                                         *)

\* The variables of the streams have their types, and no queue is longer than
\* it may be.
EventsTypeOK ==
  /\ streams \in [Devices -> 0..MAX_STREAMS_PER_DEVICE]
  /\ channel \in [there : BOOLEAN, listeners : SUBSET Workers]
  /\ pushes \in 0..MaxPushes /\ unsaid \subseteq 1..MaxPushes
  /\ inbox \in [Workers -> Seq(1..MaxPushes)] /\ \A w \in Workers : Len(inbox[w]) <= CHANNEL
  /\ sending \in [Workers -> 0..MaxPushes]
  /\ outbox \in [Workers -> Seq(1..MaxPushes)] /\ \A w \in Workers : Len(outbox[w]) <= OUTBOX
  /\ hungup \subseteq Workers /\ due \subseteq Workers

\* The count a device's streams are capped by is the number that are open
\* (open_stream and the guard that counts off when a stream is dropped).
StreamsCounted ==
  /\ EventsTypeOK
  /\ \A d \in Devices : streams[d] = Cardinality({w \in Workers : req[w].at = "streaming" /\ req[w].device = d})

\* Every stream listens to the channel that announcements go to: announce drops
\* a channel only when nobody listens, however it races with a subscription and
\* with streams that end, so no stream is ever closed from under its client.
NobodyIsCutOff ==
  \A w \in Workers : req[w].at = "streaming" => channel.there /\ w \in channel.listeners

\* "Missed a few: the next one says the same thing better": as long as a client
\* has not been told since the last push that was committed while it listened,
\* word of it is on its way, however announcements overtake each other and
\* however far the stream lags.
NewsOnItsWay ==
  \A w \in due : unsaid # {} \/ inbox[w] # <<>> \/ sending[w] # 0 \/ outbox[w] # <<>>

\* A device that is revoked, by whatever way, is out for good: it stops hearing
\* when the account changes, even while its token still is one (still_in), and
\* no token of it stays in memory, not even one that a sign-in racing with the
\* revocation was given after the others were dropped (login, sweep).
RevokedIsOut ==
  \A d \in Devices :
    device[d].status = "revoked"
      ~> [](streams[d] = 0 /\ \A t \in Tokens : by_token[t].device # d)

=============================================================================
