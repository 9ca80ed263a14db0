--------------------------- MODULE PairingProofs ---------------------------
(***************************************************************************)
(* Theorems about the relay for any number of devices, parties that join,  *)
(* sessions and messages, and for every order of their steps.              *)
(***************************************************************************)
EXTENDS Pairing, FiniteSetTheorems, SequenceTheorems, TLAPS

----------------------------------------------------------------------------
(* The inductive invariant.                                                *)

Numbers == 0..MaxOpened
Messages == Seq([by : Parties, n : Nat])
Openers == Devices \cup {Nobody}
Claims == Joiners \cup {Nobody}

SessionType == [opener : Openers, claim : Claims, from_a : Messages, from_b : Messages,
                expired : BOOLEAN]

\* Admitted to a session, and at it still.
Inside == {"posting", "reading", "listening", "looked", "waiting"}
Stages == Inside \cup {"idle", "opening", "admit_post", "admit_read", "closing"}

CallType == [at : Stages, code : Numbers, woken : BOOLEAN]
HeardType == [code : Numbers, messages : Messages]

Typed ==
  /\ sessions \in [Codes -> SessionType]
  /\ opened \in Numbers
  /\ standing \in [Devices -> {"in", "marked", "out"}]
  /\ call \in [Parties -> CallType]
  /\ heard \in [Parties -> HeardType]

\* Each session that is opened has a code of its own.
Opening == {d \in Devices : call[d].at = "opening"}
CodesLeft == opened + Cardinality(Opening) <= MaxOpened

\* Side a of a session is its opener, side b the holder of its claim.
IsSide(p, session) == IF p \in Devices THEN session.opener = p ELSE session.claim = p

\* A session has a code that was handed out, its slots are within bounds, and
\* what is in a slot comes from the slot's side.
SessionOK(code) ==
  /\ sessions[code].opener # Nobody => code <= opened
  /\ Len(sessions[code].from_a) <= MAX_MESSAGES /\ Len(sessions[code].from_b) <= MAX_MESSAGES
  /\ \A i \in 1..Len(sessions[code].from_a) : sessions[code].from_a[i].by = sessions[code].opener
  /\ \A i \in 1..Len(sessions[code].from_b) : sessions[code].from_b[i].by = sessions[code].claim

\* Whoever is inside a session speaks for a side of it as long as it is there,
\* hears in it, and once it has looked has either heard everything or is woken.
CallOK(p) ==
  /\ call[p].at \notin {"idle", "opening"} => call[p].code \in Codes
  /\ call[p].at \in Inside =>
       /\ call[p].code <= opened
       /\ heard[p].code = call[p].code
       /\ sessions[call[p].code].opener # Nobody => IsSide(p, sessions[call[p].code])
  /\ /\ call[p].at \in {"looked", "waiting"} /\ ~call[p].woken
     /\ sessions[call[p].code].opener # Nobody
     => Len(Said(p, sessions[call[p].code])) <= Len(heard[p].messages)

\* What a party was told is the beginning of what was said, in the session it
\* was told it in.
HeardOK(p) ==
  /\ heard[p].code <= opened
  /\ Len(heard[p].messages) <= MAX_MESSAGES
  /\ \A code \in Codes : sessions[code].opener # Nobody /\ heard[p].code = code =>
       IsPrefix(heard[p].messages, Said(p, sessions[code]))

Capped ==
  /\ Cardinality(Open(sessions)) <= OPEN_AT_MOST
  /\ \A account \in Accounts : Cardinality(OpenOf(sessions, account)) <= OPEN_PER_ACCOUNT

PairingInv ==
  /\ Typed /\ CodesLeft /\ Capped
  /\ \A code \in Codes : SessionOK(code)
  /\ \A p \in Parties : CallOK(p) /\ HeardOK(p)

----------------------------------------------------------------------------
(* Types.                                                                  *)

\* What the constants are, in the words the proofs use.
LEMMA Constants ==
  /\ MaxOpened \in Nat /\ MAX_MESSAGES \in Nat /\ OPEN_AT_MOST \in Nat /\ OPEN_PER_ACCOUNT \in Nat
  /\ 0 \in Numbers /\ Numbers \subseteq Nat /\ Codes \subseteq Numbers
  /\ \A n \in Numbers : n # 0 => n \in Codes
  /\ Nobody \notin Parties /\ \A p \in Parties : p \in Devices \/ p \in Joiners
  /\ \A p \in Joiners : p \notin Devices
BY PairingAssumption DEF Numbers, Codes, Parties

\* What a session, a call and what a party was told are made of.
LEMMA SessionParts ==
  ASSUME NEW s \in SessionType
  PROVE  /\ s.opener \in Openers /\ s.claim \in Claims
         /\ s.from_a \in Messages /\ s.from_b \in Messages /\ s.expired \in BOOLEAN
         /\ \A d \in Openers : [s EXCEPT !.opener = d] \in SessionType
         /\ \A p \in Claims : [s EXCEPT !.claim = p] \in SessionType
         /\ \A m \in Messages : [s EXCEPT !.from_a = m] \in SessionType
         /\ \A m \in Messages : [s EXCEPT !.from_b = m] \in SessionType
         /\ [s EXCEPT !.expired = TRUE] \in SessionType
BY DEF SessionType

\* The same of a call.
LEMMA CallParts ==
  ASSUME NEW r \in CallType
  PROVE  /\ r.at \in Stages /\ r.code \in Numbers /\ r.woken \in BOOLEAN
         /\ \A at \in Stages : [r EXCEPT !.at = at] \in CallType
         /\ \A n \in Numbers : [r EXCEPT !.code = n] \in CallType
         /\ [r EXCEPT !.woken = TRUE] \in CallType
BY DEF CallType

\* The same of what a party was told.
LEMMA HeardParts ==
  ASSUME NEW h \in HeardType
  PROVE  /\ h.code \in Numbers /\ h.messages \in Messages
         /\ \A m \in Messages : [h EXCEPT !.messages = m] \in HeardType
BY DEF HeardType

\* An empty session, no call and nothing heard are of their types.
LEMMA Empty ==
  /\ NoSession \in SessionType /\ NoSession.opener = Nobody /\ NoSession.claim = Nobody
  /\ NoSession.from_a = <<>> /\ NoSession.from_b = <<>>
  /\ NoCall \in CallType /\ NoCall.at = "idle" /\ NoCall.code = 0
  /\ \A n \in Numbers : [code |-> n, messages |-> <<>>] \in HeardType
BY Constants DEF NoSession, SessionType, Openers, Claims, Messages, NoCall, CallType, Stages,
   HeardType

\* A call that sets out.
LEMMA SettingOut ==
  ASSUME NEW at \in Stages, NEW n \in Numbers
  PROVE  /\ [NoCall EXCEPT !.at = at, !.code = n] \in CallType
         /\ [NoCall EXCEPT !.at = at, !.code = n].at = at
         /\ [NoCall EXCEPT !.at = at, !.code = n].code = n
BY DEF NoCall, CallType

\* Messages are put behind one another, and the news are part of what was said.
LEMMA MessagesAre ==
  /\ \A q \in Messages : Len(q) \in Nat
  /\ \A q \in Messages, p \in Parties, n \in Nat : Append(q, [by |-> p, n |-> n]) \in Messages
<1> DEFINE M == [by : Parties, n : Nat]
<1>1. \A p \in Parties, n \in Nat : [by |-> p, n |-> n] \in M
  OBVIOUS
<1>2. Messages = Seq(M)
  BY DEF Messages
<1> HIDE DEF M
<1>3. \A q \in Seq(M) : Len(q) \in Nat /\ \A m \in M : Append(q, m) \in Seq(M)
  OBVIOUS
<1> QED
  BY <1>1, <1>2, <1>3

----------------------------------------------------------------------------
(* What a step may do to a session and to a party.                         *)

\* A session keeps what it says of its sides and what they said.
Like(s, t) ==
  t.opener = s.opener /\ t.claim = s.claim /\ t.from_a = s.from_a /\ t.from_b = s.from_b

Begins(code) ==
  /\ code = opened + 1 /\ opened' = opened + 1
  /\ \E d \in Devices : sessions'[code] = [NoSession EXCEPT !.opener = d]

Claimed(code) ==
  \E p \in Joiners :
    /\ sessions[code].opener # Nobody /\ sessions[code].claim \in {Nobody, p}
    /\ sessions'[code] = [sessions[code] EXCEPT !.claim = p]

SaysA(code) ==
  \E p \in Devices, n \in Nat :
    /\ call[p].at \in Inside /\ call[p].code = code /\ sessions[code].opener # Nobody
    /\ Len(sessions[code].from_a) < MAX_MESSAGES
    /\ sessions'[code] = [sessions[code] EXCEPT
                            !.from_a = Append(sessions[code].from_a, [by |-> p, n |-> n])]

SaysB(code) ==
  \E p \in Joiners, n \in Nat :
    /\ call[p].at \in Inside /\ call[p].code = code /\ sessions[code].opener # Nobody
    /\ Len(sessions[code].from_b) < MAX_MESSAGES
    /\ sessions'[code] = [sessions[code] EXCEPT
                            !.from_b = Append(sessions[code].from_b, [by |-> p, n |-> n])]

SessionMoves(code) ==
  \/ Like(sessions[code], sessions'[code])
  \/ sessions'[code] = NoSession
  \/ Begins(code) \/ Claimed(code) \/ SaysA(code) \/ SaysB(code)

\* Nothing new is said in a session.
Quiet(code) ==
  \/ sessions'[code].from_a = sessions[code].from_a /\ sessions'[code].from_b = sessions[code].from_b
  \/ sessions'[code].opener = Nobody

\* A party's call is left alone, unless something is said that it listens for.
Stays(p) ==
  /\ call'[p] = call[p] /\ heard'[p] = heard[p]
  /\ call[p].at \in {"looked", "waiting"} => Quiet(call[p].code)

IsWoken(p) == call'[p] = [call[p] EXCEPT !.woken = TRUE] /\ heard'[p] = heard[p]

IsOver(p) ==
  /\ call'[p] = NoCall /\ heard'[p] = heard[p]
  /\ call[p].at = "opening" => OpenRefused(p) \/ opened' = opened + 1

Begs(p) ==
  /\ call'[p].at \in {"opening", "admit_post", "admit_read", "closing"}
  /\ call'[p].at # "opening" => call'[p].code \in Codes
  /\ call'[p].at = "opening" => p \in Devices /\ OpenAsked(p)
  /\ heard'[p] = heard[p]

Enters(p) ==
  /\ call[p].at \in {"admit_post", "admit_read"} /\ call'[p].at \in {"posting", "reading"}
  /\ call'[p].code = call[p].code
  /\ sessions[call[p].code].opener # Nobody /\ IsSide(p, sessions'[call[p].code])
  /\ heard'[p] = IF heard[p].code = call[p].code THEN heard[p]
                 ELSE [code |-> call[p].code, messages |-> <<>>]

BeginsToListen(p) ==
  /\ call[p].at = "reading" /\ call'[p] = [call[p] EXCEPT !.at = "listening"]
  /\ UNCHANGED <<sessions, heard>>

FindsNothing(p) ==
  /\ call[p].at = "listening" /\ call'[p] = [call[p] EXCEPT !.at = "looked"]
  /\ News(p) = <<>>
  /\ UNCHANGED <<sessions, heard>>

FallsAsleep(p) ==
  /\ call[p].at = "looked" /\ call'[p] = [call[p] EXCEPT !.at = "waiting"]
  /\ UNCHANGED <<sessions, heard>>

IsTold(p) ==
  /\ call[p].at \in {"listening", "waiting"} /\ call'[p] = NoCall
  /\ Alive(call[p].code)
  /\ heard'[p] = [heard[p] EXCEPT !.messages = heard[p].messages \o News(p)]
  /\ UNCHANGED sessions

PartyMoves(p) ==
  \/ Stays(p) \/ IsWoken(p) \/ IsOver(p) \/ Begs(p) \/ Enters(p)
  \/ BeginsToListen(p) \/ FindsNothing(p) \/ FallsAsleep(p) \/ IsTold(p)

Moves ==
  /\ opened' \in {opened, opened + 1}
  /\ \A code \in Codes : SessionMoves(code)
  /\ \A p \in Parties : PartyMoves(p)

\* A step that leaves the sessions alone leaves each as it is and quiet.
LEMMA SessionsStay ==
  ASSUME UNCHANGED sessions
  PROVE  /\ \A code \in Codes : SessionMoves(code)
         /\ \A p \in Parties : call'[p] = call[p] /\ heard'[p] = heard[p] => Stays(p)
BY DEF SessionMoves, Like, Stays, Quiet

\* A step of one party leaves the others as they were.
LEMMA OthersStay ==
  ASSUME Typed, NEW p \in Parties, NEW r, call' = [call EXCEPT ![p] = r]
  PROVE  /\ call'[p] = r
         /\ \A q \in Parties \ {p} : call'[q] = call[q]
BY DEF Typed

\* A step that changes one session changes no other.
LEMMA OtherSessions ==
  ASSUME Typed, NEW c \in Codes, NEW s, sessions' = [sessions EXCEPT ![c] = s]
  PROVE  /\ sessions'[c] = s
         /\ \A code \in Codes \ {c} : sessions'[code] = sessions[code]
BY DEF Typed

\* Asking, setting out, listening, waiting and what is refused: sessions stay.
LEMMA QuietMoves ==
  ASSUME Typed, NEW p \in Parties,
         \/ p \in Devices /\ OpenAsked(p)
         \/ \E code \in Codes : p \in Devices /\ CloseChecked(p, code)
         \/ \E code \in Codes : SetsOut(p, "admit_post", code) \/ SetsOut(p, "admit_read", code)
         \/ Listens(p) \/ Waits(p) \/ (p \in Devices /\ Revoked(p))
  PROVE  Moves
<1>0. /\ UNCHANGED <<sessions, opened, heard>>
      /\ \A q \in Parties : call'[q] = call[q] => Stays(q)
  BY SessionsStay DEF OpenAsked, CloseChecked, SetsOut, Listens, Waits, Revoked
<1>1. call[p] \in CallType
  BY DEF Typed
<1>2. PartyMoves(p) /\ \A q \in Parties \ {p} : call'[q] = call[q]
  <2>1. CASE p \in Devices /\ OpenAsked(p)
    <3>1. call' = [call EXCEPT ![p] = [call[p] EXCEPT !.at = "opening"]]
      BY <2>1 DEF OpenAsked, Goes
    <3>2. [call[p] EXCEPT !.at = "opening"].at = "opening"
      BY <1>1 DEF CallType
    <3> QED
      BY <1>0, <2>1, <3>1, <3>2, OthersStay DEF PartyMoves, Begs
  <2>2. CASE \E code \in Codes : p \in Devices /\ CloseChecked(p, code)
    <3>1. PICK code \in Codes : call' = [call EXCEPT ![p] = [NoCall EXCEPT !.at = "closing", !.code = code]]
      BY <2>2 DEF CloseChecked
    <3> DEFINE r == [NoCall EXCEPT !.at = "closing", !.code = code]
    <3>2. r.at = "closing" /\ r.code = code
      BY SettingOut, Constants DEF Stages
    <3> HIDE DEF r
    <3>3. call'[p] = r /\ \A q \in Parties \ {p} : call'[q] = call[q]
      BY <3>1, OthersStay DEF r
    <3> QED
      BY <1>0, <3>2, <3>3 DEF PartyMoves, Begs
  <2>3. CASE \E code \in Codes : SetsOut(p, "admit_post", code) \/ SetsOut(p, "admit_read", code)
    <3>1. PICK code \in Codes, at \in {"admit_post", "admit_read"} :
            call' = [call EXCEPT ![p] = [NoCall EXCEPT !.at = at, !.code = code]]
      BY <2>3 DEF SetsOut
    <3> DEFINE r == [NoCall EXCEPT !.at = at, !.code = code]
    <3>2. r.at = at /\ r.code = code
      BY SettingOut, Constants DEF Stages
    <3> HIDE DEF r
    <3>3. call'[p] = r /\ \A q \in Parties \ {p} : call'[q] = call[q]
      BY <3>1, OthersStay DEF r
    <3> QED
      BY <1>0, <3>2, <3>3 DEF PartyMoves, Begs
  <2>4. CASE Listens(p)
    <3>1. call' = [call EXCEPT ![p] = [call[p] EXCEPT !.at = "listening"]]
      BY <2>4 DEF Listens
    <3> QED
      BY <1>0, <2>4, <3>1, OthersStay DEF PartyMoves, BeginsToListen, Listens
  <2>5. CASE Waits(p)
    <3>1. call' = [call EXCEPT ![p] = [call[p] EXCEPT !.at = "waiting"]]
      BY <2>5 DEF Waits, Goes
    <3> QED
      BY <1>0, <2>5, <3>1, OthersStay DEF PartyMoves, FallsAsleep, Waits
  <2>6. CASE p \in Devices /\ Revoked(p)
    BY <1>0, <2>6 DEF Revoked, PartyMoves
  <2> QED
    BY <2>1, <2>2, <2>3, <2>4, <2>5, <2>6
<1> QED
  BY <1>0, <1>2, SessionsStay DEF Moves, PartyMoves

\* read: a look that finds nothing, or an answer.
LEMMA LookMoves ==
  ASSUME Typed, NEW p \in Parties, Looks(p) \/ LooksAgain(p)
  PROVE  Moves
<1>0. UNCHANGED <<sessions, opened>> /\ Alive(call[p].code)
  BY DEF Looks, LooksAgain, Answers
<1>1. CASE Answers(p)
  <2>1. call'[p] = NoCall /\ \A q \in Parties \ {p} : call'[q] = call[q]
    BY <1>1, OthersStay DEF Answers
  <2>2. CASE UNCHANGED heard
    BY <1>0, <2>1, <2>2, SessionsStay DEF Moves, PartyMoves, IsOver, Looks, LooksAgain
  <2>3. CASE heard' = [heard EXCEPT ![p].messages = @ \o News(p)]
    <3>1. /\ heard'[p] = [heard[p] EXCEPT !.messages = heard[p].messages \o News(p)]
          /\ \A q \in Parties \ {p} : heard'[q] = heard[q]
      BY <2>3 DEF Typed
    <3>2. IsTold(p)
      BY <1>0, <2>1, <3>1 DEF IsTold, Looks, LooksAgain
    <3> QED
      BY <1>0, <2>1, <3>1, <3>2, SessionsStay DEF Moves, PartyMoves
  <2> QED
    BY <1>1, <2>2, <2>3 DEF Answers
<1>2. CASE Looks(p) /\ ~Answers(p)
  <2>1. /\ call' = [call EXCEPT ![p] = [call[p] EXCEPT !.at = "looked"]]
        /\ News(p) = <<>> /\ UNCHANGED heard /\ call[p].at = "listening"
    BY <1>2 DEF Looks, Goes
  <2>2. FindsNothing(p) /\ \A q \in Parties \ {p} : call'[q] = call[q]
    BY <1>0, <2>1, OthersStay DEF FindsNothing
  <2> QED
    BY <1>0, <2>1, <2>2, SessionsStay DEF Moves, PartyMoves
<1> QED
  BY <1>1, <1>2 DEF LooksAgain

\* open and close, revocation and expiry: sessions go, or one begins.
LEMMA SessionEnds ==
  ASSUME Typed, \A p \in Parties : CallOK(p),
         \/ \E d \in Devices : OpenRefused(d) \/ Closes(d) \/ RevokeCloses(d)
         \/ \E p \in Parties : Misses(p)
         \/ \E code \in Codes : Expires(code)
  PROVE  Moves
<1>1. \A code \in Codes : Like(sessions[code], sessions'[code]) \/ sessions'[code] = NoSession
  <2>1. CASE \E d \in Devices : OpenRefused(d)
    BY <2>1 DEF OpenRefused, Retained, Like
  <2>2. CASE \E d \in Devices : RevokeCloses(d)
    BY <2>2 DEF RevokeCloses, Like
  <2>3. CASE \E c \in Codes : Expires(c)
    <3>1. PICK c \in Codes : sessions' = [sessions EXCEPT ![c].expired = TRUE]
      BY <2>3 DEF Expires
    <3>2. sessions' = [sessions EXCEPT ![c] = [sessions[c] EXCEPT !.expired = TRUE]]
      BY <3>1
    <3>3. Like(sessions[c], [sessions[c] EXCEPT !.expired = TRUE])
      BY DEF Typed, SessionType, Like
    <3> QED
      BY <3>2, <3>3, OtherSessions DEF Like
  <2>4. CASE (\E d \in Devices : Closes(d)) \/ (\E p \in Parties : Misses(p))
    <3>1. PICK c : sessions' = [sessions EXCEPT ![c] = NoSession]
      BY <2>4 DEF Closes, Misses, NotFound
    <3> QED
      BY <3>1 DEF Like, Typed
  <2> QED
    BY <2>1, <2>2, <2>3, <2>4
<1>2. ASSUME NEW q \in Parties
      PROVE  /\ heard'[q] = heard[q]
             /\ call'[q] = call[q] \/ (call'[q] = NoCall /\ (call[q].at = "opening" => OpenRefused(q)))
  BY DEF OpenRefused, Closes, RevokeCloses, Misses, NotFound, Expires, Typed
<1>3. opened' = opened
  BY DEF OpenRefused, Closes, RevokeCloses, Misses, NotFound, Expires
<1>4. \A code \in Codes : Quiet(code)
  BY <1>1, Empty DEF Quiet, Like
<1>5. \A q \in Parties : call[q].at \in {"looked", "waiting"} => Quiet(call[q].code)
  BY <1>4 DEF CallOK
<1> QED
  BY <1>1, <1>2, <1>3, <1>4, <1>5 DEF Moves, SessionMoves, PartyMoves, Stays, IsOver

\* open: a session under a code that was never used.
LEMMA OpensMoves ==
  ASSUME PairingInv, NEW d \in Devices, Opens(d)
  PROVE  Moves /\ opened' = opened + 1 /\ opened + 1 \in Codes
<1>0. Typed /\ \A p \in Parties : CallOK(p)
  BY DEF PairingInv
<1>1. /\ sessions' = [Retained EXCEPT ![opened + 1] = [NoSession EXCEPT !.opener = d]]
      /\ opened' = opened + 1 /\ call' = [call EXCEPT ![d] = NoCall] /\ UNCHANGED heard
  BY DEF Opens
<1>2. opened + 1 \in Codes
  <2>1. IsFiniteSet(Opening) /\ Opening # {}
    <3>1. Opening \in SUBSET Devices /\ d \in Opening
      BY DEF Opens, Opening
    <3> QED
      BY <3>1, FS_Subset, PairingAssumption
  <2>2. Cardinality(Opening) \in Nat /\ Cardinality(Opening) # 0
    BY <2>1, FS_CardinalityType, FS_EmptySet
  <2>3. opened \in Nat /\ MaxOpened \in Nat /\ opened + Cardinality(Opening) <= MaxOpened
    BY <1>0, Constants DEF Typed, PairingInv, CodesLeft
  <2> QED
    BY <2>2, <2>3 DEF Codes
<1>3. \A code \in Codes : \/ code = opened + 1 /\ Begins(code)
                          \/ code # opened + 1 /\ Like(sessions[code], sessions'[code])
                          \/ code # opened + 1 /\ sessions'[code] = NoSession
  <2>1. \A code \in Codes : sessions'[code] = IF code = opened + 1 THEN [NoSession EXCEPT !.opener = d]
                                              ELSE IF Alive(code) THEN sessions[code] ELSE NoSession
    BY <1>1 DEF Retained
  <2> QED
    BY <1>1, <2>1 DEF Like, Begins
<1>4. \A code \in Codes : code <= opened => Quiet(code)
  BY <1>0, <1>3, Empty, Constants DEF Quiet, Like, Typed
<1>5. \A q \in Parties : Stays(q) \/ IsOver(q)
  <2>1. d \in Parties
    BY DEF Parties
  <2>2. \A q \in Parties : q # d => Stays(q)
    BY <1>0, <1>1, <1>4, <2>1, OthersStay DEF Stays, CallOK, Inside
  <2> QED
    BY <1>0, <1>1, <2>1, <2>2, OthersStay DEF IsOver
<1> QED
  BY <1>1, <1>2, <1>3, <1>5 DEF Moves, SessionMoves, PartyMoves

\* admit: the claim is taken, or the party has no say in the session.
LEMMA AdmittedMoves ==
  ASSUME Typed, \A q \in Parties : CallOK(q), NEW p \in Parties,
         NEW at \in {"admit_post", "admit_read"}, NEW next \in {"posting", "reading"},
         Admitted(p, at, next)
  PROVE  Moves
<1> DEFINE c == call[p].code
           s == sessions[c]
<1>0. c \in Codes /\ s \in SessionType /\ s.opener # Nobody /\ UNCHANGED opened
  BY DEF Admitted, Alive, CallOK, Typed
<1>1. CASE call' = [call EXCEPT ![p] = NoCall] /\ UNCHANGED <<sessions, heard>>
  BY <1>0, <1>1, OthersStay, SessionsStay DEF Moves, PartyMoves, IsOver, Admitted
<1>2. CASE /\ MaySpeak(p, s) /\ Goes(p, next) /\ Hears(p, c)
           /\ sessions' = [sessions EXCEPT ![c].claim = IF p \in Joiners THEN p ELSE @]
  <2>1. /\ call'[p] = [call[p] EXCEPT !.at = next] /\ call[p] \in CallType
        /\ \A q \in Parties \ {p} : call'[q] = call[q]
    BY <1>2 DEF Goes, Typed
  <2>2. call'[p].at = next /\ call'[p].code = c
    BY <2>1 DEF CallType
  <2>3. /\ heard'[p] = IF heard[p].code = c THEN heard[p] ELSE [code |-> c, messages |-> <<>>]
        /\ \A q \in Parties \ {p} : heard'[q] = heard[q]
    BY <1>2 DEF Hears, Typed
  <2>4. /\ sessions'[c] = [s EXCEPT !.claim = IF p \in Joiners THEN p ELSE s.claim]
        /\ \A code \in Codes \ {c} : sessions'[code] = sessions[code]
    BY <1>0, <1>2 DEF Typed
  <2>5. /\ sessions'[c].opener = s.opener
        /\ sessions'[c].claim = IF p \in Joiners THEN p ELSE s.claim
        /\ sessions'[c].from_a = s.from_a /\ sessions'[c].from_b = s.from_b
    BY <1>0, <2>4 DEF SessionType
  <2>6. \A code \in Codes : SessionMoves(code) /\ Quiet(code)
    <3>1. \A code \in Codes \ {c} : SessionMoves(code) /\ Quiet(code)
      BY <2>4 DEF SessionMoves, Like, Quiet
    <3>2. CASE p \in Joiners
      BY <1>0, <1>2, <2>4, <2>5, <3>1, <3>2, Constants DEF SessionMoves, Claimed, Quiet, MaySpeak
    <3>3. CASE p \notin Joiners
      BY <2>5, <3>1, <3>3 DEF SessionMoves, Like, Quiet
    <3> QED
      BY <3>2, <3>3
  <2>7. IsSide(p, sessions'[c])
    BY <1>2, <2>5, Constants DEF IsSide, MaySpeak
  <2>8. Enters(p)
    BY <1>0, <2>2, <2>3, <2>7 DEF Enters, Admitted
  <2>9. \A q \in Parties \ {p} : Stays(q)
    BY <2>1, <2>3, <2>6 DEF Stays, CallOK
  <2> QED
    BY <1>0, <2>6, <2>8, <2>9 DEF Moves, PartyMoves
<1> QED
  BY <1>1, <1>2 DEF Admitted

\* post: one message more in the slot of the party's side, and who listens is
\* woken.
LEMMA PostsMoves ==
  ASSUME Typed, \A q \in Parties : CallOK(q), NEW p \in Parties, Posts(p)
  PROVE  Moves
<1> DEFINE c == call[p].code
           s == sessions[c]
<1>0. /\ c \in Codes /\ s \in SessionType /\ s.opener # Nobody /\ UNCHANGED <<opened, heard>>
      /\ call[p].at \in Inside
  BY DEF Posts, Alive, CallOK, Typed, Inside
<1>1. CASE call' = [call EXCEPT ![p] = NoCall] /\ UNCHANGED sessions
  BY <1>0, <1>1, OthersStay, SessionsStay DEF Moves, PartyMoves, IsOver, Inside
<1>2. CASE ~(call' = [call EXCEPT ![p] = NoCall] /\ UNCHANGED sessions)
  <2>1. PICK n : n = Len(IF p \in Devices THEN s.from_a ELSE s.from_b) + 1
    OBVIOUS
  <2>2. n \in Nat
    <3> DEFINE slot == IF p \in Devices THEN s.from_a ELSE s.from_b
    <3>1. slot \in Messages /\ n = Len(slot) + 1
      BY <1>0, <2>1, SessionParts
    <3> HIDE DEF slot
    <3>2. Len(slot) \in Nat
      BY <3>1, MessagesAre
    <3> QED
      BY <3>1, <3>2
  <2>3. /\ HasRoom(IF p \in Devices THEN s.from_a ELSE s.from_b)
        /\ sessions' = IF p \in Devices
                       THEN [sessions EXCEPT ![c] = [s EXCEPT !.from_a = Append(s.from_a, [by |-> p, n |-> n])]]
                       ELSE [sessions EXCEPT ![c] = [s EXCEPT !.from_b = Append(s.from_b, [by |-> p, n |-> n])]]
        /\ call' = [q \in Parties |->
                      IF q = p THEN NoCall
                      ELSE IF q \in Listening(c) THEN [call[q] EXCEPT !.woken = TRUE] ELSE call[q]]
    BY <1>0, <1>2, <2>1 DEF Posts, Typed
  <2>4. \A code \in Codes \ {c} : Like(sessions[code], sessions'[code]) /\ Quiet(code)
    BY <1>0, <2>3 DEF Like, Quiet, Typed
  <2>5. SessionMoves(c)
    <3>1. CASE p \in Devices
      <4>1. sessions'[c] = [s EXCEPT !.from_a = Append(s.from_a, [by |-> p, n |-> n])]
        BY <1>0, <2>3, <3>1 DEF Typed
      <4> QED
        BY <1>0, <2>2, <2>3, <3>1, <4>1 DEF SessionMoves, SaysA, HasRoom
    <3>2. CASE p \notin Devices
      <4>1. sessions'[c] = [s EXCEPT !.from_b = Append(s.from_b, [by |-> p, n |-> n])]
        BY <1>0, <2>3, <3>2 DEF Typed
      <4> QED
        BY <1>0, <2>2, <2>3, <3>2, <4>1, Constants DEF SessionMoves, SaysB, HasRoom
    <3> QED
      BY <3>1, <3>2
  <2>6. \A q \in Parties : PartyMoves(q)
    <3>1. \A q \in Parties : heard'[q] = heard[q]
      BY <1>0
    <3>2. \A q \in Listening(c) \ {p} : IsWoken(q)
      BY <2>3, <3>1 DEF IsWoken, Listening
    <3>3. ASSUME NEW q \in Parties \ Listening(c), q # p PROVE Stays(q)
      <4>1. call'[q] = call[q]
        BY <2>3, <3>3
      <4>2. call[q].at \in {"looked", "waiting"} => call[q].code \in Codes \ {c}
        BY <3>3 DEF Listening, CallOK
      <4> QED
        BY <2>4, <3>1, <4>1, <4>2 DEF Stays
    <3>4. IsOver(p)
      BY <1>0, <2>3, <3>1 DEF IsOver, Inside
    <3> QED
      BY <3>2, <3>3, <3>4 DEF PartyMoves
  <2> QED
    BY <1>0, <2>4, <2>5, <2>6 DEF Moves, SessionMoves
<1> QED
  BY <1>1, <1>2

\* Every step.
LEMMA StepMoves ==
  ASSUME PairingInv, [Next]_vars
  PROVE  Moves
<1>0. Typed /\ \A q \in Parties : CallOK(q)
  BY DEF PairingInv
<1>1. Devices \subseteq Parties
  BY DEF Parties
<1>2. CASE UNCHANGED vars
  BY <1>2, SessionsStay DEF Moves, PartyMoves, vars
<1>3. CASE \E d \in Devices : OpenAsked(d) \/ Revoked(d) \/ \E code \in Codes : CloseChecked(d, code)
  BY <1>0, <1>1, <1>3, QuietMoves
<1>4. CASE \E d \in Devices : OpenRefused(d) \/ Closes(d) \/ RevokeCloses(d)
  BY <1>0, <1>4, SessionEnds
<1>5. CASE \E d \in Devices : Opens(d)
  BY <1>5, OpensMoves
<1>6. CASE \E p \in Parties, code \in Codes : SetsOut(p, "admit_post", code) \/ SetsOut(p, "admit_read", code)
  BY <1>0, <1>6, QuietMoves
<1>7. CASE \E p \in Parties : Admitted(p, "admit_post", "posting") \/ Admitted(p, "admit_read", "reading")
  BY <1>0, <1>7, AdmittedMoves
<1>8. CASE \E p \in Parties : Posts(p)
  BY <1>0, <1>8, PostsMoves
<1>9. CASE \E p \in Parties : Listens(p) \/ Waits(p)
  BY <1>0, <1>9, QuietMoves
<1>10. CASE \E p \in Parties : Looks(p) \/ LooksAgain(p)
  BY <1>0, <1>10, LookMoves
<1>11. CASE \/ \E p \in Parties : Misses(p)
            \/ \E code \in Codes : Expires(code)
  BY <1>0, <1>11, SessionEnds
<1> QED
  BY <1>2, <1>3, <1>4, <1>5, <1>6, <1>7, <1>8, <1>9, <1>10, <1>11 DEF Next

----------------------------------------------------------------------------
(* What a step keeps.                                                      *)

\* A message behind a slot: one more, and the others where they were.
LEMMA Appended ==
  ASSUME NEW q \in Messages, NEW p \in Parties, NEW n \in Nat
  PROVE  LET r == Append(q, [by |-> p, n |-> n])
         IN  /\ r \in Messages /\ Len(r) = Len(q) + 1
             /\ r[Len(q) + 1].by = p
             /\ \A i \in 1..Len(q) : r[i] = q[i]
<1> DEFINE M == [by : Parties, n : Nat]
           m == [by |-> p, n |-> n]
<1>1. m \in M /\ m.by = p /\ q \in Seq(M) /\ Messages = Seq(M)
  BY DEF Messages
<1> HIDE DEF M, m
<1>2. /\ Append(q, m) \in Seq(M) /\ Len(Append(q, m)) = Len(q) + 1
      /\ Append(q, m)[Len(q) + 1] = m
      /\ \A i \in 1..Len(q) : Append(q, m)[i] = q[i]
  BY <1>1
<1> QED
  BY <1>1, <1>2 DEF m

\* What is in a slot was said by somebody.
LEMMA SpeakersAre ==
  ASSUME NEW q \in Messages, NEW i \in 1..Len(q)
  PROVE  q[i].by \in Parties
<1> DEFINE M == [by : Parties, n : Nat]
<1>1. q \in Seq(M) /\ \A m \in M : m.by \in Parties
  BY DEF Messages
<1> HIDE DEF M
<1>2. q[i] \in M
  BY <1>1
<1> QED
  BY <1>1, <1>2

\* Each session is still in order: what is added comes from the slot's side.
LEMMA SessionKept ==
  ASSUME PairingInv, Moves, NEW code \in Codes
  PROVE  SessionOK(code)'
<1> DEFINE s == sessions[code]
           t == sessions'[code]
<1>0. /\ s \in SessionType /\ SessionOK(code) /\ opened \in Nat /\ code \in Nat
      /\ opened' \in Nat /\ opened <= opened' /\ (code <= opened => code <= opened')
  BY Constants DEF PairingInv, Typed, Moves
<1>1. CASE Like(s, t)
  BY <1>0, <1>1 DEF SessionOK, Like
<1>2. CASE t = NoSession
  BY <1>2, Empty, Constants DEF SessionOK
<1>3. CASE Begins(code)
  <2>1. t.from_a = <<>> /\ t.from_b = <<>>
    BY <1>3 DEF Begins, NoSession
  <2> QED
    BY <1>0, <1>3, <2>1, Constants DEF SessionOK, Begins
<1>4. CASE Claimed(code)
  <2>1. PICK p \in Joiners : s.opener # Nobody /\ s.claim \in {Nobody, p} /\ t = [s EXCEPT !.claim = p]
    BY <1>4 DEF Claimed
  <2>2. t.opener = s.opener /\ t.claim = p /\ t.from_a = s.from_a /\ t.from_b = s.from_b
    BY <1>0, <2>1 DEF SessionType
  <2>3. ASSUME NEW i \in 1..Len(s.from_b) PROVE s.from_b[i].by = p
    <3>1. s.from_b[i].by = s.claim
      BY <1>0 DEF SessionOK
    <3>2. s.from_b[i].by \in Parties
      BY <1>0, SessionParts, SpeakersAre
    <3> QED
      BY <2>1, <3>1, <3>2, Constants
  <2> QED
    BY <1>0, <2>1, <2>2, <2>3 DEF SessionOK
<1>5. CASE SaysA(code)
  <2>1. PICK p \in Devices, n \in Nat :
          /\ call[p].at \in Inside /\ call[p].code = code /\ s.opener # Nobody
          /\ Len(s.from_a) < MAX_MESSAGES
          /\ t = [s EXCEPT !.from_a = Append(s.from_a, [by |-> p, n |-> n])]
    BY <1>5 DEF SaysA
  <2>2. s.opener = p /\ p \in Parties
    BY <2>1 DEF PairingInv, CallOK, IsSide, Parties
  <2> DEFINE r == Append(s.from_a, [by |-> p, n |-> n])
  <2>3. t.opener = s.opener /\ t.claim = s.claim /\ t.from_a = r /\ t.from_b = s.from_b
    BY <1>0, <2>1 DEF SessionType
  <2>4. PICK k \in Nat : k = Len(s.from_a)
    BY <1>0, SessionParts, MessagesAre
  <2>5. Len(r) = k + 1 /\ r[k + 1].by = p /\ \A i \in 1..k : r[i] = s.from_a[i]
    BY <1>0, <2>2, <2>4, SessionParts, Appended
  <2> HIDE DEF r
  <2>6. k + 1 <= MAX_MESSAGES /\ 1..(k + 1) = 1..k \cup {k + 1}
    BY <2>1, <2>4, Constants
  <2>7. \A i \in 1..k : s.from_a[i].by = p
    BY <1>0, <2>2, <2>4 DEF SessionOK
  <2>8. \A i \in 1..Len(r) : r[i].by = p
    BY <2>5, <2>6, <2>7
  <2> QED
    BY <1>0, <2>2, <2>3, <2>5, <2>6, <2>8 DEF SessionOK
<1>6. CASE SaysB(code)
  <2>1. PICK p \in Joiners, n \in Nat :
          /\ call[p].at \in Inside /\ call[p].code = code /\ s.opener # Nobody
          /\ Len(s.from_b) < MAX_MESSAGES
          /\ t = [s EXCEPT !.from_b = Append(s.from_b, [by |-> p, n |-> n])]
    BY <1>6 DEF SaysB
  <2>2. s.claim = p /\ p \in Parties
    BY <2>1, Constants DEF PairingInv, CallOK, IsSide, Parties
  <2> DEFINE r == Append(s.from_b, [by |-> p, n |-> n])
  <2>3. t.opener = s.opener /\ t.claim = s.claim /\ t.from_b = r /\ t.from_a = s.from_a
    BY <1>0, <2>1 DEF SessionType
  <2>4. PICK k \in Nat : k = Len(s.from_b)
    BY <1>0, SessionParts, MessagesAre
  <2>5. Len(r) = k + 1 /\ r[k + 1].by = p /\ \A i \in 1..k : r[i] = s.from_b[i]
    BY <1>0, <2>2, <2>4, SessionParts, Appended
  <2> HIDE DEF r
  <2>6. k + 1 <= MAX_MESSAGES /\ 1..(k + 1) = 1..k \cup {k + 1}
    BY <2>1, <2>4, Constants
  <2>7. \A i \in 1..k : s.from_b[i].by = p
    BY <1>0, <2>2, <2>4 DEF SessionOK
  <2>8. \A i \in 1..Len(r) : r[i].by = p
    BY <2>5, <2>6, <2>7
  <2> QED
    BY <1>0, <2>2, <2>3, <2>5, <2>6, <2>8 DEF SessionOK
<1> QED
  BY <1>1, <1>2, <1>3, <1>4, <1>5, <1>6 DEF Moves, SessionMoves

\* What it is for a sequence to be the beginning of another.
LEMMA PrefixIs ==
  ASSUME NEW h \in Messages, NEW q \in Messages
  PROVE  IsPrefix(h, q) <=> Len(h) <= Len(q) /\ \A i \in 1..Len(h) : h[i] = q[i]
<1> DEFINE M == [by : Parties, n : Nat]
<1>1. h \in Seq(M) /\ q \in Seq(M)
  BY DEF Messages
<1> HIDE DEF M
<1>2. PICK k \in Nat, l \in Nat : k = Len(h) /\ l = Len(q)
  BY <1>1
<1> SUFFICES ASSUME k <= l
             PROVE  SubSeq(h, 1, k) = SubSeq(q, 1, k) <=> \A i \in 1..k : h[i] = q[i]
  BY <1>2 DEF IsPrefix
<1>3. /\ SubSeq(h, 1, k) \in Seq(M) /\ Len(SubSeq(h, 1, k)) = k
      /\ \A i \in 1..k : SubSeq(h, 1, k)[i] = h[i]
  <2>1. \A i \in 1..k : h[i] \in M
    BY <1>1, <1>2
  <2> QED
    BY <2>1, SubSeqProperties
<1>4. /\ SubSeq(q, 1, k) \in Seq(M) /\ Len(SubSeq(q, 1, k)) = k
      /\ \A i \in 1..k : SubSeq(q, 1, k)[i] = q[i]
  <2>1. \A i \in 1..k : q[i] \in M
    BY <1>1, <1>2
  <2> QED
    BY <2>1, SubSeqProperties
<1>5. ASSUME \A i \in 1..k : h[i] = q[i] PROVE SubSeq(h, 1, k) = SubSeq(q, 1, k)
  BY <1>3, <1>4, <1>5, SeqEqual
<1> QED
  BY <1>3, <1>4, <1>5

\* Nothing is the beginning of anything, and what is a beginning stays one when
\* a message is put behind.
LEMMA PrefixGrows ==
  ASSUME NEW h \in Messages, NEW q \in Messages, NEW p \in Parties, NEW n \in Nat, IsPrefix(h, q)
  PROVE  IsPrefix(h, Append(q, [by |-> p, n |-> n]))
<1>1. PICK k \in Nat, l \in Nat : k = Len(h) /\ l = Len(q)
  BY MessagesAre
<1> DEFINE r == Append(q, [by |-> p, n |-> n])
<1>2. r \in Messages /\ Len(r) = l + 1 /\ \A i \in 1..l : r[i] = q[i]
  BY <1>1, Appended
<1> HIDE DEF r
<1>3. k <= l /\ \A i \in 1..k : h[i] = q[i]
  BY <1>1, PrefixIs
<1>4. k <= l + 1 /\ \A i \in 1..k : i \in 1..l
  BY <1>3
<1>5. IsPrefix(h, r)
  BY <1>1, <1>2, <1>3, <1>4, PrefixIs
<1> QED
  BY <1>5 DEF r

\* The beginning with the news behind it is the whole.
LEMMA NewsComplete ==
  ASSUME NEW h \in Messages, NEW q \in Messages, IsPrefix(h, q)
  PROVE  h \o SubSeq(q, Len(h) + 1, Len(q)) = q
<1> DEFINE M == [by : Parties, n : Nat]
<1>1. h \in Seq(M) /\ q \in Seq(M) /\ Messages = Seq(M)
  BY DEF Messages
<1> HIDE DEF M
<1>2. PICK k \in Nat, l \in Nat : k = Len(h) /\ l = Len(q)
  BY <1>1
<1>3. k <= l /\ \A i \in 1..k : h[i] = q[i]
  BY <1>2, PrefixIs
<1> DEFINE u == SubSeq(q, k + 1, l)
<1>4. u \in Seq(M) /\ Len(u) = l - k /\ \A i \in 1..(l - k) : u[i] = q[k + i]
  <2>1. \A i \in (k + 1)..l : q[i] \in M
    BY <1>1, <1>2
  <2>2. /\ u \in Seq(M) /\ Len(u) = IF k + 1 <= l THEN l - (k + 1) + 1 ELSE 0
        /\ \A i \in 1..(l - (k + 1) + 1) : u[i] = q[(k + 1) + i - 1]
    BY <2>1, SubSeqProperties
  <2> HIDE DEF u
  <2>3. l - (k + 1) + 1 = l - k /\ \A i \in Int : (k + 1) + i - 1 = k + i
    OBVIOUS
  <2>4. Len(u) = l - k
    BY <1>3, <2>2
  <2> QED
    BY <2>2, <2>3, <2>4
<1> HIDE DEF u
<1>5. /\ h \o u \in Seq(M) /\ Len(h \o u) = l
      /\ \A i \in 1..l : (h \o u)[i] = IF i <= k THEN h[i] ELSE u[i - k]
  <2>1. k + (l - k) = l
    OBVIOUS
  <2>2. /\ h \o u \in Seq(M) /\ Len(h \o u) = Len(h) + Len(u)
        /\ \A i \in 1..Len(h) + Len(u) : (h \o u)[i] = IF i <= Len(h) THEN h[i] ELSE u[i - Len(h)]
    BY <1>1, <1>4, ConcatProperties
  <2>3. Len(h) + Len(u) = l
    BY <1>2, <1>4, <2>1
  <2> QED
    BY <1>2, <2>2, <2>3
<1>6. ASSUME NEW i \in 1..l PROVE (h \o u)[i] = q[i]
  <2>1. CASE i <= k
    BY <1>3, <1>5, <2>1
  <2>2. CASE ~(i <= k)
    <3>1. i - k \in 1..(l - k) /\ k + (i - k) = i
      BY <2>2
    <3> QED
      BY <1>4, <1>5, <2>2, <3>1
  <2> QED
    BY <2>1, <2>2
<1>7. h \o u = q
  BY <1>1, <1>2, <1>5, <1>6, SeqEqual
<1> QED
  BY <1>2, <1>7 DEF u

\* Where there are no news, everything was heard.
LEMMA NoNews ==
  ASSUME NEW h \in Messages, NEW q \in Messages, SubSeq(q, Len(h) + 1, Len(q)) = <<>>
  PROVE  Len(q) <= Len(h)
<1> DEFINE M == [by : Parties, n : Nat]
<1>1. h \in Seq(M) /\ q \in Seq(M)
  BY DEF Messages
<1> HIDE DEF M
<1>2. PICK k \in Nat, l \in Nat : k = Len(h) /\ l = Len(q)
  BY <1>1
<1>3. Len(SubSeq(q, k + 1, l)) = IF k + 1 <= l THEN l - (k + 1) + 1 ELSE 0
  <2>1. \A i \in (k + 1)..l : q[i] \in M
    BY <1>1, <1>2
  <2> QED
    BY <2>1, SubSeqProperties
<1>4. Len(SubSeq(q, k + 1, l)) = 0
  BY <1>2
<1>5. ~(k + 1 <= l)
  BY <1>3, <1>4
<1> QED
  BY <1>2, <1>5

\* A party's session, as long as it is there, keeps its sides, and what was
\* said in it stays or, when it is not quiet, is one message more.
LEMMA SaidKept ==
  ASSUME PairingInv, Moves, NEW p \in Parties, NEW c \in Codes, c <= opened,
         sessions'[c].opener # Nobody
  PROVE  /\ sessions[c].opener # Nobody
         /\ IsSide(p, sessions[c]) => IsSide(p, sessions'[c])
         /\ Said(p, sessions[c]) \in Messages /\ Said(p, sessions'[c]) \in Messages
         /\ \/ Said(p, sessions'[c]) = Said(p, sessions[c])
            \/ \E q \in Parties, n \in Nat :
                 Said(p, sessions'[c]) = Append(Said(p, sessions[c]), [by |-> q, n |-> n])
         /\ Quiet(c) => Said(p, sessions'[c]) = Said(p, sessions[c])
<1> DEFINE s == sessions[c]
           t == sessions'[c]
<1>0. /\ s \in SessionType /\ s.from_a \in Messages /\ s.from_b \in Messages
      /\ opened \in Nat /\ c \in Nat /\ c # opened + 1
  <2>1. opened \in Nat /\ c \in Nat
    BY Constants DEF PairingInv, Typed
  <2>2. c # opened + 1
    BY <2>1
  <2> QED
    BY <2>1, <2>2, SessionParts DEF PairingInv, Typed
<1>1. CASE Like(s, t)
  BY <1>0, <1>1 DEF Like, Said, IsSide
<1>2. CASE Claimed(c)
  <2>1. PICK q \in Joiners : s.opener # Nobody /\ s.claim \in {Nobody, q} /\ t = [s EXCEPT !.claim = q]
    BY <1>2 DEF Claimed
  <2>2. t.opener = s.opener /\ t.claim = q /\ t.from_a = s.from_a /\ t.from_b = s.from_b
    BY <1>0, <2>1 DEF SessionType
  <2> QED
    BY <1>0, <2>1, <2>2, Constants DEF Said, IsSide
<1>3. CASE SaysA(c)
  <2>1. PICK q \in Devices, n \in Nat :
          s.opener # Nobody /\ t = [s EXCEPT !.from_a = Append(s.from_a, [by |-> q, n |-> n])]
    BY <1>3 DEF SaysA
  <2> DEFINE m == [by |-> q, n |-> n]
             r == Append(s.from_a, m)
  <2>2. t.opener = s.opener /\ t.claim = s.claim /\ t.from_a = r /\ t.from_b = s.from_b
    BY <1>0, <2>1 DEF SessionType
  <2>3. r \in Messages /\ q \in Parties
    BY <1>0, MessagesAre DEF Parties
  <2>4. r # s.from_a
    <3>1. Len(r) = Len(s.from_a) + 1 /\ Len(s.from_a) \in Nat
      BY <1>0, <2>3, Appended, MessagesAre
    <3> QED
      BY <3>1
  <2>5. \E q1 \in Parties, n1 \in Nat : r = Append(s.from_a, [by |-> q1, n |-> n1])
    BY <2>3
  <2> HIDE DEF m, r
  <2>6. CASE p \in Devices
    BY <1>0, <2>1, <2>2, <2>6 DEF Said, IsSide
  <2>7. CASE p \notin Devices
    BY <1>0, <2>1, <2>2, <2>3, <2>4, <2>5, <2>7 DEF Said, IsSide, Quiet
  <2> QED
    BY <2>6, <2>7
<1>4. CASE SaysB(c)
  <2>1. PICK q \in Joiners, n \in Nat :
          s.opener # Nobody /\ t = [s EXCEPT !.from_b = Append(s.from_b, [by |-> q, n |-> n])]
    BY <1>4 DEF SaysB
  <2> DEFINE m == [by |-> q, n |-> n]
             r == Append(s.from_b, m)
  <2>2. t.opener = s.opener /\ t.claim = s.claim /\ t.from_b = r /\ t.from_a = s.from_a
    BY <1>0, <2>1 DEF SessionType
  <2>3. r \in Messages /\ q \in Parties
    BY <1>0, MessagesAre DEF Parties
  <2>4. r # s.from_b
    <3>1. Len(r) = Len(s.from_b) + 1 /\ Len(s.from_b) \in Nat
      BY <1>0, <2>3, Appended, MessagesAre
    <3> QED
      BY <3>1
  <2>5. \E q1 \in Parties, n1 \in Nat : r = Append(s.from_b, [by |-> q1, n |-> n1])
    BY <2>3
  <2> HIDE DEF m, r
  <2>6. CASE p \notin Devices
    BY <1>0, <2>1, <2>2, <2>6 DEF Said, IsSide
  <2>7. CASE p \in Devices
    BY <1>0, <2>1, <2>2, <2>3, <2>4, <2>5, <2>7 DEF Said, IsSide, Quiet
  <2> QED
    BY <2>6, <2>7
<1>5. ~Begins(c) /\ t # NoSession
  BY <1>0, Empty DEF Begins
<1> QED
  BY <1>1, <1>2, <1>3, <1>4, <1>5 DEF Moves, SessionMoves

\* What a party was told is still the beginning of what was said, if it is
\* told nothing new.
LEMMA HeardKept ==
  ASSUME PairingInv, Moves, NEW p \in Parties, heard'[p] = heard[p]
  PROVE  HeardOK(p)'
<1>0. /\ HeardOK(p) /\ heard[p] \in HeardType /\ opened \in Nat /\ heard[p].code \in Nat
      /\ opened' \in Nat /\ opened <= opened' /\ heard[p].messages \in Messages
  BY Constants, HeardParts DEF PairingInv, Typed, Moves
<1>1. heard[p].code <= opened /\ heard[p].code <= opened'
  BY <1>0 DEF HeardOK
<1>2. ASSUME NEW c \in Codes, sessions'[c].opener # Nobody, heard[p].code = c
      PROVE  IsPrefix(heard[p].messages, Said(p, sessions'[c]))
  BY <1>0, <1>1, <1>2, SaidKept, PrefixGrows DEF HeardOK
<1> QED
  BY <1>0, <1>1, <1>2 DEF HeardOK

\* The call of a party that stays where it is, or is only woken, is in order.
LEMMA CallKept ==
  ASSUME PairingInv, Moves, NEW p \in Parties, Stays(p) \/ IsWoken(p)
  PROVE  CallOK(p)'
<1>0. /\ CallOK(p) /\ call[p] \in CallType /\ opened \in Nat /\ call[p].code \in Nat
      /\ opened' \in Nat /\ opened <= opened' /\ heard'[p] = heard[p]
  BY Constants, CallParts DEF PairingInv, Typed, Moves, Stays, IsWoken
<1>1. /\ call'[p].at = call[p].at /\ call'[p].code = call[p].code
      /\ call'[p].woken \/ (call'[p].woken = call[p].woken /\ Stays(p))
  BY <1>0 DEF CallType, Stays, IsWoken
<1>2. ASSUME call[p].at \in Inside
      PROVE  /\ call[p].code <= opened'
             /\ sessions'[call[p].code].opener # Nobody => IsSide(p, sessions'[call[p].code])
  BY <1>0, <1>2, SaidKept DEF CallOK, Inside
<1>3. ASSUME call[p].at \in {"looked", "waiting"}, ~call'[p].woken, sessions'[call[p].code].opener # Nobody
      PROVE  Len(Said(p, sessions'[call[p].code])) <= Len(heard[p].messages)
  <2>1. /\ Quiet(call[p].code) /\ ~call[p].woken
        /\ call[p].code \in Codes /\ call[p].code <= opened
    BY <1>0, <1>1, <1>3 DEF Stays, CallOK, Inside
  <2> QED
    BY <1>0, <1>3, <2>1, SaidKept DEF CallOK
<1> QED
  BY <1>0, <1>1, <1>2, <1>3 DEF CallOK

\* An answer tells a party the rest of what was said.
LEMMA TellsAll ==
  ASSUME PairingInv, NEW p \in Parties, call[p].at \in Inside, Alive(call[p].code)
  PROVE  /\ Said(p, sessions[call[p].code]) \in Messages
         /\ heard[p].messages \o News(p) = Said(p, sessions[call[p].code])
<1>1. PICK c \in Codes : c = call[p].code /\ heard[p].code = c /\ sessions[c].opener # Nobody
  BY DEF PairingInv, CallOK, Inside, Alive
<1>2. PICK q \in Messages : q = Said(p, sessions[c])
  BY SessionParts DEF Said, PairingInv, Typed
<1>3. heard[p].messages \in Messages /\ IsPrefix(heard[p].messages, q)
  BY <1>1, <1>2, HeardParts DEF PairingInv, Typed, HeardOK
<1> QED
  BY <1>1, <1>2, <1>3, NewsComplete DEF News

\* Every party's call is in order after a step, and what it was told.
LEMMA PartyKept ==
  ASSUME PairingInv, Moves, NEW p \in Parties
  PROVE  CallOK(p)' /\ HeardOK(p)'
<1>0. /\ CallOK(p) /\ HeardOK(p) /\ call[p] \in CallType /\ heard[p] \in HeardType
      /\ heard[p].messages \in Messages
      /\ opened \in Nat /\ opened' \in Nat /\ opened <= opened'
  BY Constants, HeardParts DEF PairingInv, Typed, Moves
<1>1. CASE Stays(p) \/ IsWoken(p)
  BY <1>1, CallKept, HeardKept DEF Stays, IsWoken
<1>2. CASE IsOver(p)
  <2>1. CallOK(p)'
    BY <1>2, Empty DEF IsOver, CallOK, Inside
  <2> QED
    BY <1>2, <2>1, HeardKept DEF IsOver
<1>3. CASE Begs(p)
  <2>1. CallOK(p)'
    BY <1>3 DEF Begs, CallOK, Inside
  <2> QED
    BY <1>3, <2>1, HeardKept DEF Begs
<1>4. CASE Enters(p)
  <2>1. PICK c \in Codes : c = call[p].code
    BY <1>0, <1>4 DEF Enters, CallOK
  <2>2. c <= opened /\ c <= opened' /\ c \in Nat
    <3>1. c <= opened /\ c \in Nat
      BY <1>4, <2>1, Constants DEF Enters, PairingInv, SessionOK
    <3> QED
      BY <1>0, <3>1
  <2>3. heard'[p].code = c
    BY <1>4, <2>1 DEF Enters
  <2>4. CallOK(p)'
    BY <1>4, <2>1, <2>2, <2>3 DEF Enters, CallOK, Inside
  <2>5. CASE heard[p].code = c
    BY <1>4, <2>1, <2>4, <2>5, HeardKept DEF Enters
  <2>6. CASE heard[p].code # c
    <3>1. heard'[p].messages = <<>> /\ <<>> \in Messages /\ Len(<<>>) = 0
      <4>1. heard'[p] = [code |-> c, messages |-> <<>>]
        BY <1>4, <2>1, <2>6 DEF Enters
      <4> QED
        BY <4>1 DEF Messages
    <3>2. ASSUME sessions'[c].opener # Nobody
          PROVE  IsPrefix(<<>>, Said(p, sessions'[c]))
      <4>1. PICK q \in Messages : q = Said(p, sessions'[c])
        BY <2>2, <3>2, SaidKept
      <4>2. IsPrefix(<<>>, q)
        BY <3>1, MessagesAre, PrefixIs
      <4> QED
        BY <4>1, <4>2
    <3>3. HeardOK(p)'
      BY <2>2, <2>3, <3>1, <3>2, Constants DEF HeardOK
    <3> QED
      BY <2>4, <3>3
  <2> QED
    BY <2>5, <2>6
<1>5. CASE BeginsToListen(p) \/ FindsNothing(p) \/ FallsAsleep(p)
  <2>0. heard'[p] = heard[p] /\ UNCHANGED sessions
    BY <1>5 DEF BeginsToListen, FindsNothing, FallsAsleep
  <2>1. /\ call[p].at \in {"reading", "listening", "looked"}
        /\ call'[p].at \in {"listening", "looked", "waiting"}
        /\ call'[p].code = call[p].code /\ call'[p].woken = call[p].woken
        /\ call[p].at = "looked" \/ News(p) = <<>> \/ call'[p].at = "listening"
    BY <1>0, <1>5 DEF CallType, BeginsToListen, FindsNothing, FallsAsleep
  <2>2. PICK c \in Codes : c = call[p].code /\ c <= opened /\ c \in Nat
    BY <1>0, <2>1, Constants DEF CallOK, Inside
  <2>3. c <= opened'
    BY <1>0, <2>2
  <2>4. ASSUME News(p) = <<>> PROVE Len(Said(p, sessions[c])) <= Len(heard[p].messages)
    <3>1. PICK q \in Messages : q = Said(p, sessions[c])
      BY SessionParts DEF Said, PairingInv, Typed
    <3>2. SubSeq(q, Len(heard[p].messages) + 1, Len(q)) = <<>>
      BY <2>2, <2>4, <3>1 DEF News
    <3> QED
      BY <1>0, <3>1, <3>2, NoNews
  <2>5. CallOK(p)'
    BY <1>0, <2>0, <2>1, <2>2, <2>3, <2>4 DEF CallOK, Inside
  <2> QED
    BY <2>0, <2>5, HeardKept
<1>6. CASE IsTold(p)
  <2>1. CallOK(p)'
    BY <1>6, Empty DEF IsTold, CallOK, Inside
  <2>2. PICK c \in Codes : /\ c = call[p].code /\ heard[p].code = c /\ c <= opened
                           /\ sessions[c].opener # Nobody
    BY <1>0, <1>6 DEF IsTold, CallOK, Inside, Alive
  <2>3. PICK q \in Messages : q = Said(p, sessions[c])
    BY SessionParts DEF Said, PairingInv, Typed
  <2>5. heard[p].messages \o News(p) = q
    BY <1>6, <2>2, <2>3, TellsAll DEF IsTold, Inside
  <2>6. heard'[p].code = c /\ heard'[p].messages = q
    BY <1>0, <1>6, <2>2, <2>5 DEF IsTold, HeardType
  <2>7. Len(q) <= MAX_MESSAGES
    BY <2>3 DEF Said, PairingInv, SessionOK
  <2>8. IsPrefix(q, q)
    BY PrefixIs, MessagesAre
  <2>9. c <= opened' /\ UNCHANGED sessions
    BY <1>0, <1>6, <2>2, Constants DEF IsTold
  <2>10. HeardOK(p)'
    BY <2>3, <2>6, <2>7, <2>8, <2>9 DEF HeardOK
  <2> QED
    BY <2>1, <2>10
<1> QED
  BY <1>1, <1>2, <1>3, <1>4, <1>5, <1>6 DEF Moves, PartyMoves

----------------------------------------------------------------------------
(* Types, codes and caps.                                                  *)

\* What a step writes into the tables is of their type.
LEMMA Written ==
  ASSUME Typed
  PROVE  /\ \A c \in Codes, s \in SessionType : [sessions EXCEPT ![c] = s] \in [Codes -> SessionType]
         /\ \A p \in Parties, r \in CallType : [call EXCEPT ![p] = r] \in [Parties -> CallType]
         /\ \A p \in Parties, h \in HeardType : [heard EXCEPT ![p] = h] \in [Parties -> HeardType]
         /\ Retained \in [Codes -> SessionType]
BY Empty DEF Typed, Retained

\* The calls of a step are of their type.
LEMMA CallTyped ==
  ASSUME PairingInv, Next
  PROVE  call' \in [Parties -> CallType]
<1>0. Typed /\ \A p \in Parties : call[p] \in CallType
  BY DEF PairingInv, Typed
<1>1. ASSUME NEW p \in Parties, NEW r \in CallType, call' = [call EXCEPT ![p] = r]
      PROVE  call' \in [Parties -> CallType]
  BY <1>0, <1>1, Written
<1>2. ASSUME NEW p \in Parties, NEW at \in Stages, call' = [call EXCEPT ![p].at = at]
      PROVE  call' \in [Parties -> CallType]
  BY <1>0, <1>1, <1>2, CallParts
<1>3. ASSUME NEW p \in Parties, call' = [call EXCEPT ![p] = NoCall]
      PROVE  call' \in [Parties -> CallType]
  BY <1>1, <1>3, Empty
<1>4. Devices \subseteq Parties
  BY DEF Parties
<1>5. CASE \E d \in Devices : OpenAsked(d) \/ OpenRefused(d) \/ Opens(d) \/ Closes(d)
  BY <1>2, <1>3, <1>4, <1>5 DEF OpenAsked, Goes, OpenRefused, Opens, Closes, Stages
<1>6. CASE \/ \E d \in Devices : Revoked(d) \/ RevokeCloses(d)
           \/ \E code \in Codes : Expires(code)
  BY <1>0, <1>6 DEF Revoked, RevokeCloses, Expires, Typed
<1>7. CASE \E d \in Devices, code \in Codes : CloseChecked(d, code)
  <2>1. PICK d \in Devices, code \in Codes :
          call' = [call EXCEPT ![d] = [NoCall EXCEPT !.at = "closing", !.code = code]]
    BY <1>7 DEF CloseChecked
  <2>2. [NoCall EXCEPT !.at = "closing", !.code = code] \in CallType
    BY SettingOut, Constants DEF Stages
  <2> QED
    BY <1>1, <1>4, <2>1, <2>2
<1>8. CASE \E p \in Parties, code \in Codes : SetsOut(p, "admit_post", code) \/ SetsOut(p, "admit_read", code)
  <2>1. PICK p \in Parties, code \in Codes, at \in {"admit_post", "admit_read"} :
          call' = [call EXCEPT ![p] = [NoCall EXCEPT !.at = at, !.code = code]]
    BY <1>8 DEF SetsOut
  <2>2. [NoCall EXCEPT !.at = at, !.code = code] \in CallType
    BY SettingOut, Constants DEF Stages
  <2> QED
    BY <1>1, <2>1, <2>2
<1>9. CASE \E p \in Parties : Admitted(p, "admit_post", "posting") \/ Admitted(p, "admit_read", "reading")
  BY <1>2, <1>3, <1>9 DEF Admitted, Goes, Stages, Inside
<1>10. CASE \E p \in Parties : Listens(p) \/ Looks(p) \/ Waits(p) \/ LooksAgain(p) \/ Misses(p)
  BY <1>2, <1>3, <1>10 DEF Listens, Looks, Answers, Waits, LooksAgain, Misses, NotFound, Goes, Stages,
     Inside
<1>11. CASE \E p \in Parties : Posts(p)
  <2>1. PICK p \in Parties : Posts(p)
    BY <1>11
  <2>2. CASE call' = [call EXCEPT ![p] = NoCall]
    BY <1>3, <2>2
  <2>3. CASE call' = [q \in Parties |->
                        IF q = p THEN NoCall
                        ELSE IF q \in Listening(call[p].code)
                             THEN [call[q] EXCEPT !.woken = TRUE] ELSE call[q]]
    <3>1. \A q \in Parties : [call[q] EXCEPT !.woken = TRUE] \in CallType
      BY <1>0, CallParts
    <3> QED
      BY <1>0, <2>3, <3>1, Empty
  <2> QED
    BY <2>1, <2>2, <2>3 DEF Posts
<1> QED
  BY <1>5, <1>6, <1>7, <1>8, <1>9, <1>10, <1>11 DEF Next

\* What parties were told is of its type.
LEMMA HeardTyped ==
  ASSUME PairingInv, Moves, \/ UNCHANGED heard
                            \/ \E p \in Parties : \E h : heard' = [heard EXCEPT ![p] = h]
  PROVE  heard' \in [Parties -> HeardType]
<1>0. Typed
  BY DEF PairingInv
<1>1. ASSUME NEW q \in Parties PROVE heard'[q] \in HeardType
  <2>1. heard[q] \in HeardType
    BY <1>0 DEF Typed
  <2>2. CASE heard'[q] = heard[q]
    BY <2>1, <2>2
  <2>3. CASE Enters(q)
    <3>1. call[q].code \in Numbers
      BY <1>0, CallParts DEF Typed
    <3> QED
      BY <2>1, <2>3, <3>1, Empty DEF Enters
  <2>4. CASE IsTold(q)
    <3>1. heard[q].messages \o News(q) \in Messages
      BY <2>4, TellsAll DEF IsTold, Inside
    <3> QED
      BY <2>1, <2>4, <3>1, HeardParts DEF IsTold
  <2> QED
    BY <2>2, <2>3, <2>4 DEF Moves, PartyMoves, Stays, IsWoken, IsOver, Begs, BeginsToListen,
       FindsNothing, FallsAsleep
<1>2. heard' = [q \in Parties |-> heard'[q]]
  BY <1>0 DEF Typed
<1> QED
  BY <1>1, <1>2

\* The sessions of a step are of their type.
LEMMA SessionsTyped ==
  ASSUME PairingInv, Next
  PROVE  sessions' \in [Codes -> SessionType]
<1>0. Typed /\ \A c \in Codes : sessions[c] \in SessionType
  BY DEF PairingInv, Typed
<1>1. ASSUME NEW c \in Codes, NEW s \in SessionType, sessions' = [sessions EXCEPT ![c] = s]
      PROVE  sessions' \in [Codes -> SessionType]
  BY <1>0, <1>1, Written
<1>2. \A p \in Parties : call[p].at \notin {"idle", "opening"} => call[p].code \in Codes
  BY DEF PairingInv, CallOK
<1>3. Devices \subseteq Parties
  BY DEF Parties
<1>4. CASE UNCHANGED sessions
  BY <1>0, <1>4 DEF Typed
<1>5. CASE \E d \in Devices : OpenRefused(d)
  BY <1>0, <1>5, Written DEF OpenRefused
<1>6. CASE \E d \in Devices : Opens(d)
  <2>1. PICK d \in Devices : sessions' = [Retained EXCEPT ![opened + 1] = [NoSession EXCEPT !.opener = d]]
    BY <1>6 DEF Opens
  <2>2. [NoSession EXCEPT !.opener = d] \in SessionType
    BY Empty, SessionParts DEF Openers
  <2>3. Retained \in [Codes -> SessionType]
    BY <1>0, Written
  <2> QED
    BY <2>1, <2>2, <2>3
<1>7. CASE \E d \in Devices : RevokeCloses(d)
  BY <1>0, <1>7, Empty DEF RevokeCloses
<1>8. CASE \/ \E d \in Devices : Closes(d)
           \/ \E p \in Parties : Misses(p)
  <2>1. PICK c \in Codes : sessions' = [sessions EXCEPT ![c] = NoSession]
    BY <1>2, <1>3, <1>8 DEF Closes, Misses, NotFound
  <2> QED
    BY <1>1, <2>1, Empty
<1>9. CASE \E c \in Codes : Expires(c)
  BY <1>0, <1>1, <1>9, SessionParts DEF Expires
<1>10. CASE \E p \in Parties : Admitted(p, "admit_post", "posting") \/ Admitted(p, "admit_read", "reading")
  <2>1. PICK p \in Parties :
          \/ UNCHANGED sessions
          \/ /\ call[p].code \in Codes
             /\ sessions' = [sessions EXCEPT ![call[p].code].claim = IF p \in Joiners THEN p ELSE @]
    BY <1>2, <1>10 DEF Admitted
  <2>2. CASE /\ call[p].code \in Codes
             /\ sessions' = [sessions EXCEPT ![call[p].code].claim = IF p \in Joiners THEN p ELSE @]
    <3> DEFINE c == call[p].code
               q == IF p \in Joiners THEN p ELSE sessions[c].claim
    <3>1. c \in Codes /\ sessions' = [sessions EXCEPT ![c] = [sessions[c] EXCEPT !.claim = q]]
      BY <2>2
    <3>2. q \in Claims
      BY <1>0, <3>1, SessionParts DEF Claims
    <3> HIDE DEF c, q
    <3> QED
      BY <1>0, <1>1, <3>1, <3>2, SessionParts
  <2> QED
    BY <1>4, <2>1, <2>2
<1>11. CASE \E p \in Parties : Posts(p)
  <2>1. PICK p \in Parties : Posts(p)
    BY <1>11
  <2> DEFINE c == call[p].code
             s == sessions[c]
             slot == IF p \in Devices THEN s.from_a ELSE s.from_b
             said == Append(slot, [by |-> p, n |-> Len(slot) + 1])
  <2>2. c \in Codes /\ s \in SessionType
    BY <1>0, <1>2, <2>1 DEF Posts
  <2>3. \/ UNCHANGED sessions
        \/ sessions' = [sessions EXCEPT ![c] = [s EXCEPT !.from_a = said]]
        \/ sessions' = [sessions EXCEPT ![c] = [s EXCEPT !.from_b = said]]
    BY <2>1 DEF Posts
  <2>4. said \in Messages
    <3>1. slot \in Messages
      BY <2>2, SessionParts
    <3> HIDE DEF slot
    <3> QED
      BY <3>1, MessagesAre
  <2> HIDE DEF said
  <2> QED
    BY <1>1, <1>4, <2>2, <2>3, <2>4, SessionParts
<1> QED
  <2>1. \/ \E d \in Devices : OpenRefused(d) \/ Opens(d) \/ Closes(d) \/ RevokeCloses(d)
        \/ \E p \in Parties : \/ Admitted(p, "admit_post", "posting") \/ Admitted(p, "admit_read", "reading")
                              \/ Posts(p) \/ Misses(p)
        \/ \E c \in Codes : Expires(c)
        \/ UNCHANGED sessions
    BY DEF Next, OpenAsked, Revoked, CloseChecked, SetsOut, Listens, Looks, Answers, Waits, LooksAgain
  <2> QED
    BY <1>4, <1>5, <1>6, <1>7, <1>8, <1>9, <1>10, <1>11, <2>1

\* A session that begins is the only step that hands out a code.
LEMMA OnlyOpens ==
  ASSUME Next
  PROVE  \/ UNCHANGED opened
         \/ \E d \in Devices : Opens(d)
BY DEF Next, OpenAsked, OpenRefused, Closes, Revoked, RevokeCloses, CloseChecked, SetsOut, Admitted, Posts,
   Listens, Looks, Answers, Waits, LooksAgain, Misses, NotFound, Expires

\* Every variable has its type after a step.
LEMMA TypesKept ==
  ASSUME PairingInv, [Next]_vars
  PROVE  Typed'
<1>1. CASE UNCHANGED vars
  BY <1>1 DEF PairingInv, Typed, vars
<1>2. CASE Next
  <2>1. opened' \in Numbers
    <3>1. CASE UNCHANGED opened
      BY <3>1 DEF PairingInv, Typed
    <3>2. CASE \E d \in Devices : Opens(d)
      BY <3>2, OpensMoves, Constants
    <3> QED
      BY <1>2, <3>1, <3>2, OnlyOpens
  <2>2. standing' \in [Devices -> {"in", "marked", "out"}]
    BY <1>2 DEF Next, OpenAsked, OpenRefused, Opens, Closes, Revoked, RevokeCloses, CloseChecked, SetsOut,
       Admitted, Posts, Listens, Looks, Answers, Waits, LooksAgain, Misses, NotFound, Expires, PairingInv, Typed
  <2>3. heard' \in [Parties -> HeardType]
    <3>1. \/ UNCHANGED heard
          \/ \E p \in Parties : \E h : heard' = [heard EXCEPT ![p] = h]
      BY <1>2 DEF Next, OpenAsked, OpenRefused, Opens, Closes, Revoked, RevokeCloses, CloseChecked, SetsOut,
         Admitted, Hears, Posts, Listens, Looks, Answers, Waits, LooksAgain, Misses, NotFound, Expires
    <3> QED
      BY <3>1, StepMoves, HeardTyped
  <2> QED
    BY <1>2, <2>1, <2>2, <2>3, CallTyped, SessionsTyped DEF Typed
<1> QED
  BY <1>1, <1>2

\* Sessions there are have codes, finitely many.
LEMMA OpenFinite ==
  /\ IsFiniteSet(Codes)
  /\ \A kept : Open(kept) \subseteq Codes /\ IsFiniteSet(Open(kept))
  /\ \A kept, account : OpenOf(kept, account) \subseteq Open(kept) /\ IsFiniteSet(OpenOf(kept, account))
<1>1. IsFiniteSet(Codes)
  BY FS_Interval, Constants DEF Codes
<1>2. \A kept : Open(kept) \subseteq Codes
  BY DEF Open
<1>3. \A kept, account : OpenOf(kept, account) \subseteq Codes /\ OpenOf(kept, account) \subseteq Open(kept)
  BY <1>2 DEF OpenOf
<1> QED
  BY <1>1, <1>2, <1>3, FS_Subset

\* With one element more a set has at most one more.
LEMMA OneMore ==
  ASSUME NEW S, NEW T, NEW x, IsFiniteSet(T), S \subseteq T \cup {x}
  PROVE  IsFiniteSet(S) /\ Cardinality(S) \in Nat /\ Cardinality(T) \in Nat
         /\ Cardinality(S) <= Cardinality(T) + 1
<1>1. IsFiniteSet(T \cup {x}) /\ Cardinality(T \cup {x}) <= Cardinality(T) + 1
  <2>1. /\ IsFiniteSet(T \cup {x})
        /\ Cardinality(T \cup {x}) = IF x \in T THEN Cardinality(T) ELSE Cardinality(T) + 1
    BY FS_AddElement
  <2>2. Cardinality(T) \in Nat
    BY FS_CardinalityType
  <2> QED
    BY <2>1, <2>2
<1>2. IsFiniteSet(S) /\ Cardinality(S) <= Cardinality(T \cup {x})
  BY <1>1, FS_Subset
<1>3. Cardinality(S) \in Nat /\ Cardinality(T) \in Nat /\ Cardinality(T \cup {x}) \in Nat
  BY <1>1, <1>2, FS_CardinalityType
<1> QED
  BY <1>1, <1>2, <1>3

\* Neither the server nor an account holds more sessions than it may.
LEMMA CapsKept ==
  ASSUME PairingInv, [Next]_vars
  PROVE  Capped'
<1>1. CASE opened' = opened
  <2>1. \A c \in Codes : sessions'[c].opener # Nobody =>
          sessions[c].opener = sessions'[c].opener
    <3>0. Moves /\ opened \in Nat /\ opened' # opened + 1
      BY <1>1, StepMoves, Constants DEF PairingInv, Typed
    <3> SUFFICES ASSUME NEW c \in Codes, sessions'[c].opener # Nobody
                 PROVE  sessions[c].opener = sessions'[c].opener
      OBVIOUS
    <3>1. sessions[c] \in SessionType /\ ~Begins(c) /\ SessionMoves(c) /\ sessions'[c] # NoSession
      BY <3>0, Empty DEF PairingInv, Typed, Begins, Moves
    <3>2. CASE Like(sessions[c], sessions'[c])
      BY <3>2 DEF Like
    <3>3. CASE Claimed(c) \/ SaysA(c) \/ SaysB(c)
      BY <3>1, <3>3 DEF Claimed, SaysA, SaysB, SessionType
    <3> QED
      BY <3>1, <3>2, <3>3 DEF SessionMoves
  <2>2. Open(sessions') \subseteq Open(sessions)
    BY <2>1 DEF Open
  <2>3. \A account : OpenOf(sessions', account) \subseteq OpenOf(sessions, account)
    BY <2>1, <2>2 DEF OpenOf, Open
  <2>4. Cardinality(Open(sessions')) <= Cardinality(Open(sessions))
    BY <2>2, OpenFinite, FS_Subset
  <2>5. \A account : Cardinality(OpenOf(sessions', account)) <= Cardinality(OpenOf(sessions, account))
    BY <2>3, OpenFinite, FS_Subset
  <2>6. /\ Cardinality(Open(sessions)) \in Nat /\ Cardinality(Open(sessions')) \in Nat
        /\ \A account : /\ Cardinality(OpenOf(sessions, account)) \in Nat
                        /\ Cardinality(OpenOf(sessions', account)) \in Nat
    BY OpenFinite, FS_CardinalityType
  <2>7. ASSUME NEW k \in Nat, NEW l \in Nat, NEW m \in Nat, k <= l, l <= m PROVE k <= m
    BY <2>7
  <2>8. Cardinality(Open(sessions')) <= OPEN_AT_MOST
    BY <2>4, <2>6, <2>7, Constants DEF PairingInv, Capped
  <2>9. \A account \in Accounts : Cardinality(OpenOf(sessions', account)) <= OPEN_PER_ACCOUNT
    BY <2>5, <2>6, <2>7, Constants DEF PairingInv, Capped
  <2> QED
    BY <2>8, <2>9 DEF Capped
<1>2. ASSUME NEW d \in Devices, Opens(d) PROVE Capped'
  <2>0. sessions' = [Retained EXCEPT ![opened + 1] = [NoSession EXCEPT !.opener = d]]
        /\ ~Full(Retained, AccountOf[d])
    BY <1>2 DEF Opens
  <2>1. \A c \in Codes : sessions'[c] = IF c = opened + 1 THEN [NoSession EXCEPT !.opener = d]
                                        ELSE Retained[c]
    BY <2>0 DEF Retained
  <2>2. [NoSession EXCEPT !.opener = d].opener = d
    BY DEF NoSession
  <2>3. Open(sessions') \subseteq Open(Retained) \cup {opened + 1}
    BY <2>1 DEF Open
  <2>4. OpenOf(sessions', AccountOf[d]) \subseteq OpenOf(Retained, AccountOf[d]) \cup {opened + 1}
    BY <2>1, <2>3 DEF OpenOf, Open
  <2>5. ASSUME NEW account, account # AccountOf[d]
        PROVE  OpenOf(sessions', account) \subseteq OpenOf(sessions, account)
    <3>1. \A c \in Codes : Retained[c] = IF Alive(c) THEN sessions[c] ELSE NoSession
      BY DEF Retained
    <3> QED
      BY <2>1, <2>2, <2>5, <3>1, Empty DEF OpenOf, Open
  <2>6. Cardinality(Open(sessions')) <= OPEN_AT_MOST
    <3>1. ~(Cardinality(Open(Retained)) >= OPEN_AT_MOST)
      BY <2>0 DEF Full
    <3>2. /\ Cardinality(Open(sessions')) <= Cardinality(Open(Retained)) + 1
          /\ Cardinality(Open(sessions')) \in Nat /\ Cardinality(Open(Retained)) \in Nat
      BY <2>3, OneMore, OpenFinite
    <3> QED
      BY <3>1, <3>2, Constants
  <2>7. Cardinality(OpenOf(sessions', AccountOf[d])) <= OPEN_PER_ACCOUNT
    <3>1. ~(Cardinality(OpenOf(Retained, AccountOf[d])) >= OPEN_PER_ACCOUNT)
      BY <2>0 DEF Full
    <3>2. /\ Cardinality(OpenOf(sessions', AccountOf[d])) <= Cardinality(OpenOf(Retained, AccountOf[d])) + 1
          /\ Cardinality(OpenOf(sessions', AccountOf[d])) \in Nat
          /\ Cardinality(OpenOf(Retained, AccountOf[d])) \in Nat
      BY <2>4, OneMore, OpenFinite
    <3> QED
      BY <3>1, <3>2, Constants
  <2>8. ASSUME NEW account \in Accounts, account # AccountOf[d]
        PROVE  Cardinality(OpenOf(sessions', account)) <= OPEN_PER_ACCOUNT
    <3>1. Cardinality(OpenOf(sessions', account)) <= Cardinality(OpenOf(sessions, account))
      BY <2>5, <2>8, OpenFinite, FS_Subset
    <3>2. Cardinality(OpenOf(sessions', account)) \in Nat /\ Cardinality(OpenOf(sessions, account)) \in Nat
      BY OpenFinite, FS_CardinalityType
    <3>3. Cardinality(OpenOf(sessions, account)) <= OPEN_PER_ACCOUNT
      BY DEF PairingInv, Capped
    <3> QED
      BY <3>1, <3>2, <3>3, Constants
  <2> QED
    BY <2>6, <2>7, <2>8 DEF Capped
<1> QED
  BY <1>1, <1>2, OnlyOpens DEF vars

\* A device that is about to open a session has a code kept for it.
LEMMA CodesKept ==
  ASSUME PairingInv, [Next]_vars
  PROVE  CodesLeft'
<1>0. /\ Moves /\ opened \in Nat /\ MaxOpened \in Nat
      /\ opened + Cardinality(Opening) <= MaxOpened
      /\ Opening \subseteq Devices /\ Opening' \subseteq Devices
      /\ IsFiniteSet(Opening) /\ IsFiniteSet(Opening')
      /\ Cardinality(Opening) \in Nat /\ Cardinality(Opening') \in Nat
  <2>1. Opening \subseteq Devices /\ Opening' \subseteq Devices
    BY DEF Opening
  <2>2. IsFiniteSet(Opening) /\ IsFiniteSet(Opening')
    BY <2>1, FS_Subset, PairingAssumption
  <2>3. Cardinality(Opening) \in Nat /\ Cardinality(Opening') \in Nat
    BY <2>2, FS_CardinalityType
  <2> QED
    BY <2>1, <2>2, <2>3, StepMoves, Constants DEF PairingInv, CodesLeft, Typed
<1>1. ASSUME NEW d \in Devices, OpenAsked(d) PROVE CodesLeft'
  <2>1. opened' = opened /\ opened + Cardinality(Opening) < MaxOpened
    BY <1>1 DEF OpenAsked, Opening
  <2>2. Opening' \subseteq Opening \cup {d}
    <3>1. \A q \in Parties \ {d} : call'[q] = call[q]
      BY <1>1 DEF OpenAsked, Goes, PairingInv, Typed
    <3> QED
      BY <3>1 DEF Opening, Parties
  <2>3. Cardinality(Opening') <= Cardinality(Opening) + 1
    BY <1>0, <2>2, OneMore
  <2>4. opened + Cardinality(Opening') <= MaxOpened
    BY <1>0, <2>1, <2>3
  <2> QED
    BY <2>1, <2>4 DEF CodesLeft
<1>2. ASSUME \A d \in Devices : ~OpenAsked(d) PROVE Opening' \subseteq Opening
  <2>1. \A q \in Parties : call'[q].at = "opening" => call[q].at = "opening"
    <3> SUFFICES ASSUME NEW q \in Parties, call'[q].at = "opening" PROVE call[q].at = "opening"
      OBVIOUS
    <3>1. call[q] \in CallType /\ PartyMoves(q) /\ call'[q] # NoCall
      BY <1>0, Empty DEF PairingInv, Typed, Moves
    <3> QED
      BY <1>2, <3>1 DEF PartyMoves, Stays, IsWoken, IsOver, Begs, Enters, BeginsToListen, FindsNothing,
         FallsAsleep, IsTold, CallType
  <2> QED
    BY <2>1 DEF Opening, Parties
<1>3. ASSUME \A d \in Devices : ~OpenAsked(d), opened' = opened PROVE CodesLeft'
  <2>1. Cardinality(Opening') <= Cardinality(Opening)
    BY <1>0, <1>2, <1>3, FS_Subset
  <2>2. opened + Cardinality(Opening') <= MaxOpened
    BY <1>0, <2>1
  <2> QED
    BY <1>3, <2>2 DEF CodesLeft
<1>4. ASSUME NEW d \in Devices, Opens(d) PROVE CodesLeft'
  <2>1. opened' = opened + 1 /\ call' = [call EXCEPT ![d] = NoCall] /\ call[d].at = "opening"
    BY <1>4 DEF Opens
  <2>2. d \in Opening /\ Opening' \subseteq Opening \ {d}
    <3>1. call'[d] = NoCall /\ \A q \in Parties \ {d} : call'[q] = call[q]
      BY <2>1, OthersStay DEF PairingInv, Parties
    <3> QED
      BY <2>1, <3>1, Empty DEF Opening, Parties
  <2>3. /\ IsFiniteSet(Opening \ {d}) /\ Cardinality(Opening \ {d}) = Cardinality(Opening) - 1
        /\ Cardinality(Opening') <= Cardinality(Opening \ {d})
    BY <1>0, <2>2, FS_RemoveElement, FS_Subset
  <2>4. (opened + 1) + Cardinality(Opening') <= MaxOpened
    BY <1>0, <2>3
  <2> QED
    BY <2>1, <2>4 DEF CodesLeft
<1>5. CASE \E d \in Devices : OpenAsked(d)
  BY <1>1, <1>5
<1>6. CASE \E d \in Devices : Opens(d)
  BY <1>4, <1>6
<1>7. CASE (\A d \in Devices : ~OpenAsked(d)) /\ \A d \in Devices : ~Opens(d)
  BY <1>3, <1>7, OnlyOpens DEF vars
<1> QED
  BY <1>5, <1>6, <1>7

----------------------------------------------------------------------------
(* The theorems.                                                           *)

\* At first nothing is open, asked or heard.
LEMMA InitPairing == Init => PairingInv
<1> SUFFICES ASSUME Init PROVE PairingInv
  OBVIOUS
<1>1. Typed
  BY Constants, Empty DEF Init, Typed
<1>2. /\ \A c \in Codes : sessions[c] = NoSession
      /\ \A p \in Parties : call[p] = NoCall /\ heard[p] = [code |-> 0, messages |-> <<>>]
      /\ opened = 0
  BY DEF Init
<1>3. Opening = {} /\ Cardinality({}) = 0
  BY <1>2, Empty, FS_EmptySet DEF Opening, Parties
<1>4. Open(sessions) = {} /\ \A account : OpenOf(sessions, account) = {}
  BY <1>2, Empty DEF Open, OpenOf
<1>5. CodesLeft /\ Capped
  <2>1. 0 + 0 <= MaxOpened /\ 0 <= OPEN_AT_MOST /\ 0 <= OPEN_PER_ACCOUNT
    BY Constants
  <2> QED
    BY <1>2, <1>3, <1>4, <2>1 DEF CodesLeft, Capped
<1>6. \A c \in Codes : SessionOK(c)
  BY <1>2, Empty, Constants DEF SessionOK
<1>7. \A p \in Parties : CallOK(p) /\ HeardOK(p)
  <2>1. \A p \in Parties : CallOK(p)
    BY <1>2, Empty DEF CallOK, Inside
  <2>2. \A c \in Codes : c # 0
    BY DEF Codes
  <2>3. \A p \in Parties : HeardOK(p)
    BY <1>2, <2>2, Constants DEF HeardOK
  <2> QED
    BY <2>1, <2>3
<1> QED
  BY <1>1, <1>5, <1>6, <1>7 DEF PairingInv

\* Every step keeps the invariant.
LEMMA PairingStep == PairingInv /\ [Next]_vars => PairingInv'
<1> SUFFICES ASSUME PairingInv, [Next]_vars PROVE PairingInv'
  OBVIOUS
<1>1. Typed' /\ CodesLeft' /\ Capped'
  BY TypesKept, CodesKept, CapsKept
<1>2. \A c \in Codes : SessionOK(c)'
  BY StepMoves, SessionKept
<1>3. \A p \in Parties : CallOK(p)' /\ HeardOK(p)'
  BY StepMoves, PartyKept
<1> QED
  BY <1>1, <1>2, <1>3 DEF PairingInv

\* The invariant holds always.
LEMMA PairingAlways == Spec => []PairingInv
BY InitPairing, PairingStep, PTL DEF Spec

\* Side a of a session says what the opener says, side b what the holder of the
\* claim says, for any number of parties that race for either (admit, post).
THEOREM OnlyTheirSideCorrect == Spec => []OnlyTheirSide
<1>1. PairingInv => OnlyTheirSide
  <2> SUFFICES ASSUME PairingInv, NEW c \in Codes
               PROVE  /\ \A i \in DOMAIN sessions[c].from_a : sessions[c].from_a[i].by = sessions[c].opener
                      /\ \A i \in DOMAIN sessions[c].from_b : sessions[c].from_b[i].by = sessions[c].claim
    BY DEF OnlyTheirSide, Open
  <2>1. sessions[c].from_a \in Messages /\ sessions[c].from_b \in Messages
    BY SessionParts DEF PairingInv, Typed
  <2>2. DOMAIN sessions[c].from_a = 1..Len(sessions[c].from_a)
        /\ DOMAIN sessions[c].from_b = 1..Len(sessions[c].from_b)
    BY <2>1 DEF Messages
  <2> QED
    BY <2>2 DEF PairingInv, SessionOK
<1> QED
  BY <1>1, PairingAlways, PTL

\* What a party was told in a session is the beginning of what the other side
\* said there, whatever answers were lost (read).
THEOREM InOrderCorrect == Spec => []InOrderOnce
<1>1. PairingInv => InOrderOnce
  BY DEF PairingInv, HeardOK, InOrderOnce, Open
<1> QED
  BY <1>1, PairingAlways, PTL

\* A party that sleeps and was not woken has heard everything: no message falls
\* between the look and the wait (the waiter enabled before the look).
THEOREM NoLostWakeupCorrect == Spec => []NoLostWakeup
<1>1. PairingInv => NoLostWakeup
  BY DEF PairingInv, CallOK, NoLostWakeup, Open
<1> QED
  BY <1>1, PairingAlways, PTL

\* Every variable has its type, and neither an account nor the server holds more
\* sessions than it may, nor a session more messages (open, post).
THEOREM CapsCorrect == Spec => []SessionsCapped
<1>1. PairingInv => SessionsCapped
  <2> SUFFICES ASSUME PairingInv PROVE SessionsCapped
    OBVIOUS
  <2>1. \A c \in Codes :
          /\ sessions[c].opener \in Devices \cup {Nobody}
          /\ sessions[c].claim \in Joiners \cup {Nobody} /\ sessions[c].expired \in BOOLEAN
          /\ Len(sessions[c].from_a) <= MAX_MESSAGES /\ Len(sessions[c].from_b) <= MAX_MESSAGES
    BY SessionParts DEF PairingInv, Typed, SessionOK, Openers, Claims
  <2>2. opened \in 0..MaxOpened /\ standing \in [Devices -> {"in", "marked", "out"}]
    BY DEF PairingInv, Typed, Numbers
  <2>3. \A p \in Parties :
          /\ call[p].code \in 0..MaxOpened /\ call[p].woken \in BOOLEAN
          /\ heard[p].code \in 0..MaxOpened /\ Len(heard[p].messages) <= MAX_MESSAGES
    BY CallParts, HeardParts DEF PairingInv, Typed, HeardOK, Numbers
  <2>4. TypeOK
    BY <2>1, <2>2, <2>3 DEF TypeOK
  <2> QED
    BY <2>4 DEF PairingInv, Capped, SessionsCapped
<1> QED
  BY <1>1, PairingAlways, PTL

\* An account is refused a session only for sessions that are still good, its
\* own or everybody's (the retain at the start of open).
THEOREM NotLockedOutCorrect == Spec => NotLockedOut
<1> DEFINE Good == {code \in Codes : Alive(code)}
           GoodOf(d) == {code \in Codes : Alive(code)
                           /\ AccountOf[sessions[code].opener] = AccountOf[d]}
           Fair == \A d \in Devices :
             call[d].at = "opening" /\ call'[d].at = "idle" /\ opened' = opened =>
               \/ Cardinality(Good) >= OPEN_AT_MOST
               \/ Cardinality(GoodOf(d)) >= OPEN_PER_ACCOUNT
<1>1. PairingInv /\ Next => Fair
  <2> SUFFICES ASSUME PairingInv, Next, NEW d \in Devices, call[d].at = "opening",
                      call'[d].at = "idle", opened' = opened
               PROVE  Cardinality(Good) >= OPEN_AT_MOST \/ Cardinality(GoodOf(d)) >= OPEN_PER_ACCOUNT
    OBVIOUS
  <2>0. Typed /\ d \in Parties /\ opened \in Nat /\ opened' # opened + 1
    BY Constants DEF PairingInv, Typed, Parties
  <2>1. OpenRefused(d)
    <3>1. PartyMoves(d) /\ call[d] \in CallType
      BY <2>0, StepMoves DEF Moves, Typed
    <3> QED
      BY <2>0, <3>1 DEF PartyMoves, Stays, IsWoken, IsOver, Begs, Enters, BeginsToListen, FindsNothing,
         FallsAsleep, IsTold, CallType
  <2>2. \A c \in Codes : Retained[c] = IF Alive(c) THEN sessions[c] ELSE NoSession
    BY DEF Retained
  <2>3. Open(Retained) = Good /\ OpenOf(Retained, AccountOf[d]) = GoodOf(d)
    BY <2>2, Empty DEF Open, OpenOf, Alive
  <2> HIDE DEF Good, GoodOf
  <2> QED
    BY <2>1, <2>3 DEF OpenRefused, Full
<1>2. PairingInv /\ [Next]_vars => [Fair]_vars
  BY <1>1
<1>3. [][Fair]_vars => NotLockedOut
  BY DEF NotLockedOut
<1> HIDE DEF Fair
<1> QED
  BY <1>2, <1>3, PairingAlways, PTL DEF Spec

=============================================================================
