------------------------------ MODULE Pairing ------------------------------
(***************************************************************************)
(* The relay two devices pair through (pairing.rs) and its handlers        *)
(* (api/pairing.rs).                                                       *)
(*                                                                         *)
(* The sessions are behind one mutex, and a handler takes it several times *)
(* over: to be admitted, to find what to wait on, to look, to put a        *)
(* message in.  Each is a step, and the session may be over by the next.   *)
(*                                                                         *)
(* Codes are random; they are numbers handed out upwards here, so none     *)
(* names a second session after its first is over.                         *)
(*                                                                         *)
(* Side a is the device that opened a session, side b whoever holds its    *)
(* claim.  Each of them has one request at a time.                         *)
(***************************************************************************)
EXTENDS Integers, Sequences, FiniteSets, SequencesExt

CONSTANTS
  Devices,          \* devices that are in and may open sessions
  Joiners,          \* devices that join: the claims they hold side b with
  Nobody,
  Accounts,
  AccountOf,        \* whose each device is
  OPEN_PER_ACCOUNT, OPEN_AT_MOST, MAX_MESSAGES,
  Disturbances,     \* what else happens: "expiry", "close", "revoke", "loss"
  MaxOpened         \* bound: sessions ever opened

ASSUME PairingAssumption ==
  /\ IsFiniteSet(Devices) /\ IsFiniteSet(Joiners) /\ Devices \cap Joiners = {}
  /\ Nobody \notin Devices \cup Joiners
  /\ AccountOf \in [Devices -> Accounts]
  /\ OPEN_PER_ACCOUNT \in Nat \ {0} /\ OPEN_AT_MOST \in Nat \ {0} /\ MAX_MESSAGES \in Nat \ {0}
  /\ MaxOpened \in Nat

VARIABLES
  sessions,   \* what is open under each code
  opened,     \* how many were ever opened
  standing,   \* whether a device is in, marked as standing, or out for good
  call,       \* each party's request
  heard       \* external: what each party was told, and in which session

vars == <<sessions, opened, standing, call, heard>>

----------------------------------------------------------------------------

Parties == Devices \cup Joiners
Codes == 1..MaxOpened

NoSession == [opener |-> Nobody, claim |-> Nobody,
              from_a |-> <<>>, from_b |-> <<>>, expired |-> FALSE]

NoCall == [at |-> "idle", code |-> 0, woken |-> FALSE]

Alive(code) == sessions[code].opener # Nobody /\ ~sessions[code].expired

\* What the other side has said.
Said(p, session) == IF p \in Devices THEN session.from_b ELSE session.from_a

Goes(p, at) == call' = [call EXCEPT ![p].at = at]

\* live(): an expired session answers like none, and is removed on the way.
NotFound(p) ==
  /\ ~Alive(call[p].code)
  /\ sessions' = [sessions EXCEPT ![call[p].code] = NoSession]
  /\ call' = [call EXCEPT ![p] = NoCall]
  /\ UNCHANGED <<opened, standing, heard>>

Init ==
  /\ sessions = [code \in Codes |-> NoSession]
  /\ opened = 0
  /\ standing = [d \in Devices |-> "in"]
  /\ call = [p \in Parties |-> NoCall]
  /\ heard = [p \in Parties |-> [code |-> 0, messages |-> <<>>]]

----------------------------------------------------------------------------
(* Opening.                                                                *)

\* The request is authenticated; the session is opened later.
OpenAsked(d) ==
  /\ call[d].at = "idle" /\ standing[d] = "in"
  /\ opened + Cardinality({e \in Devices : call[e].at = "opening"}) < MaxOpened
  /\ Goes(d, "opening")
  /\ UNCHANGED <<sessions, opened, standing, heard>>

\* Mutant: what has expired still counts.
RetainedAll == sessions

\* What has not expired; the rest goes whenever a session is opened.
Retained == [code \in Codes |-> IF Alive(code) THEN sessions[code] ELSE NoSession]

Open(kept) == {code \in Codes : kept[code].opener # Nobody}
OpenOf(kept, account) == {code \in Open(kept) : AccountOf[kept[code].opener] = account}

\* Mutant: one more than there should be.
FullByOne(kept, account) ==
  Cardinality(Open(kept)) >= OPEN_AT_MOST \/ Cardinality(OpenOf(kept, account)) > OPEN_PER_ACCOUNT

Full(kept, account) ==
  Cardinality(Open(kept)) >= OPEN_AT_MOST \/ Cardinality(OpenOf(kept, account)) >= OPEN_PER_ACCOUNT

OpenRefused(d) ==
  /\ call[d].at = "opening"
  /\ Full(Retained, AccountOf[d])
  /\ sessions' = Retained
  /\ call' = [call EXCEPT ![d] = NoCall]
  /\ UNCHANGED <<opened, standing, heard>>

Opens(d) ==
  /\ call[d].at = "opening"
  /\ ~Full(Retained, AccountOf[d])
  /\ sessions' = [Retained EXCEPT ![opened + 1] = [NoSession EXCEPT !.opener = d]]
  /\ opened' = opened + 1
  /\ call' = [call EXCEPT ![d] = NoCall]
  /\ UNCHANGED <<standing, heard>>

----------------------------------------------------------------------------
(* Being admitted.                                                         *)

\* A party sets out to post or to read under a code, whether or not it names a
\* session (any more).
SetsOut(p, at, code) ==
  /\ call[p].at = "idle"
  /\ call' = [call EXCEPT ![p] = [NoCall EXCEPT !.at = at, !.code = code]]
  /\ UNCHANGED <<sessions, opened, standing, heard>>

\* Mutant: whoever comes with a claim is side b.
MaySpeakAny(p, session) == p \in Joiners \/ session.opener = p

\* Side a is the opener; side b the first claim to arrive.
MaySpeak(p, session) ==
  IF p \in Devices THEN session.opener = p ELSE session.claim \in {Nobody, p}

\* A party that is admitted to a session for the first time has heard nothing
\* in it.
Hears(p, code) ==
  heard' = [heard EXCEPT ![p] = IF @.code = code THEN @
                                ELSE [code |-> code, messages |-> <<>>]]

\* The opener's token is checked as for any other request.
Admitted(p, at, next) ==
  LET session == sessions[call[p].code]
  IN  /\ call[p].at = at
      /\ Alive(call[p].code)
      /\ IF (p \in Devices => standing[p] = "in") /\ MaySpeak(p, session)
         THEN /\ sessions' = [sessions EXCEPT ![call[p].code].claim =
                                IF p \in Joiners THEN p ELSE @]
              /\ Goes(p, next)
              /\ Hears(p, call[p].code)
         ELSE /\ call' = [call EXCEPT ![p] = NoCall]
              /\ UNCHANGED <<sessions, heard>>
      /\ UNCHANGED <<opened, standing>>

----------------------------------------------------------------------------
(* Posting.                                                                *)

\* Mutant: only who sleeps is woken, not who is about to.
ListeningAsleep(code) ==
  {p \in Parties : call[p].code = code /\ call[p].at = "waiting"}

\* notify_waiters wakes whoever has begun to listen, waiting yet or not.
Listening(code) ==
  {p \in Parties : call[p].code = code /\ call[p].at \in {"listening", "looked", "waiting"}}

HasRoom(messages) == Len(messages) < MAX_MESSAGES

\* A message goes into the slot of its side, and the other side is woken.
Posts(p) ==
  LET code == call[p].code
      session == sessions[code]
      slot == IF p \in Devices THEN session.from_a ELSE session.from_b
      message == [by |-> p, n |-> Len(slot) + 1]
  IN  /\ call[p].at = "posting"
      /\ Alive(code)
      /\ IF HasRoom(slot)
         THEN /\ sessions' = IF p \in Devices
                             THEN [sessions EXCEPT ![code].from_a = Append(@, message)]
                             ELSE [sessions EXCEPT ![code].from_b = Append(@, message)]
              /\ call' = [q \in Parties |->
                            IF q = p THEN NoCall
                            ELSE IF q \in Listening(code)
                                 THEN [call[q] EXCEPT !.woken = TRUE] ELSE call[q]]
         ELSE /\ call' = [call EXCEPT ![p] = NoCall]
              /\ UNCHANGED sessions
      /\ UNCHANGED <<opened, standing, heard>>

----------------------------------------------------------------------------
(* Reading.                                                                *)

\* The waiter is fetched and enabled before the first look.
Listens(p) ==
  /\ call[p].at = "reading"
  /\ Alive(call[p].code)
  /\ call' = [call EXCEPT ![p].at = "listening"]
  /\ UNCHANGED <<sessions, opened, standing, heard>>

\* Mutant: from the last message the device has.
NewsOverlapping(p) ==
  LET said == Said(p, sessions[call[p].code])
      after == Len(heard[p].messages)
  IN  SubSeq(said, IF after = 0 THEN 1 ELSE after, Len(said))

\* What the other side has said after what the device says it has.
News(p) ==
  LET said == Said(p, sessions[call[p].code])
  IN  SubSeq(said, Len(heard[p].messages) + 1, Len(said))

\* The answer is on its way: it arrives, or the device asks again.
Answers(p) ==
  /\ call' = [call EXCEPT ![p] = NoCall]
  /\ \/ heard' = [heard EXCEPT ![p].messages = @ \o News(p)]
     \/ "loss" \in Disturbances /\ UNCHANGED heard
  /\ UNCHANGED <<sessions, opened, standing>>

\* The first look: an answer, or, if the device asked to wait for one, a wait.
Looks(p) ==
  /\ call[p].at = "listening"
  /\ Alive(call[p].code)
  /\ \/ Answers(p)
     \/ /\ News(p) = <<>>
        /\ Goes(p, "looked")
        /\ UNCHANGED <<sessions, opened, standing, heard>>

\* The lock is let go before the wait begins.
Waits(p) ==
  /\ call[p].at = "looked"
  /\ Goes(p, "waiting")
  /\ UNCHANGED <<sessions, opened, standing, heard>>

\* The second look, once woken or after POLL_SECS.
LooksAgain(p) ==
  /\ call[p].at = "waiting"
  /\ Alive(call[p].code)
  /\ Answers(p)

\* A session that is over by then answers "not found", whatever the step.
Misses(p) ==
  /\ call[p].at \in {"admit_post", "admit_read", "posting", "reading", "listening", "waiting"}
  /\ NotFound(p)

----------------------------------------------------------------------------
(* The end of a session.                                                   *)

\* The account is looked at first, the session closed after.
CloseChecked(d, code) ==
  /\ "close" \in Disturbances
  /\ call[d].at = "idle" /\ standing[d] = "in"
  /\ Alive(code) /\ AccountOf[sessions[code].opener] = AccountOf[d]
  /\ call' = [call EXCEPT ![d] = [NoCall EXCEPT !.at = "closing", !.code = code]]
  /\ UNCHANGED <<sessions, opened, standing, heard>>

Closes(d) ==
  /\ call[d].at = "closing"
  /\ sessions' = [sessions EXCEPT ![call[d].code] = NoSession]
  /\ call' = [call EXCEPT ![d] = NoCall]
  /\ UNCHANGED <<opened, standing, heard>>

\* A device is standing, in the database first.
Revoked(d) ==
  /\ "revoke" \in Disturbances
  /\ standing[d] = "in"
  /\ standing' = [standing EXCEPT ![d] = "marked"]
  /\ UNCHANGED <<sessions, opened, call, heard>>

\* close_opened_by, the last thing the revoke handler does.  A device that is
\* revoked by command stays marked.
RevokeCloses(d) ==
  /\ standing[d] = "marked"
  /\ sessions' = [code \in Codes |-> IF sessions[code].opener = d THEN NoSession
                                                                  ELSE sessions[code]]
  /\ standing' = [standing EXCEPT ![d] = "out"]
  /\ UNCHANGED <<opened, call, heard>>

Expires(code) ==
  /\ "expiry" \in Disturbances
  /\ Alive(code)
  /\ sessions' = [sessions EXCEPT ![code].expired = TRUE]
  /\ UNCHANGED <<opened, standing, call, heard>>

----------------------------------------------------------------------------

Next ==
  \/ \E d \in Devices :
       \/ OpenAsked(d) \/ OpenRefused(d) \/ Opens(d)
       \/ Closes(d) \/ Revoked(d) \/ RevokeCloses(d)
       \/ \E code \in Codes : CloseChecked(d, code)
  \/ \E p \in Parties :
       \/ \E code \in Codes : SetsOut(p, "admit_post", code) \/ SetsOut(p, "admit_read", code)
       \/ Admitted(p, "admit_post", "posting") \/ Admitted(p, "admit_read", "reading")
       \/ Posts(p) \/ Listens(p) \/ Looks(p) \/ Waits(p) \/ LooksAgain(p) \/ Misses(p)
  \/ \E code \in Codes : Expires(code)

Spec == Init /\ [][Next]_vars

----------------------------------------------------------------------------
(* What must hold.                                                         *)

\* Every variable has its type, and neither side of a session says more than a
\* handshake takes (Pairings::post).
TypeOK ==
  /\ \A code \in Codes :
       /\ sessions[code].opener \in Devices \cup {Nobody}
       /\ sessions[code].claim \in Joiners \cup {Nobody} /\ sessions[code].expired \in BOOLEAN
       /\ Len(sessions[code].from_a) <= MAX_MESSAGES /\ Len(sessions[code].from_b) <= MAX_MESSAGES
  /\ opened \in 0..MaxOpened /\ standing \in [Devices -> {"in", "marked", "out"}]
  /\ \A p \in Parties :
       /\ call[p].code \in 0..MaxOpened /\ call[p].woken \in BOOLEAN
       /\ heard[p].code \in 0..MaxOpened /\ Len(heard[p].messages) <= MAX_MESSAGES

\* In each session the messages of side a are the opener's and those of side b
\* the claim holder's, though admitting and posting are two steps (admit, post).
OnlyTheirSide ==
  \A code \in Open(sessions) : LET session == sessions[code] IN
    /\ \A i \in DOMAIN session.from_a : session.from_a[i].by = session.opener
    /\ \A i \in DOMAIN session.from_b : session.from_b[i].by = session.claim

\* What a device was told in a session is what the other side said there, from
\* the first message on, each once and in order, whatever answers were lost
\* (read, with the count the device sends as after).
InOrderOnce ==
  \A p \in Parties, code \in Open(sessions) :
    heard[p].code = code =>
      IsPrefix(heard[p].messages, Said(p, sessions[code]))

\* A device that waits and was not woken has nothing to be told: no message
\* falls between the look and the wait (the waiter enabled before the look).
NoLostWakeup ==
  \A p \in Parties, code \in Open(sessions) :
    call[p].at = "waiting" /\ ~call[p].woken /\ call[p].code = code => Len(Said(p, sessions[code])) <= Len(heard[p].messages)

\* Neither an account nor the server holds more sessions than it may, nor a
\* session more messages (open, post).
SessionsCapped ==
  /\ TypeOK
  /\ Cardinality(Open(sessions)) <= OPEN_AT_MOST
  /\ \A account \in Accounts : Cardinality(OpenOf(sessions, account)) <= OPEN_PER_ACCOUNT

\* An account is refused only for sessions that are still good: those that ran
\* out never lock it out (the retain at the start of open).
NotLockedOut ==
  [][\A d \in Devices :
       call[d].at = "opening" /\ call'[d].at = "idle" /\ opened' = opened =>
         \/ Cardinality({code \in Codes : Alive(code)}) >= OPEN_AT_MOST
         \/ Cardinality({code \in Codes : Alive(code)
                           /\ AccountOf[sessions[code].opener] = AccountOf[d]}) >= OPEN_PER_ACCOUNT]_vars

=============================================================================
