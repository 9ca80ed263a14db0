------------------------------- MODULE Access -------------------------------
(***************************************************************************)
(* Who is in: the devices of one account, how they sign in, join and are   *)
(* shut out.  Session tokens and challenges (auth.rs), enrolment tokens    *)
(* (db/invites.rs), the master password's verifier (db/accounts.rs), and   *)
(* the handlers of api/session.rs, api/devices.rs and api/accounts.rs that *)
(* use them.  Event streams are in Events, which extends this module.      *)
(*                                                                         *)
(* Each table is behind a mutex of its own and a handler takes one after   *)
(* the other, so a handler is as many steps as it takes locks.  Where it   *)
(* runs several statements under the database's mutex without a            *)
(* transaction, each is a step: nobody else gets in between, a crash does. *)
(*                                                                         *)
(* Random values are numbers handed out upwards: none comes twice, and the *)
(* lists that are kept oldest first are sets of them.  Time only ever      *)
(* shows as something having expired.                                      *)
(***************************************************************************)
EXTENDS Integers, Sequences, FiniteSets, Functions

CONSTANTS
  Devices,                \* devices the account may ever have
  Founders,               \* those it has to begin with, in the order they came
  Nobody,                 \* no device
  Workers,                \* requests the server works on at once
  Passwords,              \* what a login key may be derived from
  Kinds,                  \* requests that are made
  Disturbances,           \* what else happens: "restart", and the expiry
                          \* of "tokens", "challenges", "enrolments"
  TOKENS_PER_DEVICE, CHALLENGES_PER_DEVICE, ENROLMENT_ATTEMPTS,
  MaxTokens,              \* bounds: session tokens,
  MaxChallenges,          \* challenges
  MaxEnrolments,          \* enrolment tokens ever handed out,
  MaxUnsettled            \* and wrong passwords counted for nothing

ASSUME AccessAssumption ==
  /\ IsFiniteSet(Devices) /\ Founders \in Seq(Devices) /\ Len(Founders) <= MaxTokens
  /\ \A i, j \in DOMAIN Founders : Founders[i] = Founders[j] => i = j
  /\ Nobody \notin Devices /\ IsFiniteSet(Workers) /\ Passwords # {}
  /\ TOKENS_PER_DEVICE \in Nat \ {0} /\ CHALLENGES_PER_DEVICE \in Nat \ {0}
  /\ ENROLMENT_ATTEMPTS \in Nat \ {0}
  /\ MaxTokens \in Nat /\ MaxChallenges \in Nat /\ MaxEnrolments \in Nat
  /\ MaxUnsettled \in Nat

VARIABLES
  device,      \* the devices table: status, and the enrolment it joined with
  password,    \* what the account's verifier was made from
  enrolments,  \* the enrolments table; history: how many wrong passwords were
               \* counted and not looked at (unsettled)
  by_token,    \* Sessions: whose each token is, and the challenge behind it
  by_device,   \* Sessions: each device's tokens
  challenges,  \* Challenges: each device's outstanding ones
  minted,      \* how many tokens, challenges and enrolments were handed out
  req,         \* the requests being worked on
  command      \* the device the command line is revoking, if any

vars == <<device, password, enrolments, by_token, by_device, challenges,
          minted, req, command>>

stored == <<device, password, enrolments>>
sessions == <<by_token, by_device>>

----------------------------------------------------------------------------

Tokens == 1..MaxTokens
Challenges == 1..MaxChallenges
Enrolments == 1..MaxEnrolments

NoSession == [device |-> Nobody, challenge |-> 0, expired |-> FALSE]
NoEnrolment == [at |-> "none", by |-> Nobody, failures |-> 0, unsettled |-> 0,
                expired |-> FALSE]
\* The password the account is created with; it stands in where none is sent.
FirstPassword == CHOOSE p \in Passwords : TRUE

NoRequest == [at |-> "idle", kind |-> "none", device |-> Nobody, target |-> Nobody,
              token |-> 0, challenge |-> 0, enrolment |-> 0,
              proof |-> FirstPassword]

Good(t) == by_token[t].device # Nobody /\ ~by_token[t].expired
Usable(e) == enrolments[e].at = "open" /\ ~enrolments[e].expired
Live == {d \in Devices : device[d].status = "live"}

\* Requests that hold the database across several statements.
DbFree == \A w \in Workers : req[w].at \notin {"marked", "redeemed", "counted"}

\* Room under a bound for one more request of these kinds.
Room(handed, kinds, bound) ==
  handed + Cardinality({w \in Workers : req[w].kind \in kinds}) < bound

At(w, kind, at) == req[w].kind = kind /\ req[w].at = at
Goes(w, at) == req' = [req EXCEPT ![w].at = at]
Done(w) == req' = [req EXCEPT ![w] = NoRequest]

\* Whoever creates the account or joins it is given a session token at once.
Init ==
  /\ device = [d \in Devices |->
                 [status |-> IF d \in Range(Founders) THEN "live" ELSE "absent", via |-> 0]]
  /\ password = FirstPassword
  /\ enrolments = [e \in Enrolments |-> NoEnrolment]
  /\ by_token = [t \in Tokens |-> IF t \in DOMAIN Founders
                                 THEN [NoSession EXCEPT !.device = Founders[t]] ELSE NoSession]
  /\ by_device = [d \in Devices |-> {t \in DOMAIN Founders : Founders[t] = d}]
  /\ challenges = [d \in Devices |-> {}]
  /\ minted = [tokens |-> Len(Founders), challenges |-> 0, enrolments |-> 0]
  /\ req = [w \in Workers |-> NoRequest]
  /\ command = Nobody

----------------------------------------------------------------------------
(* Sessions.                                                               *)

\* The newest n: those fewer than n came after.
Newest(S, n) == {t \in S : Cardinality({u \in S : u > t}) < n}

\* Mutant: the tokens that make room stay good.
IssueForgetful(d, challenge) ==
  LET new == minted.tokens + 1
      kept == Newest({t \in by_device[d] : Good(t)}, TOKENS_PER_DEVICE - 1)
  IN  /\ by_device' = [by_device EXCEPT ![d] = kept \cup {new}]
      /\ by_token' = [by_token EXCEPT ![new] =
                        [device |-> d, challenge |-> challenge, expired |-> FALSE]]
      /\ minted' = [minted EXCEPT !.tokens = new]

\* Sessions::issue: the device's expired tokens go, its oldest when there are
\* too many, and the new one is entered in both tables.
Issue(d, challenge) ==
  LET new == minted.tokens + 1
      kept == Newest({t \in by_device[d] : Good(t)}, TOKENS_PER_DEVICE - 1)
  IN  /\ by_device' = [by_device EXCEPT ![d] = kept \cup {new}]
      /\ by_token' = [t \in Tokens |->
           IF t = new THEN [device |-> d, challenge |-> challenge, expired |-> FALSE]
           ELSE IF t \in by_device[d] \ kept THEN NoSession
           ELSE by_token[t]]
      /\ minted' = [minted EXCEPT !.tokens = new]

\* Sessions::drop_device.
DropDevice(d) ==
  /\ by_device' = [by_device EXCEPT ![d] = {}]
  /\ by_token' = [t \in Tokens |-> IF t \in by_device[d] THEN NoSession ELSE by_token[t]]

\* Sessions::sweep, every few minutes.
Sweep ==
  /\ \E t \in Tokens : by_token[t].expired
  /\ by_token' = [t \in Tokens |-> IF Good(t) THEN by_token[t] ELSE NoSession]
  /\ by_device' = [d \in Devices |-> {t \in by_device[d] : Good(t)}]
  /\ UNCHANGED <<stored, challenges, minted, req, command>>

----------------------------------------------------------------------------
(* Signing in.                                                             *)

\* A challenge is asked for in the name of a device that is in.  For any other
\* the answer leads nowhere and nothing is kept.
ChallengeAsked(w, d) ==
  /\ "challenge" \in Kinds /\ Room(minted.challenges, {"challenge"}, MaxChallenges)
  /\ req[w].at = "idle" /\ DbFree
  /\ device[d].status = "live"
  /\ req' = [req EXCEPT ![w] = [NoRequest EXCEPT !.at = "known", !.kind = "challenge",
                                                 !.device = d]]
  /\ UNCHANGED <<stored, sessions, challenges, minted, command>>

Outstanding(d) == {c \in challenges[d] : ~c.expired}

\* The oldest goes when there are as many as a device may have.
NotTheOldest(S) ==
  IF Cardinality(S) >= CHALLENGES_PER_DEVICE THEN {c \in S : \E older \in S : older.id < c.id}
                                             ELSE S

\* Challenges::issue: what expired goes, for every device, and the device's
\* oldest when there are too many.
ChallengeIssued(w) ==
  LET d == req[w].device
      new == minted.challenges + 1
      kept == NotTheOldest(Outstanding(d))
  IN  /\ At(w, "challenge", "known")
      /\ challenges' = [other \in Devices |->
           IF other = d THEN kept \cup {[id |-> new, expired |-> FALSE]}
                        ELSE Outstanding(other)]
      /\ minted' = [minted EXCEPT !.challenges = new]
      /\ Done(w)
      /\ UNCHANGED <<stored, sessions, command>>

\* A device signs a challenge it was given, now or before; the handler reads
\* the device's row.
LoginLooksUp(w, d) ==
  /\ "challenge" \in Kinds /\ Room(minted.tokens, {"login", "enrol"}, MaxTokens)
  /\ req[w].at = "idle" /\ DbFree
  /\ device[d].status = "live"
  /\ \E c \in 1..minted.challenges :
       req' = [req EXCEPT ![w] = [NoRequest EXCEPT !.at = "known", !.kind = "login",
                                                   !.device = d, !.challenge = c]]
  /\ UNCHANGED <<stored, sessions, challenges, minted, command>>

Ids(S) == {c.id : c \in S}

\* Which of its outstanding challenges the signature is for.
LoginFinds(w) ==
  /\ At(w, "login", "known")
  /\ IF req[w].challenge \in Ids(Outstanding(req[w].device)) THEN Goes(w, "found") ELSE Done(w)
  /\ UNCHANGED <<stored, sessions, challenges, minted, command>>

\* Mutant: that the challenge was found is enough.
LoginSpendsFound(w) ==
  /\ At(w, "login", "found")
  /\ challenges' = [challenges EXCEPT
       ![req[w].device] = {c \in @ : c.id # req[w].challenge}]
  /\ Goes(w, "spent")
  /\ UNCHANGED <<stored, sessions, minted, command>>

\* Challenges::spend: it goes, and the request with it unless it was there.
LoginSpends(w) ==
  LET d == req[w].device
  IN  /\ At(w, "login", "found")
      /\ challenges' = [challenges EXCEPT ![d] = {c \in @ : c.id # req[w].challenge}]
      /\ IF req[w].challenge \in Ids(challenges[d]) THEN Goes(w, "spent") ELSE Done(w)
      /\ UNCHANGED <<stored, sessions, minted, command>>

LoginIssues(w) ==
  /\ At(w, "login", "spent")
  /\ Issue(req[w].device, req[w].challenge)
  /\ Done(w)
  /\ UNCHANGED <<stored, challenges, command>>

----------------------------------------------------------------------------
(* Requests that carry a token.                                            *)

WithToken == {"invite", "revoke", "change", "events"}

\* A token is looked up first; the database after that.
Presented(w, t) ==
  /\ req[w].at = "idle"
  /\ Good(t)
  /\ \E kind \in Kinds \cap WithToken, target \in Devices, proof \in Passwords :
       /\ kind = "invite" => Room(minted.enrolments, {"invite"}, MaxEnrolments)
       /\ kind # "revoke" => target = by_token[t].device
       /\ kind \in {"invite", "events"} \/ (kind = "revoke" /\ target = by_token[t].device)
            => proof = FirstPassword
       /\ req' = [req EXCEPT ![w] =
            [NoRequest EXCEPT !.at = "presented", !.kind = kind, !.token = t,
                              !.device = by_token[t].device, !.target = target,
                              !.proof = proof]]
  /\ UNCHANGED <<stored, sessions, challenges, minted, command>>

\* authenticate: in, if the device still is.
Authenticated(w) ==
  /\ req[w].at = "presented" /\ DbFree
  /\ device[req[w].device].status = "live"
  /\ Goes(w, "in")
  /\ UNCHANGED <<stored, sessions, challenges, minted, command>>

\* A revoked device's tokens go when one of them is shown.
TurnedAway(w) ==
  /\ req[w].at = "presented" /\ DbFree
  /\ device[req[w].device].status # "live"
  /\ DropDevice(req[w].device)
  /\ Done(w)
  /\ UNCHANGED <<stored, challenges, minted, command>>

\* prove_password, for a change and for revoking another device.
Proves(w) ==
  /\ req[w].at = "in" /\ DbFree
  /\ req[w].kind = "change" \/ (req[w].kind = "revoke" /\ req[w].target # req[w].device)
  /\ IF req[w].proof = password THEN Goes(w, "proved") ELSE Done(w)
  /\ UNCHANGED <<stored, sessions, challenges, minted, command>>

\* The new verifier, in a lock of its own.
PasswordChanged(w) ==
  /\ At(w, "change", "proved") /\ DbFree
  /\ password' \in Passwords
  /\ Done(w)
  /\ UNCHANGED <<device, enrolments, sessions, challenges, minted, command>>

\* An enrolment token made by a device that was in when it asked.
Invited(w) ==
  LET new == minted.enrolments + 1
  IN  /\ At(w, "invite", "in") /\ DbFree
      /\ enrolments' = [enrolments EXCEPT ![new] =
                          [NoEnrolment EXCEPT !.at = "open", !.by = req[w].device]]
      /\ minted' = [minted EXCEPT !.enrolments = new]
      /\ Done(w)
      /\ UNCHANGED <<device, password, sessions, challenges, command>>

----------------------------------------------------------------------------
(* Joining.                                                                *)

Unnamed == {d \in Devices : device[d].status = "absent"
                            /\ \A w \in Workers : req[w].device # d}

\* enrolment_failed, the first statement.
CountWrong(e) ==
  enrolments' = [enrolments EXCEPT ![e].failures = @ + 1, ![e].unsettled = @ + 1]

\* Mutant: one wrong password too many.
UseUpLate(e) ==
  IF enrolments[e].at = "open"
  THEN enrolments' = [enrolments EXCEPT ![e].unsettled = @ - 1,
         ![e].at = IF enrolments[e].failures > ENROLMENT_ATTEMPTS THEN "used" ELSE @]
  ELSE UNCHANGED enrolments

\* And the second: the last one uses the token up, if it is still there.
UseUp(e) ==
  IF enrolments[e].at = "open"
  THEN enrolments' = [enrolments EXCEPT ![e].unsettled = @ - 1,
         ![e].at = IF enrolments[e].failures >= ENROLMENT_ATTEMPTS THEN "used" ELSE @]
  ELSE UNCHANGED enrolments

\* Mutant: the token is looked at, not used up.
RedeemPeeking(e) == UNCHANGED enrolments

\* redeem_enrolment.
Redeem(e) == enrolments' = [enrolments EXCEPT ![e].at = "used"]

Enrolling(at, d, e) == [NoRequest EXCEPT !.at = at, !.kind = "enrol", !.device = d,
                                         !.enrolment = e]

\* enrol: the token, then the password, then the token is used up.
Enrols(w, e) ==
  /\ "enrol" \in Kinds /\ Room(minted.tokens, {"login", "enrol"}, MaxTokens)
  /\ req[w].at = "idle" /\ DbFree
  /\ Usable(e)
  /\ \E proof \in Passwords, d \in Unnamed :
       \/ /\ proof # password /\ enrolments[e].unsettled < MaxUnsettled
          /\ CountWrong(e)
          /\ req' = [req EXCEPT ![w] = Enrolling("counted", d, e)]
       \/ /\ proof = password
          /\ Redeem(e)
          /\ req' = [req EXCEPT ![w] = Enrolling("redeemed", d, e)]
  /\ UNCHANGED <<device, password, sessions, challenges, minted, command>>

EnrolFails(w) ==
  /\ At(w, "enrol", "counted")
  /\ UseUp(req[w].enrolment)
  /\ Done(w)
  /\ UNCHANGED <<device, password, sessions, challenges, minted, command>>

EnrolAdds(w) ==
  /\ At(w, "enrol", "redeemed")
  /\ device' = [device EXCEPT ![req[w].device] = [status |-> "live", via |-> req[w].enrolment]]
  /\ Goes(w, "admitted")
  /\ UNCHANGED <<password, enrolments, sessions, challenges, minted, command>>

EnrolIssues(w) ==
  /\ At(w, "enrol", "admitted")
  /\ Issue(req[w].device, 0)
  /\ Done(w)
  /\ UNCHANGED <<stored, challenges, command>>

----------------------------------------------------------------------------
(* Shutting a device out.                                                  *)

\* A device takes itself out, or another one with the password proved.
MayRevoke(w) ==
  /\ req[w].kind = "revoke" /\ DbFree
  /\ req[w].at = IF req[w].target = req[w].device THEN "in" ELSE "proved"

\* Mutant: one device is enough.
NotTheLastByOne(w) == Cardinality(Live) >= 1

\* live_count, looked at under the lock that revokes.
NotTheLast(w) == Cardinality(Live) > 1

RevokeRefused(w) ==
  /\ MayRevoke(w)
  /\ ~NotTheLast(w) \/ device[req[w].target].status # "live"
  /\ Done(w)
  /\ UNCHANGED <<stored, sessions, challenges, minted, command>>

RevokeMarks(w) ==
  /\ MayRevoke(w)
  /\ NotTheLast(w) /\ device[req[w].target].status = "live"
  /\ device' = [device EXCEPT ![req[w].target].status = "revoked"]
  /\ Goes(w, "marked")
  /\ UNCHANGED <<password, enrolments, sessions, challenges, minted, command>>

\* drop_enrolments_of: the unused ones go.
DropEnrolments(d) ==
  enrolments' = [e \in Enrolments |->
    IF enrolments[e].by = d /\ enrolments[e].at = "open" THEN NoEnrolment
                                                         ELSE enrolments[e]]

RevokeDropsEnrolments(w) ==
  /\ At(w, "revoke", "marked")
  /\ DropEnrolments(req[w].target)
  /\ Goes(w, "dropped")
  /\ UNCHANGED <<device, password, sessions, challenges, minted, command>>

RevokeDropsTokens(w) ==
  /\ At(w, "revoke", "dropped")
  /\ DropDevice(req[w].target)
  /\ Done(w)
  /\ UNCHANGED <<stored, challenges, minted, command>>

\* The command line does the same to the database from another process, asks
\* nothing first, and cannot reach the tokens in the server's memory.
CommandRevokes(d) ==
  /\ command = Nobody
  /\ device[d].status # "absent"
  /\ device' = [device EXCEPT ![d].status = "revoked"]
  /\ command' = d
  /\ UNCHANGED <<password, enrolments, sessions, challenges, minted, req>>

CommandDropsEnrolments ==
  /\ command # Nobody
  /\ DropEnrolments(command)
  /\ command' = Nobody
  /\ UNCHANGED <<device, password, sessions, challenges, minted, req>>

----------------------------------------------------------------------------
(* Time, and the server stopping.                                          *)

TokenExpires(t) ==
  /\ "tokens" \in Disturbances
  /\ Good(t)
  /\ by_token' = [by_token EXCEPT ![t].expired = TRUE]
  /\ UNCHANGED <<stored, by_device, challenges, minted, req, command>>

EnrolmentExpires(e) ==
  /\ "enrolments" \in Disturbances
  /\ Usable(e)
  /\ enrolments' = [enrolments EXCEPT ![e].expired = TRUE]
  /\ UNCHANGED <<device, password, sessions, challenges, minted, req, command>>

ChallengesExpire(d) ==
  /\ "challenges" \in Disturbances
  /\ Outstanding(d) # {}
  /\ challenges' = [challenges EXCEPT ![d] = {[c EXCEPT !.expired = TRUE] : c \in @}]
  /\ UNCHANGED <<stored, sessions, minted, req, command>>

\* A statement fails (the disk is full) and the handler returns: those before it
\* stay.  Where it is the first, nothing is left.
StatementFails(w) ==
  /\ req[w].at \in {"counted", "redeemed", "marked"}
  /\ Done(w)
  /\ UNCHANGED <<stored, sessions, challenges, minted, command>>

\* Whatever is in memory is gone; the database has the statements that ran.
Restart ==
  /\ "restart" \in Disturbances
  /\ by_token' = [t \in Tokens |-> NoSession]
  /\ by_device' = [d \in Devices |-> {}]
  /\ challenges' = [d \in Devices |-> {}]
  /\ req' = [w \in Workers |-> NoRequest]
  /\ UNCHANGED <<stored, minted, command>>

----------------------------------------------------------------------------

Work(w) ==
  \/ ChallengeIssued(w) \/ LoginFinds(w) \/ LoginSpends(w) \/ LoginIssues(w)
  \/ Authenticated(w) \/ TurnedAway(w) \/ Proves(w) \/ PasswordChanged(w) \/ Invited(w)
  \/ EnrolFails(w) \/ EnrolAdds(w) \/ EnrolIssues(w)
  \/ RevokeRefused(w) \/ RevokeMarks(w) \/ RevokeDropsEnrolments(w) \/ RevokeDropsTokens(w)

Asked(w) ==
  \/ \E d \in Devices : ChallengeAsked(w, d) \/ LoginLooksUp(w, d)
  \/ \E t \in Tokens : Presented(w, t)
  \/ \E e \in Enrolments : Enrols(w, e)

Expiry ==
  \/ \E t \in Tokens : TokenExpires(t)
  \/ \E e \in Enrolments : EnrolmentExpires(e)
  \/ \E d \in Devices : ChallengesExpire(d)

\* Not a step of Next: it may take the account's last device.  Events adds it.
Command == (\E d \in Devices : CommandRevokes(d)) \/ CommandDropsEnrolments

Step ==
  \/ \E w \in Workers : Work(w) \/ Asked(w) \/ StatementFails(w)
  \/ Expiry \/ Sweep

Next == Step \/ Restart

Spec == Init /\ [][Next]_vars

----------------------------------------------------------------------------
(* What must hold.                                                         *)

\* Every variable has its type, and the challenges of a device do not go beyond
\* its share (Challenges::issue).
TypeOK ==
  /\ device \in [Devices -> [status : {"absent", "live", "revoked"},
                             via : 0..MaxEnrolments]]
  /\ password \in Passwords
  /\ enrolments \in [Enrolments -> [at : {"none", "open", "used"}, by : Devices \cup {Nobody},
                                    failures : Nat, unsettled : Nat, expired : BOOLEAN]]
  /\ by_token \in [Tokens -> [device : Devices \cup {Nobody}, challenge : 0..MaxChallenges,
                              expired : BOOLEAN]]
  /\ by_device \in [Devices -> SUBSET Tokens]
  /\ challenges \in [Devices -> SUBSET [id : Challenges, expired : BOOLEAN]]
  /\ \A d \in Devices : Cardinality(challenges[d]) <= CHALLENGES_PER_DEVICE
  /\ minted \in [tokens : 0..MaxTokens, challenges : 0..MaxChallenges,
                 enrolments : 0..MaxEnrolments]
  /\ req \in [Workers ->
       [at : {"idle", "known", "found", "spent", "presented", "in", "proved", "marked",
              "dropped", "streaming", "counted", "redeemed", "admitted"},
        kind : WithToken \cup {"none", "challenge", "login", "enrol"},
        device : Devices \cup {Nobody}, target : Devices \cup {Nobody},
        token : 0..MaxTokens, challenge : 0..MaxChallenges,
        enrolment : 0..MaxEnrolments, proof : Passwords]]
  /\ command \in Devices \cup {Nobody}

\* The two tables of Sessions say the same, so that dropping a device or its
\* oldest token through one leaves nothing good behind in the other; and no
\* device holds more than its share (Sessions::issue, drop_device, sweep).
TablesAgree ==
  /\ TypeOK
  /\ \A d \in Devices : /\ by_device[d] = {t \in Tokens : by_token[t].device = d}
                        /\ Cardinality(by_device[d]) <= TOKENS_PER_DEVICE

\* Sessions and sign-ins that were let through with a challenge.
LetIn(c) == Cardinality({t \in Tokens : by_token[t].challenge = c})
            + Cardinality({w \in Workers : req[w].at = "spent" /\ req[w].challenge = c})

\* One signature, one session: of requests racing with the same answer to a
\* challenge one is let in (Challenges::spend in the login handler).
OneSignatureOneSession == \A c \in Challenges : LetIn(c) <= 1

\* An account always has a device that can reach it, however its devices race
\* to revoke each other (live_count in the revoke handler).
AccountReachable == Live # {}

\* One enrolment token, one device, across racing joins and crashes between
\* the statements of the handler (redeem_enrolment before devices::add).
OneTokenOneDevice ==
  \A d, other \in Devices : d # other /\ device[d].via # 0 => device[d].via # device[other].via

\* A token survives fewer wrong passwords than it has attempts, but for those
\* whose second statement never ran: a crash or a failed statement costs at most
\* one guess each, and the next wrong password uses the token up all the same
\* (enrolment_failed).
GuessesBounded ==
  \A e \in Enrolments :
    /\ enrolments[e].failures <= ENROLMENT_ATTEMPTS + enrolments[e].unsettled
    /\ Usable(e) => enrolments[e].failures < ENROLMENT_ATTEMPTS + enrolments[e].unsettled

=============================================================================
