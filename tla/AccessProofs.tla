---------------------------- MODULE AccessProofs ----------------------------
(***************************************************************************)
(* Who is in: theorems for any number of devices, tokens, challenges,      *)
(* enrolments and requests at once.                                        *)
(***************************************************************************)
EXTENDS Access, FiniteSetTheorems, WellFoundedInduction, NaturalsInduction, TLAPS

----------------------------------------------------------------------------
(* The inductive invariant.                                                *)

\* What may stand in the tables and in a request.
DeviceIds == Devices \cup {Nobody}
TokenIds == 0..MaxTokens
ChallengeIds == 0..MaxChallenges
EnrolmentIds == 0..MaxEnrolments

DeviceRow == [status : {"absent", "live", "revoked"}, via : EnrolmentIds]
EnrolmentRow == [at : {"none", "open", "used"}, by : DeviceIds, failures : Nat, unsettled : Nat,
                 expired : BOOLEAN]
TokenRow == [device : DeviceIds, challenge : ChallengeIds, expired : BOOLEAN]
ChallengeRow == [id : Challenges, expired : BOOLEAN]
Places == {"idle", "known", "found", "spent", "presented", "in", "proved", "marked",
           "dropped", "streaming", "counted", "redeemed", "admitted"}
Request == [at : Places, kind : WithToken \cup {"none", "challenge", "login", "enrol"},
            device : DeviceIds, target : DeviceIds,
            token : TokenIds, challenge : ChallengeIds,
            enrolment : EnrolmentIds, proof : Passwords]

Typed ==
  /\ device \in [Devices -> DeviceRow] /\ password \in Passwords
  /\ enrolments \in [Enrolments -> EnrolmentRow]
  /\ by_token \in [Tokens -> TokenRow]
  /\ by_device \in [Devices -> SUBSET Tokens]
  /\ challenges \in [Devices -> SUBSET ChallengeRow]
  /\ minted \in [tokens : TokenIds, challenges : ChallengeIds, enrolments : EnrolmentIds]
  /\ req \in [Workers -> Request] /\ command \in DeviceIds

\* Requests of these kinds.
Asking(kinds) == {w \in Workers : req[w].kind \in kinds}

\* There is room for what is being asked for, and nothing beyond the numbers
\* that were handed out.
Fits(handed, kinds, bound) == handed + Cardinality(Asking(kinds)) <= bound

HandedOK ==
  /\ Fits(minted.tokens, {"login", "enrol"}, MaxTokens)
  /\ Fits(minted.challenges, {"challenge"}, MaxChallenges)
  /\ Fits(minted.enrolments, {"invite"}, MaxEnrolments)
  /\ \A t \in Tokens : /\ t > minted.tokens => by_token[t] = NoSession
                       /\ by_token[t].challenge <= minted.challenges
  /\ \A d \in Devices : \A c \in challenges[d] : c.id <= minted.challenges
  /\ \A w \in Workers : req[w].challenge <= minted.challenges
  /\ \A e \in Enrolments : e > minted.enrolments => enrolments[e] = NoEnrolment

\* A request is of a device, and for one.
ReqOK ==
  \A w \in Workers :
    /\ req[w].at = "idle" => req[w] = NoRequest
    /\ req[w].at # "idle" => req[w].device \in Devices
    /\ req[w].kind = "revoke" => req[w].target \in Devices

\* The two tables of Sessions say the same.
TablesOK ==
  \A d \in Devices : /\ by_device[d] = {t \in Tokens : by_token[t].device = d}
                     /\ Cardinality(by_device[d]) <= TOKENS_PER_DEVICE

\* No device has more challenges than its share.
ChallengesOK ==
  \A d \in Devices : IsFiniteSet(challenges[d]) /\ Cardinality(challenges[d]) <= CHALLENGES_PER_DEVICE

\* A challenge is outstanding, for one device, or one request was let in with
\* it, or one session is of it.
SignedOK ==
  /\ \A t, u \in Tokens :
       by_token[t].challenge = by_token[u].challenge /\ by_token[t].challenge # 0 => t = u
  /\ \A w, v \in Workers :
       req[w].at = "spent" /\ req[v].at = "spent" /\ req[w].challenge = req[v].challenge => w = v
  /\ \A t \in Tokens, w \in Workers :
       req[w].at = "spent" /\ by_token[t].challenge = req[w].challenge => by_token[t].challenge = 0
  /\ \A d \in Devices : \A c \in challenges[d] :
       /\ \A t \in Tokens : by_token[t].challenge # c.id
       /\ \A w \in Workers : req[w].at = "spent" => req[w].challenge # c.id
       /\ \A other \in Devices \ {d} : c.id \notin Ids(challenges[other])

\* A device joined with a token that is used up, and so does one that is about
\* to; no two with the same.
JoinOK ==
  /\ \A d \in Devices : device[d].via # 0 => enrolments[device[d].via].at = "used"
  /\ \A w \in Workers : req[w].at = "redeemed" =>
       /\ req[w].enrolment \in Enrolments /\ enrolments[req[w].enrolment].at = "used"
       /\ \A d \in Devices : device[d].via # req[w].enrolment
  /\ \A w, v \in Workers :
       req[w].at = "redeemed" /\ req[v].at = "redeemed" /\ req[w].enrolment = req[v].enrolment => w = v
  /\ OneTokenOneDevice

\* One request at a time is between counting a wrong password and looking at
\* the count, and what it has counted is not yet looked at.
CountedOK ==
  /\ \A w \in Workers : req[w].at = "counted" =>
       /\ req[w].enrolment \in Enrolments
       /\ enrolments[req[w].enrolment].at = "open" => enrolments[req[w].enrolment].unsettled # 0
  /\ \A w, v \in Workers : req[w].at = "counted" /\ req[v].at = "counted" => w = v

\* A token that is open has attempts left, but for what was not looked at.
GuessOK ==
  \A e \in Enrolments :
    /\ enrolments[e].failures <= ENROLMENT_ATTEMPTS + enrolments[e].unsettled
    /\ enrolments[e].at = "open" =>
         enrolments[e].failures < ENROLMENT_ATTEMPTS + enrolments[e].unsettled

AccessInv ==
  Typed /\ HandedOK /\ ReqOK /\ TablesOK /\ ChallengesOK /\ SignedOK /\ JoinOK /\ CountedOK
  /\ GuessOK

----------------------------------------------------------------------------
(* Numbers and rows.                                                       *)

\* A set of numbers has a least one.
LEMMA LeastIs ==
  ASSUME NEW S \in SUBSET Nat, S # {}
  PROVE  \E n \in S : \A m \in S : n <= m
<1> DEFINE R == OpToRel(<, Nat)
<1>1. IsWellFoundedOn(R, Nat)
  BY NatLessThanWellFounded
<1>2. \A x, y \in Nat : x < y => <<x, y>> \in R
  BY DEF OpToRel
<1> HIDE DEF R
<1>3. PICK n \in S : \A m \in S : ~(<<m, n>> \in R)
  BY <1>1, WFMin
<1>4. \A m \in S : ~(m < n)
  BY <1>2, <1>3
<1> QED
  BY <1>4

\* The newest n of a set of tokens are no more than n.
LEMMA NewestIs ==
  ASSUME NEW S \in SUBSET Nat, IsFiniteSet(S), NEW n \in Nat
  PROVE  Newest(S, n) \subseteq S /\ IsFiniteSet(Newest(S, n)) /\ Cardinality(Newest(S, n)) <= n
<1> DEFINE N == Newest(S, n)
<1>1. N \subseteq S
  BY DEF Newest
<1>2. IsFiniteSet(N) /\ Cardinality(N) \in Nat
  BY <1>1, FS_Subset, FS_CardinalityType
<1>3. CASE N = {}
  BY <1>1, <1>2, <1>3, FS_EmptySet
<1>4. CASE N # {}
  <2>1. PICK least \in N : \A t \in N : least <= t
    BY <1>1, <1>4, LeastIs
  <2> DEFINE U == {u \in S : u > least}
  <2>2. Cardinality(U) < n
    BY <2>1 DEF Newest
  <2>3. N \ {least} \in SUBSET U
    <3>1. \A t \in N \ {least} : t \in S /\ t \in Nat /\ least \in Nat /\ least <= t /\ t # least
      BY <1>1, <2>1
    <3>2. \A t \in N \ {least} : t \in S /\ t > least
      BY <3>1
    <3> QED
      BY <3>2
  <2>4. IsFiniteSet(U) /\ Cardinality(U) \in Nat
    <3>1. U \in SUBSET S
      OBVIOUS
    <3> QED
      BY <3>1, FS_Subset, FS_CardinalityType
  <2>5. Cardinality(N \ {least}) = Cardinality(N) - 1
    BY <1>2, <2>1, FS_RemoveElement
  <2> HIDE DEF U, N
  <2>6. Cardinality(N \ {least}) <= Cardinality(U)
    BY <2>3, <2>4, FS_Subset
  <2>7. Cardinality(N) <= n
    BY <1>2, <2>2, <2>4, <2>5, <2>6
  <2> QED
    BY <1>1, <1>2, <2>7 DEF N
<1> QED
  BY <1>3, <1>4

\* Without its oldest a full set of challenges has room for one more.
LEMMA NotTheOldestIs ==
  ASSUME NEW S \in SUBSET ChallengeRow, IsFiniteSet(S), Cardinality(S) <= CHALLENGES_PER_DEVICE
  PROVE  /\ NotTheOldest(S) \subseteq S /\ IsFiniteSet(NotTheOldest(S))
         /\ Cardinality(NotTheOldest(S)) < CHALLENGES_PER_DEVICE
<1>0. CHALLENGES_PER_DEVICE \in Nat \ {0} /\ Cardinality(S) \in Nat
  BY AccessAssumption, FS_CardinalityType
<1>1. CASE Cardinality(S) >= CHALLENGES_PER_DEVICE
  <2> DEFINE K == {c \in S : \E older \in S : older.id < c.id}
             I == {c.id : c \in S}
  <2>1. I \in SUBSET Nat /\ I # {}
    <3>1. S # {}
      BY <1>0, <1>1, FS_EmptySet
    <3>2. \A c \in S : c.id \in Nat
      BY AccessAssumption DEF ChallengeRow, Challenges
    <3> QED
      BY <3>1, <3>2
  <2>2. PICK n \in I : \A m \in I : n <= m
    BY <2>1, LeastIs
  <2>3. PICK least \in S : least.id = n
    BY <2>2
  <2>4. least \notin K
    BY <2>1, <2>2, <2>3
  <2>5. K \in SUBSET (S \ {least})
    BY <2>4
  <2>6. IsFiniteSet(S \ {least}) /\ Cardinality(S \ {least}) = Cardinality(S) - 1
    BY <2>3, FS_RemoveElement
  <2>7. NotTheOldest(S) = K
    BY <1>1 DEF NotTheOldest
  <2> HIDE DEF K
  <2>8. IsFiniteSet(K) /\ Cardinality(K) <= Cardinality(S \ {least}) /\ Cardinality(K) \in Nat
    BY <2>5, <2>6, FS_Subset, FS_CardinalityType
  <2>9. Cardinality(K) < CHALLENGES_PER_DEVICE
    BY <1>0, <2>6, <2>8
  <2> QED
    BY <2>5, <2>7, <2>8, <2>9
<1>2. CASE ~(Cardinality(S) >= CHALLENGES_PER_DEVICE)
  BY <1>0, <1>2 DEF NotTheOldest
<1> QED
  BY <1>1, <1>2

\* The rows that stand for nothing, and the bounds.
LEMMA Rows ==
  /\ NoSession \in TokenRow /\ NoSession.device = Nobody /\ NoSession.challenge = 0
  /\ NoEnrolment \in EnrolmentRow /\ NoEnrolment.at = "none" /\ NoEnrolment.failures = 0
  /\ NoEnrolment.unsettled = 0
  /\ NoRequest \in Request /\ NoRequest.at = "idle" /\ NoRequest.kind = "none"
  /\ NoRequest.challenge = 0 /\ NoRequest.device = Nobody
  /\ FirstPassword \in Passwords
<1>1. FirstPassword \in Passwords
  BY AccessAssumption DEF FirstPassword
<1>2. 0 \in TokenIds /\ 0 \in ChallengeIds /\ 0 \in EnrolmentIds /\ Nobody \in DeviceIds
  BY AccessAssumption DEF TokenIds, ChallengeIds, EnrolmentIds, DeviceIds
<1> QED
  BY <1>1, <1>2 DEF NoSession, TokenRow, NoEnrolment, EnrolmentRow, NoRequest, Request, Places

\* The sets the numbers come from.
LEMMA IdSets ==
  /\ MaxTokens \in Nat /\ MaxChallenges \in Nat /\ MaxEnrolments \in Nat
  /\ Tokens \subseteq TokenIds /\ Challenges \subseteq ChallengeIds /\ Enrolments \subseteq EnrolmentIds
  /\ TokenIds \subseteq Nat /\ ChallengeIds \subseteq Nat /\ EnrolmentIds \subseteq Nat
  /\ TokenIds \ {0} = Tokens /\ ChallengeIds \ {0} = Challenges /\ EnrolmentIds \ {0} = Enrolments
  /\ IsFiniteSet(Tokens) /\ IsFiniteSet(Workers) /\ IsFiniteSet(Devices)
<1>1. IsFiniteSet(1..MaxTokens)
  BY AccessAssumption, FS_Interval
<1> QED
  BY <1>1, AccessAssumption DEF TokenIds, ChallengeIds, EnrolmentIds, Tokens, Challenges, Enrolments

----------------------------------------------------------------------------
(* Requests.                                                               *)

AnyStep == [Next \/ Command]_vars

\* A request is put in its worker's place.
LEMMA PutIs ==
  ASSUME Typed, NEW w \in Workers, NEW r \in Request, req' = [req EXCEPT ![w] = r]
  PROVE  /\ req' \in [Workers -> Request] /\ req'[w] = r
         /\ \A v \in Workers \ {w} : req'[v] = req[v]
BY DEF Typed

\* A request goes on from where it is.
LEMMA GoesIs ==
  ASSUME Typed, NEW w \in Workers, NEW a \in Places, Goes(w, a)
  PROVE  /\ req' \in [Workers -> Request] /\ req'[w] = [req[w] EXCEPT !.at = a]
         /\ req'[w].at = a /\ req'[w].kind = req[w].kind /\ req'[w].device = req[w].device
         /\ req'[w].target = req[w].target /\ req'[w].challenge = req[w].challenge
         /\ req'[w].enrolment = req[w].enrolment
         /\ \A v \in Workers \ {w} : req'[v] = req[v]
<1> DEFINE r == [req[w] EXCEPT !.at = a]
<1>1. req[w] \in Request
  BY DEF Typed
<1>2. r \in Request
  BY <1>1 DEF Request
<1>3. req' = [req EXCEPT ![w] = r]
  BY DEF Goes, Typed
<1>4. /\ r.at = a /\ r.kind = req[w].kind /\ r.device = req[w].device /\ r.target = req[w].target
      /\ r.challenge = req[w].challenge /\ r.enrolment = req[w].enrolment
  BY <1>1 DEF Request
<1> HIDE DEF r
<1>5. req' \in [Workers -> Request] /\ req'[w] = r /\ \A v \in Workers \ {w} : req'[v] = req[v]
  BY <1>2, <1>3, PutIs
<1> QED
  BY <1>4, <1>5 DEF r

\* What a step does to the requests: one is answered, goes on, or is asked.
Answers(w) == req'[w] = NoRequest
GoesOn(w) ==
  /\ req[w].at # "idle" /\ req'[w].at # "idle"
  /\ req'[w].kind = req[w].kind /\ req'[w].device = req[w].device /\ req'[w].target = req[w].target
  /\ req'[w].challenge = req[w].challenge /\ req'[w].enrolment = req[w].enrolment
  /\ req'[w].at \notin {"counted", "redeemed", "streaming"} /\ (req'[w].at = "spent" => LoginSpends(w))
  /\ UNCHANGED minted
IsAsked(w) ==
  /\ req[w].at = "idle" /\ req'[w].at \in {"known", "presented", "counted", "redeemed"}
  /\ req'[w].device \in Devices /\ req'[w].target \in DeviceIds
  /\ req'[w].kind = "revoke" => req'[w].target \in Devices
  /\ req'[w].challenge <= minted.challenges
  /\ req'[w].kind \in {"login", "enrol"} => Room(minted.tokens, {"login", "enrol"}, MaxTokens)
  /\ req'[w].kind = "challenge" => Room(minted.challenges, {"challenge"}, MaxChallenges)
  /\ req'[w].kind = "invite" => Room(minted.enrolments, {"invite"}, MaxEnrolments)
  /\ req'[w].at = "redeemed" => \E e \in Enrolments : Enrols(w, e) /\ req'[w].enrolment = e /\ Redeem(e)
  /\ req'[w].at = "counted" =>
       \E e \in Enrolments : Enrols(w, e) /\ req'[w].enrolment = e /\ CountWrong(e)
  /\ UNCHANGED minted

\* A request is asked.
LEMMA AskedIs ==
  ASSUME Typed, NEW w \in Workers, Asked(w)
  PROVE  /\ req' \in [Workers -> Request] /\ \A v \in Workers \ {w} : req'[v] = req[v]
         /\ IsAsked(w)
<1>0. /\ minted.tokens \in TokenIds /\ minted.challenges \in ChallengeIds
      /\ minted.challenges \in Nat /\ 0 <= minted.challenges
      /\ NoRequest \in Request /\ NoRequest.target = Nobody /\ NoRequest.challenge = 0
  <2>1. minted.tokens \in TokenIds /\ minted.challenges \in ChallengeIds
    BY DEF Typed
  <2>2. minted.challenges \in Nat
    BY <2>1, IdSets
  <2>3. NoRequest.target = Nobody
    BY DEF NoRequest
  <2> QED
    BY <2>1, <2>2, <2>3, Rows
<1>1. ASSUME NEW d \in Devices, ChallengeAsked(w, d)
      PROVE  /\ req' \in [Workers -> Request] /\ \A v \in Workers \ {w} : req'[v] = req[v]
             /\ IsAsked(w)
  <2> DEFINE r == [NoRequest EXCEPT !.at = "known", !.kind = "challenge", !.device = d]
  <2>1. /\ r \in Request /\ r.at = "known" /\ r.kind = "challenge" /\ r.device = d
        /\ r.challenge = 0 /\ r.target \in DeviceIds
    BY <1>0 DEF Request, Places, DeviceIds
  <2>2. req' = [req EXCEPT ![w] = r]
    BY <1>1 DEF ChallengeAsked
  <2> HIDE DEF r
  <2>3. /\ req' \in [Workers -> Request] /\ req'[w] = r
        /\ \A v \in Workers \ {w} : req'[v] = req[v]
    BY <2>1, <2>2, PutIs
  <2> QED
    BY <1>0, <1>1, <2>1, <2>3 DEF ChallengeAsked, IsAsked
<1>2. ASSUME NEW d \in Devices, LoginLooksUp(w, d)
      PROVE  /\ req' \in [Workers -> Request] /\ \A v \in Workers \ {w} : req'[v] = req[v]
             /\ IsAsked(w)
  <2>1. PICK c \in 1..minted.challenges :
          req' = [req EXCEPT ![w] = [NoRequest EXCEPT !.at = "known", !.kind = "login",
                                                      !.device = d, !.challenge = c]]
    BY <1>2 DEF LoginLooksUp
  <2>2. c \in ChallengeIds /\ c <= minted.challenges
    BY <1>0, <2>1, IdSets DEF ChallengeIds
  <2> DEFINE r == [NoRequest EXCEPT !.at = "known", !.kind = "login", !.device = d, !.challenge = c]
  <2>3. /\ r \in Request /\ r.at = "known" /\ r.kind = "login" /\ r.device = d
        /\ r.challenge = c /\ r.target \in DeviceIds
    BY <1>0, <2>2 DEF Request, Places, DeviceIds
  <2>4. req' = [req EXCEPT ![w] = r]
    BY <2>1
  <2> HIDE DEF r
  <2>5. /\ req' \in [Workers -> Request] /\ req'[w] = r
        /\ \A v \in Workers \ {w} : req'[v] = req[v]
    BY <2>3, <2>4, PutIs
  <2> QED
    BY <1>2, <2>2, <2>3, <2>5 DEF LoginLooksUp, IsAsked
<1>3. ASSUME NEW t \in Tokens, Presented(w, t)
      PROVE  /\ req' \in [Workers -> Request] /\ \A v \in Workers \ {w} : req'[v] = req[v]
             /\ IsAsked(w)
  <2>1. PICK kind \in Kinds \cap WithToken, target \in Devices, proof \in Passwords :
          /\ kind = "invite" => Room(minted.enrolments, {"invite"}, MaxEnrolments)
          /\ req' = [req EXCEPT ![w] =
               [NoRequest EXCEPT !.at = "presented", !.kind = kind, !.token = t,
                                 !.device = by_token[t].device, !.target = target,
                                 !.proof = proof]]
    BY <1>3 DEF Presented
  <2>2. by_token[t].device \in Devices /\ t \in TokenIds
    BY <1>3, IdSets DEF Presented, Good, Typed, TokenRow, DeviceIds
  <2> DEFINE r == [NoRequest EXCEPT !.at = "presented", !.kind = kind, !.token = t,
                                    !.device = by_token[t].device, !.target = target,
                                    !.proof = proof]
  <2>3. /\ r \in Request /\ r.at = "presented" /\ r.kind = kind /\ r.device = by_token[t].device
        /\ r.challenge = 0 /\ r.target = target
    BY <1>0, <2>2 DEF Request, Places, DeviceIds
  <2>4. req' = [req EXCEPT ![w] = r]
    BY <2>1
  <2> HIDE DEF r
  <2>5. /\ req' \in [Workers -> Request] /\ req'[w] = r
        /\ \A v \in Workers \ {w} : req'[v] = req[v]
    BY <2>3, <2>4, PutIs
  <2>6. kind \in WithToken /\ target \in DeviceIds
    BY DEF DeviceIds
  <2> QED
    BY <1>0, <1>3, <2>1, <2>2, <2>3, <2>5, <2>6 DEF Presented, IsAsked, WithToken
<1>4. ASSUME NEW e \in Enrolments, Enrols(w, e)
      PROVE  /\ req' \in [Workers -> Request] /\ \A v \in Workers \ {w} : req'[v] = req[v]
             /\ IsAsked(w)
  <2>1. PICK d \in Unnamed, at \in {"counted", "redeemed"} :
          /\ at = "counted" => CountWrong(e)
          /\ at = "redeemed" => Redeem(e)
          /\ req' = [req EXCEPT ![w] = Enrolling(at, d, e)]
    BY <1>4 DEF Enrols
  <2>2. d \in Devices /\ e \in EnrolmentIds
    BY IdSets DEF Unnamed
  <2> DEFINE r == Enrolling(at, d, e)
  <2>3. /\ r \in Request /\ r.at = at /\ r.kind = "enrol" /\ r.device = d
        /\ r.challenge = 0 /\ r.target \in DeviceIds /\ r.enrolment = e
    BY <1>0, <2>2 DEF Enrolling, Request, Places, DeviceIds
  <2>4. req' = [req EXCEPT ![w] = r]
    BY <2>1
  <2> HIDE DEF r
  <2>5. /\ req' \in [Workers -> Request] /\ req'[w] = r
        /\ \A v \in Workers \ {w} : req'[v] = req[v]
    BY <2>3, <2>4, PutIs
  <2> QED
    BY <1>0, <1>4, <2>1, <2>2, <2>3, <2>5 DEF Enrols, IsAsked
<1> QED
  BY <1>1, <1>2, <1>3, <1>4 DEF Asked

\* A request is worked on.
LEMMA WorkIs ==
  ASSUME Typed, NEW w \in Workers, Work(w)
  PROVE  /\ req' \in [Workers -> Request] /\ \A v \in Workers \ {w} : req'[v] = req[v]
         /\ GoesOn(w) \/ Answers(w)
<1>1. ASSUME Done(w)
      PROVE  /\ req' \in [Workers -> Request] /\ \A v \in Workers \ {w} : req'[v] = req[v]
             /\ Answers(w)
  BY <1>1, Rows, PutIs DEF Done, Answers
<1>2. ASSUME NEW a \in {"found", "spent", "in", "proved", "marked", "dropped", "admitted"}, Goes(w, a),
             req[w].at # "idle", a = "spent" => LoginSpends(w), UNCHANGED minted
      PROVE  /\ req' \in [Workers -> Request] /\ \A v \in Workers \ {w} : req'[v] = req[v]
             /\ GoesOn(w)
  <2>1. a \in Places /\ a # "idle" /\ a \notin {"counted", "redeemed", "streaming"}
    BY DEF Places
  <2> QED
    BY <1>2, <2>1, GoesIs DEF GoesOn
<1>3. CASE \/ ChallengeIssued(w) \/ LoginIssues(w) \/ TurnedAway(w) \/ PasswordChanged(w)
           \/ Invited(w) \/ EnrolFails(w) \/ EnrolIssues(w) \/ RevokeRefused(w) \/ RevokeDropsTokens(w)
  BY <1>1, <1>3 DEF ChallengeIssued, LoginIssues, TurnedAway, PasswordChanged, Invited, EnrolFails,
                    EnrolIssues, RevokeRefused, RevokeDropsTokens
<1>4. CASE LoginFinds(w)
  BY <1>1, <1>2, <1>4 DEF LoginFinds, At
<1>5. CASE LoginSpends(w)
  BY <1>1, <1>2, <1>5 DEF LoginSpends, At
<1>6. CASE Authenticated(w)
  BY <1>2, <1>6 DEF Authenticated
<1>7. CASE Proves(w)
  BY <1>1, <1>2, <1>7 DEF Proves
<1>8. CASE EnrolAdds(w) \/ RevokeDropsEnrolments(w)
  BY <1>2, <1>8 DEF EnrolAdds, RevokeDropsEnrolments, At
<1>9. CASE RevokeMarks(w)
  <2>1. req[w].at # "idle"
    BY <1>9 DEF RevokeMarks, MayRevoke
  <2> QED
    BY <1>2, <1>9, <2>1 DEF RevokeMarks
<1> QED
  BY <1>3, <1>4, <1>5, <1>6, <1>7, <1>8, <1>9 DEF Work

\* What any step does to the requests.
Moves(w) == /\ \A v \in Workers \ {w} : req'[v] = req[v]
            /\ IsAsked(w) \/ GoesOn(w) \/ (Answers(w) /\ (Work(w) \/ StatementFails(w)))

\* A step moves at most one request, or ends them all.
LEMMA RequestsMove ==
  ASSUME Typed, AnyStep
  PROVE  /\ req' \in [Workers -> Request]
         /\ \/ UNCHANGED <<req, minted>>
            \/ (\A w \in Workers : req'[w] = NoRequest) /\ UNCHANGED minted
            \/ \E w \in Workers : Moves(w)
<1>1. CASE \E w \in Workers : Work(w)
  BY <1>1, WorkIs DEF Moves
<1>2. CASE \E w \in Workers : Asked(w)
  BY <1>2, AskedIs DEF Moves
<1>5. CASE \E w \in Workers : StatementFails(w)
  BY <1>5, Rows, PutIs DEF StatementFails, Done, Answers, Moves
<1>3. CASE Expiry \/ Sweep \/ Command \/ UNCHANGED vars
  <2>1. UNCHANGED <<req, minted>>
    BY <1>3 DEF Expiry, TokenExpires, EnrolmentExpires, ChallengesExpire, Sweep, Command, CommandRevokes,
                CommandDropsEnrolments, vars
  <2> QED
    BY <2>1 DEF Typed
<1>4. CASE Restart
  BY <1>4, Rows DEF Restart
<1> QED
  BY <1>1, <1>2, <1>3, <1>4, <1>5 DEF AnyStep, Next, Step

\* Requests stay of devices.
LEMMA ReqKept ==
  ASSUME Typed, ReqOK, AnyStep
  PROVE  ReqOK'
<1> USE DEF ReqOK
<1>1. CASE UNCHANGED req
  BY <1>1
<1>2. CASE \A w \in Workers : req'[w] = NoRequest
  BY <1>2, Rows
<1>3. ASSUME NEW w \in Workers, \A v \in Workers \ {w} : req'[v] = req[v],
             IsAsked(w) \/ GoesOn(w) \/ Answers(w)
      PROVE  ReqOK'
  <2>1. /\ req'[w].at = "idle" => req'[w] = NoRequest
        /\ req'[w].at # "idle" => req'[w].device \in Devices
        /\ req'[w].kind = "revoke" => req'[w].target \in Devices
    BY <1>3, Rows DEF IsAsked, GoesOn, Answers
  <2> QED
    BY <1>3, <2>1
<1> QED
  BY <1>1, <1>2, <1>3, RequestsMove DEF Moves

----------------------------------------------------------------------------
(* Numbers handed out.                                                     *)

\* Fewer requests, one more, or one answered, of some kinds.
LEMMA AskingMoves ==
  ASSUME Typed, NEW K
  PROVE  /\ Cardinality(Asking(K)) \in Nat /\ Cardinality(Asking(K)') \in Nat
         /\ Asking(K)' \subseteq Asking(K) => Cardinality(Asking(K)') <= Cardinality(Asking(K))
         /\ \A w \in Workers :
              /\ Asking(K)' \subseteq Asking(K) \cup {w}
                   => Cardinality(Asking(K)') <= Cardinality(Asking(K)) + 1
              /\ Asking(K)' \subseteq Asking(K) \ {w} /\ w \in Asking(K)
                   => Cardinality(Asking(K)') <= Cardinality(Asking(K)) - 1
<1>1. PICK A, B : A = Asking(K) /\ B = Asking(K)'
  OBVIOUS
<1>2. A \in SUBSET Workers /\ B \in SUBSET Workers
  BY <1>1 DEF Asking
<1>3. IsFiniteSet(A) /\ IsFiniteSet(B) /\ Cardinality(A) \in Nat /\ Cardinality(B) \in Nat
  BY <1>2, IdSets, FS_Subset, FS_CardinalityType
<1>4. B \subseteq A => Cardinality(B) <= Cardinality(A)
  BY <1>3, FS_Subset
<1>5. ASSUME NEW w \in Workers, B \subseteq A \cup {w}
      PROVE  Cardinality(B) <= Cardinality(A) + 1
  <2>1. IsFiniteSet(A \cup {w}) /\ Cardinality(A \cup {w}) <= Cardinality(A) + 1
    <3>1. IsFiniteSet(A \cup {w})
      BY <1>3, FS_AddElement
    <3>2. \/ Cardinality(A \cup {w}) = Cardinality(A)
          \/ Cardinality(A \cup {w}) = Cardinality(A) + 1
      BY <1>3, FS_AddElement
    <3> QED
      BY <1>3, <3>1, <3>2
  <2>2. Cardinality(A \cup {w}) \in Nat /\ Cardinality(B) <= Cardinality(A \cup {w})
    BY <1>5, <2>1, FS_Subset, FS_CardinalityType
  <2> QED
    BY <1>3, <2>1, <2>2
<1>6. ASSUME NEW w \in Workers, B \subseteq A \ {w}, w \in A
      PROVE  Cardinality(B) <= Cardinality(A) - 1
  <2>1. IsFiniteSet(A \ {w}) /\ Cardinality(A \ {w}) = Cardinality(A) - 1
    BY <1>3, <1>6, FS_RemoveElement
  <2> QED
    BY <1>6, <2>1, FS_Subset
<1> QED
  BY <1>1, <1>3, <1>4, <1>5, <1>6, Zenon

\* Who asks for what, after a step.
LEMMA WhoAsks ==
  ASSUME Typed, ReqOK, AnyStep, NEW K, "none" \notin K
  PROVE  \/ Asking(K)' \subseteq Asking(K) /\ UNCHANGED minted
         \/ \E w \in Workers : IsAsked(w) /\ req'[w].kind \in K /\ Asking(K)' \subseteq Asking(K) \cup {w}
         \/ \E w \in Workers : Answers(w) /\ Work(w) /\ Asking(K)' \subseteq Asking(K) \ {w}
<1>1. CASE UNCHANGED <<req, minted>>
  BY <1>1 DEF Asking
<1>2. CASE (\A w \in Workers : req'[w] = NoRequest) /\ UNCHANGED minted
  <2>1. Asking(K)' = {}
    BY <1>2, Rows DEF Asking
  <2> QED
    BY <1>2, <2>1
<1>3. ASSUME NEW w \in Workers, \A v \in Workers \ {w} : req'[v] = req[v], IsAsked(w)
      PROVE  \/ Asking(K)' \subseteq Asking(K) /\ UNCHANGED minted
             \/ req'[w].kind \in K /\ Asking(K)' \subseteq Asking(K) \cup {w}
  BY <1>3 DEF Asking, IsAsked
<1>4. ASSUME NEW w \in Workers, \A v \in Workers \ {w} : req'[v] = req[v], GoesOn(w)
      PROVE  Asking(K)' \subseteq Asking(K) /\ UNCHANGED minted
  BY <1>4 DEF Asking, GoesOn
<1>5. ASSUME NEW w \in Workers, \A v \in Workers \ {w} : req'[v] = req[v], Answers(w)
      PROVE  Asking(K)' \subseteq Asking(K) \ {w}
  BY <1>5, Rows DEF Asking, Answers
<1>6. ASSUME NEW w \in Workers, StatementFails(w)
      PROVE  UNCHANGED minted
  BY <1>6 DEF StatementFails
<1> QED
  BY <1>1, <1>2, <1>3, <1>4, <1>5, <1>6, RequestsMove DEF Moves

\* What is handed out when a request is answered.
Numbers == [tokens : Nat, challenges : Nat, enrolments : Nat]
Handed(n, m, kinds, w) == m = n \/ (m = n + 1 /\ req[w].kind \in kinds)

\* An answer hands out at most one number of each kind.
LEMMA AnswersHandOut ==
  ASSUME Typed, NEW w \in Workers, Work(w), Answers(w), ReqOK
  PROVE  /\ Handed(minted.tokens, minted'.tokens, {"login", "enrol"}, w)
         /\ Handed(minted.challenges, minted'.challenges, {"challenge"}, w)
         /\ Handed(minted.enrolments, minted'.enrolments, {"invite"}, w)
         /\ minted' \in Numbers
<1> DEFINE m == minted
<1>0. m \in [tokens : TokenIds, challenges : ChallengeIds, enrolments : EnrolmentIds]
  BY DEF Typed
<1>9. TokenIds \subseteq Nat /\ ChallengeIds \subseteq Nat /\ EnrolmentIds \subseteq Nat
  BY IdSets
<1>1. CASE LoginIssues(w) \/ EnrolIssues(w)
  <2>1. minted' = [m EXCEPT !.tokens = m.tokens + 1] /\ req[w].kind \in {"login", "enrol"}
    BY <1>1 DEF LoginIssues, EnrolIssues, Issue, At
  <2> HIDE DEF m
  <2>2. /\ minted'.tokens = m.tokens + 1 /\ minted'.challenges = m.challenges
        /\ minted'.enrolments = m.enrolments /\ minted' \in Numbers
    BY <1>0, <1>9, <2>1 DEF Numbers
  <2> QED
    BY <2>1, <2>2 DEF m, Handed
<1>2. CASE ChallengeIssued(w)
  <2>1. minted' = [m EXCEPT !.challenges = m.challenges + 1] /\ req[w].kind = "challenge"
    BY <1>2 DEF ChallengeIssued, At
  <2> HIDE DEF m
  <2>2. /\ minted'.tokens = m.tokens /\ minted'.challenges = m.challenges + 1
        /\ minted'.enrolments = m.enrolments /\ minted' \in Numbers
    BY <1>0, <1>9, <2>1 DEF Numbers
  <2> QED
    BY <2>1, <2>2 DEF m, Handed
<1>3. CASE Invited(w)
  <2>1. minted' = [m EXCEPT !.enrolments = m.enrolments + 1] /\ req[w].kind = "invite"
    BY <1>3 DEF Invited, At
  <2> HIDE DEF m
  <2>2. /\ minted'.tokens = m.tokens /\ minted'.challenges = m.challenges
        /\ minted'.enrolments = m.enrolments + 1 /\ minted' \in Numbers
    BY <1>0, <1>9, <2>1 DEF Numbers
  <2> QED
    BY <2>1, <2>2 DEF m, Handed
<1>4. CASE ~(LoginIssues(w) \/ EnrolIssues(w) \/ ChallengeIssued(w) \/ Invited(w))
  <2>1. UNCHANGED minted
    BY <1>4 DEF Work, LoginFinds, LoginSpends, Authenticated, TurnedAway, Proves, PasswordChanged,
                EnrolFails, EnrolAdds, RevokeRefused, RevokeMarks, RevokeDropsEnrolments, RevokeDropsTokens
  <2> QED
    BY <1>0, <1>9, <2>1 DEF Handed, Numbers
<1> QED
  BY <1>1, <1>2, <1>3, <1>4

\* There stays room for what is asked for, of one number.
LEMMA RoomKept ==
  ASSUME Typed, ReqOK, AnyStep, NEW K, "none" \notin K, NEW n \in Nat, NEW m \in Nat, NEW bound \in Nat,
         Fits(n, K, bound),
         UNCHANGED minted => m = n,
         \A w \in Workers : IsAsked(w) /\ req'[w].kind \in K => Room(n, K, bound) /\ m = n,
         \A w \in Workers : Answers(w) /\ Work(w) => Handed(n, m, K, w)
  PROVE  m + Cardinality(Asking(K)') <= bound
<1>1. PICK a \in Nat, b \in Nat : a = Cardinality(Asking(K)) /\ b = Cardinality(Asking(K)')
  BY AskingMoves
<1>2. n + a <= bound
  BY <1>1 DEF Fits
<1>3. CASE Asking(K)' \subseteq Asking(K) /\ UNCHANGED minted
  <2>1. b <= a
    BY <1>1, <1>3, AskingMoves, Zenon
  <2> QED
    BY <1>1, <1>2, <1>3, <2>1
<1>4. ASSUME NEW w \in Workers, IsAsked(w), req'[w].kind \in K, Asking(K)' \subseteq Asking(K) \cup {w}
      PROVE  m + Cardinality(Asking(K)') <= bound
  <2>1. b <= a + 1
    BY <1>1, <1>4, AskingMoves, Zenon
  <2>2. n + a < bound /\ m = n
    BY <1>1, <1>4 DEF Room, Asking
  <2> QED
    BY <1>1, <2>1, <2>2
<1>5. ASSUME NEW w \in Workers, Answers(w), Work(w), Asking(K)' \subseteq Asking(K) \ {w}
      PROVE  m + Cardinality(Asking(K)') <= bound
  <2>1. b <= a
    <3>1. Asking(K)' \subseteq Asking(K)
      BY <1>5
    <3> QED
      BY <1>1, <3>1, AskingMoves, Zenon
  <2>2. CASE m = n
    BY <1>1, <1>2, <2>1, <2>2
  <2>3. CASE m = n + 1 /\ req[w].kind \in K
    <3>1. w \in Asking(K)
      BY <2>3 DEF Asking
    <3>2. b <= a - 1
      BY <1>1, <1>5, <3>1, AskingMoves, Zenon
    <3> QED
      BY <1>1, <1>2, <2>3, <3>2
  <2> QED
    BY <1>5, <2>2, <2>3 DEF Handed
<1> QED
  BY <1>3, <1>4, <1>5, WhoAsks

\* The numbers that are used up, of the three kinds.
LEMMA MintedMoves ==
  ASSUME AccessInv, AnyStep
  PROVE  /\ minted' \in [tokens : TokenIds, challenges : ChallengeIds, enrolments : EnrolmentIds]
         /\ Fits(minted.tokens, {"login", "enrol"}, MaxTokens)'
         /\ Fits(minted.challenges, {"challenge"}, MaxChallenges)'
         /\ Fits(minted.enrolments, {"invite"}, MaxEnrolments)'
         /\ minted.tokens <= minted'.tokens /\ minted.challenges <= minted'.challenges
         /\ minted.enrolments <= minted'.enrolments
<1>1. /\ Typed /\ ReqOK /\ HandedOK
      /\ MaxTokens \in Nat /\ MaxChallenges \in Nat /\ MaxEnrolments \in Nat
  BY IdSets DEF AccessInv
<1>2. minted \in Numbers
  BY <1>1, IdSets DEF Typed, Numbers
<1>3. minted' \in Numbers
  BY <1>1, <1>2, RequestsMove, AnswersHandOut DEF Moves, IsAsked, GoesOn, StatementFails
<1>4. PICK n \in Numbers, m \in Numbers : n = minted /\ m = minted'
  BY <1>2, <1>3
<1>5. UNCHANGED minted => m = n
  BY <1>4
<1>6. ASSUME NEW w \in Workers, IsAsked(w)
      PROVE  /\ m = n
             /\ req'[w].kind \in {"login", "enrol"} => Room(n.tokens, {"login", "enrol"}, MaxTokens)
             /\ req'[w].kind \in {"challenge"} => Room(n.challenges, {"challenge"}, MaxChallenges)
             /\ req'[w].kind \in {"invite"} => Room(n.enrolments, {"invite"}, MaxEnrolments)
  BY <1>4, <1>6 DEF IsAsked
<1>7. ASSUME NEW w \in Workers, Answers(w), Work(w)
      PROVE  /\ Handed(n.tokens, m.tokens, {"login", "enrol"}, w)
             /\ Handed(n.challenges, m.challenges, {"challenge"}, w)
             /\ Handed(n.enrolments, m.enrolments, {"invite"}, w)
  BY <1>1, <1>4, <1>7, AnswersHandOut
<1>8. /\ n.tokens \in Nat /\ n.challenges \in Nat /\ n.enrolments \in Nat
      /\ m.tokens \in Nat /\ m.challenges \in Nat /\ m.enrolments \in Nat
  BY DEF Numbers
<1>9. /\ Fits(n.tokens, {"login", "enrol"}, MaxTokens) /\ Fits(n.challenges, {"challenge"}, MaxChallenges)
      /\ Fits(n.enrolments, {"invite"}, MaxEnrolments)
  BY <1>1, <1>4 DEF HandedOK
<1>10. m.tokens + Cardinality(Asking({"login", "enrol"})') <= MaxTokens
  BY <1>1, <1>5, <1>6, <1>7, <1>8, <1>9, RoomKept
<1>11. m.challenges + Cardinality(Asking({"challenge"})') <= MaxChallenges
  BY <1>1, <1>5, <1>6, <1>7, <1>8, <1>9, RoomKept
<1>12. m.enrolments + Cardinality(Asking({"invite"})') <= MaxEnrolments
  BY <1>1, <1>5, <1>6, <1>7, <1>8, <1>9, RoomKept
<1>13. n.tokens <= m.tokens /\ n.challenges <= m.challenges /\ n.enrolments <= m.enrolments
  <2>1. \/ m = n
        \/ \E w \in Workers : Answers(w) /\ Work(w)
    BY <1>1, <1>5, <1>6, RequestsMove DEF Moves, GoesOn, StatementFails
  <2> QED
    BY <1>7, <1>8, <2>1 DEF Handed
<1>14. m.tokens \in TokenIds /\ m.challenges \in ChallengeIds /\ m.enrolments \in EnrolmentIds
  <2>1. PICK a \in Nat, b \in Nat, c \in Nat :
          /\ a = Cardinality(Asking({"login", "enrol"})') /\ b = Cardinality(Asking({"challenge"})')
          /\ c = Cardinality(Asking({"invite"})')
    BY <1>1, AskingMoves
  <2>2. m.tokens + a <= MaxTokens /\ m.challenges + b <= MaxChallenges /\ m.enrolments + c <= MaxEnrolments
    BY <1>10, <1>11, <1>12, <2>1
  <2> QED
    BY <1>1, <1>8, <2>1, <2>2 DEF TokenIds, ChallengeIds, EnrolmentIds
<1>15. m \in [tokens : TokenIds, challenges : ChallengeIds, enrolments : EnrolmentIds]
  BY <1>14 DEF Numbers
<1> QED
  BY <1>4, <1>10, <1>11, <1>12, <1>13, <1>15, Zenon DEF Fits

----------------------------------------------------------------------------
(* Sessions.                                                               *)

\* What a token becomes: it goes, stays, or expires.
Lasts(t) ==
  \/ by_token'[t] = NoSession
  \/ by_token'[t] = by_token[t]
  \/ /\ by_token[t].device # Nobody
     /\ by_token'[t].device = by_token[t].device /\ by_token'[t].challenge = by_token[t].challenge

\* A token is handed out.
LEMMA IssueIs ==
  ASSUME Typed, TablesOK, NEW d \in Devices, NEW c \in ChallengeIds, Issue(d, c),
         NEW n \in Tokens, n = minted.tokens + 1, by_token[n] = NoSession
  PROVE  /\ by_token' \in [Tokens -> TokenRow] /\ by_device' \in [Devices -> SUBSET Tokens]
         /\ by_token'[n].device = d /\ by_token'[n].challenge = c
         /\ \A t \in Tokens \ {n} : Lasts(t)
         /\ TablesOK'
<1> DEFINE live == {t \in by_device[d] : Good(t)}
           kept == Newest(live, TOKENS_PER_DEVICE - 1)
           row == [device |-> d, challenge |-> c, expired |-> FALSE]
<1>1. /\ row \in TokenRow /\ row.device = d /\ row.challenge = c /\ d # Nobody
  BY AccessAssumption DEF TokenRow, DeviceIds
<1>2. /\ by_device' = [by_device EXCEPT ![d] = kept \cup {n}]
      /\ by_token' = [t \in Tokens |-> IF t = n THEN row
                                       ELSE IF t \in by_device[d] \ kept THEN NoSession
                                       ELSE by_token[t]]
  BY DEF Issue
<1>3. /\ by_token \in [Tokens -> TokenRow] /\ by_device \in [Devices -> SUBSET Tokens]
      /\ NoSession \in TokenRow /\ NoSession.device = Nobody
  BY Rows DEF Typed
<1>4. /\ kept \subseteq by_device[d] /\ IsFiniteSet(kept)
      /\ Cardinality(kept) <= TOKENS_PER_DEVICE - 1
  <2>1. TOKENS_PER_DEVICE - 1 \in Nat
    BY AccessAssumption
  <2>2. live \in SUBSET by_device[d] /\ live \in SUBSET Nat /\ live \in SUBSET Tokens
    BY <1>3, IdSets
  <2>3. IsFiniteSet(live)
    BY <2>2, IdSets, FS_Subset
  <2> HIDE DEF live
  <2> QED
    BY <2>1, <2>2, <2>3, NewestIs
<1> HIDE DEF live, kept, row
<1>5. by_token' \in [Tokens -> TokenRow] /\ by_device' \in [Devices -> SUBSET Tokens]
  BY <1>1, <1>2, <1>3, <1>4
<1>6. by_token'[n] = row /\ \A t \in Tokens \ {n} : by_token'[t] = NoSession \/ by_token'[t] = by_token[t]
  BY <1>2
<1>7. ASSUME NEW e \in Devices
      PROVE  by_device'[e] = {t \in Tokens : by_token'[t].device = e}
  <2>1. \A t \in Tokens : t \in by_device[e] <=> by_token[t].device = e
    BY DEF TablesOK
  <2>2. \A t \in Tokens : t \in by_device[d] <=> by_token[t].device = d
    BY DEF TablesOK
  <2>3. e # Nobody
    BY AccessAssumption
  <2>4. ASSUME NEW t \in Tokens
        PROVE  t \in by_device'[e] <=> by_token'[t].device = e
    <3>1. CASE e = d
      <4>1. t \in by_device'[e] <=> t \in kept \/ t = n
        BY <1>2, <1>3, <3>1
      <4>2. t \in kept => t # n /\ by_token[t].device = d
        BY <1>3, <1>4, <2>2, <1>1
      <4> QED
        BY <1>1, <1>2, <1>3, <2>2, <3>1, <4>1, <4>2
    <3>2. CASE e # d
      <4>1. t \in by_device'[e] <=> t \in by_device[e]
        BY <1>2, <1>3, <3>2
      <4>2. t = n => t \notin by_device[e]
        BY <1>3, <2>1, <2>3
      <4> QED
        BY <1>1, <1>2, <1>3, <2>1, <2>2, <2>3, <3>2, <4>1, <4>2
    <3> QED
      BY <3>1, <3>2
  <2> QED
    BY <1>5, <2>4
<1>8. ASSUME NEW e \in Devices
      PROVE  Cardinality(by_device'[e]) <= TOKENS_PER_DEVICE
  <2>1. CASE e = d
    <3>1. by_device'[e] = kept \cup {n}
      BY <1>2, <1>3, <2>1
    <3>2. n \notin kept
      BY <1>1, <1>3, <1>4 DEF TablesOK
    <3>3. Cardinality(kept \cup {n}) = Cardinality(kept) + 1
      BY <1>4, <3>2, FS_AddElement
    <3>4. Cardinality(kept) \in Nat
      BY <1>4, FS_CardinalityType
    <3>5. Cardinality(kept \cup {n}) <= TOKENS_PER_DEVICE
      BY <1>4, <3>3, <3>4, AccessAssumption
    <3> QED
      BY <3>1, <3>5
  <2>2. CASE e # d
    BY <1>2, <1>3, <2>2 DEF TablesOK
  <2> QED
    BY <2>1, <2>2
<1>9. TablesOK'
  BY <1>7, <1>8 DEF TablesOK
<1> QED
  BY <1>1, <1>5, <1>6, <1>9 DEF Lasts

\* There is room for the token of a request that is let in.
LEMMA RoomForToken ==
  ASSUME AccessInv, NEW w \in Workers, req[w].kind \in {"login", "enrol"}
  PROVE  minted.tokens + 1 \in Tokens /\ by_token[minted.tokens + 1] = NoSession
<1> DEFINE A == Asking({"login", "enrol"})
<1>1. w \in A /\ A \in SUBSET Workers
  BY DEF Asking
<1>2. PICK a \in Nat : a = Cardinality(A) /\ a # 0
  <2>1. IsFiniteSet(A)
    BY <1>1, IdSets, FS_Subset
  <2> QED
    BY <1>1, <2>1, FS_CardinalityType, FS_EmptySet
<1>3. PICK n \in Nat : n = minted.tokens
  BY IdSets DEF AccessInv, Typed
<1>4. n + a <= MaxTokens /\ MaxTokens \in Nat
  BY <1>2, <1>3, IdSets DEF AccessInv, HandedOK, Fits
<1>5. n + 1 \in Tokens /\ n + 1 > n
  BY <1>2, <1>4 DEF Tokens
<1> QED
  BY <1>3, <1>5 DEF AccessInv, HandedOK

\* A device's tokens go.
LEMMA DropIs ==
  ASSUME Typed, TablesOK, NEW d \in Devices, DropDevice(d)
  PROVE  /\ by_token' \in [Tokens -> TokenRow] /\ by_device' \in [Devices -> SUBSET Tokens]
         /\ \A t \in Tokens : Lasts(t)
         /\ TablesOK'
<1>1. /\ by_token \in [Tokens -> TokenRow] /\ by_device \in [Devices -> SUBSET Tokens]
      /\ NoSession \in TokenRow /\ NoSession.device = Nobody /\ Nobody \notin Devices
  BY Rows, AccessAssumption DEF Typed
<1>2. /\ by_token' \in [Tokens -> TokenRow] /\ by_device' \in [Devices -> SUBSET Tokens]
      /\ \A t \in Tokens : by_token'[t] = IF t \in by_device[d] THEN NoSession ELSE by_token[t]
      /\ \A e \in Devices : by_device'[e] = IF e = d THEN {} ELSE by_device[e]
  BY <1>1 DEF DropDevice
<1>3. ASSUME NEW e \in Devices
      PROVE  by_device'[e] = {t \in Tokens : by_token'[t].device = e}
  BY <1>1, <1>2 DEF TablesOK
<1>4. ASSUME NEW e \in Devices
      PROVE  Cardinality(by_device'[e]) <= TOKENS_PER_DEVICE
  <2>1. Cardinality({}) = 0 /\ TOKENS_PER_DEVICE \in Nat
    BY FS_EmptySet, AccessAssumption
  <2>2. by_device'[e] = {} \/ by_device'[e] = by_device[e]
    BY <1>2
  <2>3. PICK A, B : A = by_device[e] /\ B = by_device'[e]
    OBVIOUS
  <2>4. Cardinality(A) <= TOKENS_PER_DEVICE
    BY <2>3 DEF TablesOK
  <2>5. CASE B = {}
    BY <2>1, <2>3, <2>5
  <2>6. CASE B = A
    BY <2>3, <2>4, <2>6
  <2> QED
    BY <2>2, <2>3, <2>5, <2>6
<1> QED
  BY <1>2, <1>3, <1>4 DEF Lasts, TablesOK

\* Tokens only go, or expire, but for the one that may be handed out.
GivesToken(w) ==
  /\ LoginIssues(w) \/ EnrolIssues(w)
  /\ \E n \in Tokens :
       /\ n = minted.tokens + 1 /\ minted'.tokens = n
       /\ by_token'[n].challenge = IF req[w].kind = "login" THEN req[w].challenge ELSE 0
       /\ \A t \in Tokens \ {n} : Lasts(t)

\* What any step does to the sessions.
LEMMA SessionsMove ==
  ASSUME AccessInv, AnyStep
  PROVE  /\ by_token' \in [Tokens -> TokenRow] /\ by_device' \in [Devices -> SUBSET Tokens]
         /\ TablesOK'
         /\ \/ \A t \in Tokens : Lasts(t)
            \/ \E w \in Workers : GivesToken(w)
<1>0. /\ Typed /\ TablesOK /\ ReqOK
      /\ by_token \in [Tokens -> TokenRow] /\ by_device \in [Devices -> SUBSET Tokens]
      /\ NoSession \in TokenRow /\ NoSession.device = Nobody /\ Nobody \notin Devices
      /\ 0 \in ChallengeIds
  BY Rows, AccessAssumption DEF AccessInv, Typed, ChallengeIds
<1>1. ASSUME NEW w \in Workers, LoginIssues(w) \/ EnrolIssues(w)
      PROVE  /\ by_token' \in [Tokens -> TokenRow] /\ by_device' \in [Devices -> SUBSET Tokens]
             /\ TablesOK' /\ GivesToken(w)
  <2>1. req[w].kind \in {"login", "enrol"} /\ req[w].at # "idle"
    BY <1>1 DEF LoginIssues, EnrolIssues, At
  <2>2. PICK n \in Tokens : n = minted.tokens + 1 /\ by_token[n] = NoSession
    BY <2>1, RoomForToken
  <2>3. PICK d \in Devices : d = req[w].device
    BY <1>0, <2>1 DEF ReqOK
  <2>4. PICK c \in ChallengeIds : /\ c = IF req[w].kind = "login" THEN req[w].challenge ELSE 0
                                  /\ Issue(d, c)
    <3>1. CASE LoginIssues(w)
      <4>1. req[w].challenge \in ChallengeIds
        BY <1>0 DEF Typed, Request
      <4> QED
        BY <2>3, <3>1, <4>1 DEF LoginIssues, At
    <3>2. CASE EnrolIssues(w)
      BY <1>0, <2>3, <3>2 DEF EnrolIssues, At
    <3> QED
      BY <1>1, <3>1, <3>2
  <2>5. minted'.tokens = n
    <3>1. minted' = [minted EXCEPT !.tokens = n]
      BY <2>2, <2>4 DEF Issue
    <3> QED
      BY <1>0, <3>1 DEF Typed
  <2>6. /\ by_token' \in [Tokens -> TokenRow] /\ by_device' \in [Devices -> SUBSET Tokens]
        /\ by_token'[n].challenge = c
        /\ \A t \in Tokens \ {n} : Lasts(t)
        /\ TablesOK'
    BY <1>0, <2>2, <2>4, IssueIs
  <2> QED
    BY <1>1, <2>2, <2>4, <2>5, <2>6 DEF GivesToken
<1>2. ASSUME NEW w \in Workers, TurnedAway(w) \/ RevokeDropsTokens(w)
      PROVE  /\ by_token' \in [Tokens -> TokenRow] /\ by_device' \in [Devices -> SUBSET Tokens]
             /\ TablesOK' /\ \A t \in Tokens : Lasts(t)
  <2>1. \E d \in Devices : DropDevice(d)
    BY <1>0, <1>2 DEF TurnedAway, RevokeDropsTokens, ReqOK, At
  <2> QED
    BY <1>0, <2>1, DropIs
<1>3. CASE Sweep
  <2>1. /\ by_token' \in [Tokens -> TokenRow] /\ by_device' \in [Devices -> SUBSET Tokens]
        /\ \A t \in Tokens : by_token'[t] = IF Good(t) THEN by_token[t] ELSE NoSession
        /\ \A d \in Devices : by_device'[d] = {t \in by_device[d] : Good(t)}
    BY <1>0, <1>3 DEF Sweep
  <2>2. ASSUME NEW d \in Devices
        PROVE  by_device'[d] = {t \in Tokens : by_token'[t].device = d}
    BY <1>0, <2>1 DEF TablesOK
  <2>3. ASSUME NEW d \in Devices
        PROVE  Cardinality(by_device'[d]) <= TOKENS_PER_DEVICE
    <3>1. PICK A, B : A = by_device[d] /\ B = by_device'[d]
      OBVIOUS
    <3>2. A \in SUBSET Tokens /\ B \in SUBSET A
      BY <1>0, <2>1, <3>1
    <3>3. IsFiniteSet(A) /\ Cardinality(A) \in Nat
      BY <3>2, IdSets, FS_Subset, FS_CardinalityType
    <3>4. Cardinality(B) \in Nat /\ Cardinality(B) <= Cardinality(A)
      BY <3>2, <3>3, FS_Subset, FS_CardinalityType
    <3>5. Cardinality(A) <= TOKENS_PER_DEVICE /\ TOKENS_PER_DEVICE \in Nat
      BY <1>0, <3>1, AccessAssumption DEF TablesOK
    <3>6. Cardinality(B) <= TOKENS_PER_DEVICE
      BY <3>3, <3>4, <3>5
    <3> QED
      BY <3>1, <3>6
  <2> QED
    BY <2>1, <2>2, <2>3 DEF Lasts, TablesOK
<1>4. CASE \E t \in Tokens : TokenExpires(t)
  <2>1. PICK t \in Tokens : TokenExpires(t)
    BY <1>4
  <2> DEFINE row == [by_token[t] EXCEPT !.expired = TRUE]
  <2>2. row \in TokenRow /\ row.device = by_token[t].device /\ row.challenge = by_token[t].challenge
    BY <1>0 DEF TokenRow
  <2>3. by_token' = [by_token EXCEPT ![t] = row] /\ UNCHANGED by_device /\ by_token[t].device # Nobody
    BY <1>0, <2>1 DEF TokenExpires, Good
  <2> HIDE DEF row
  <2>4. /\ by_token' \in [Tokens -> TokenRow] /\ by_device' \in [Devices -> SUBSET Tokens]
        /\ by_token'[t] = row /\ \A u \in Tokens \ {t} : by_token'[u] = by_token[u]
    BY <1>0, <2>2, <2>3
  <2>5. TablesOK'
    BY <1>0, <2>2, <2>3, <2>4 DEF TablesOK
  <2> QED
    BY <2>2, <2>3, <2>4, <2>5 DEF Lasts
<1>5. CASE Restart
  <2>1. /\ by_token' = [t \in Tokens |-> NoSession]
        /\ by_device' = [d \in Devices |-> {}]
    BY <1>5 DEF Restart
  <2> QED
    BY <1>0, <2>1, FS_EmptySet, AccessAssumption DEF Lasts, TablesOK
<1>6. CASE UNCHANGED sessions
  BY <1>0, <1>6 DEF sessions, Lasts, TablesOK
<1>7. ASSUME ~\E w \in Workers : LoginIssues(w) \/ EnrolIssues(w) \/ TurnedAway(w) \/ RevokeDropsTokens(w),
             ~Sweep, ~\E t \in Tokens : TokenExpires(t), ~Restart
      PROVE  UNCHANGED sessions
  BY <1>7 DEF AnyStep, Next, Step, Work, Asked, Expiry, Command, ChallengeIssued, LoginFinds, LoginSpends,
              Authenticated, Proves, PasswordChanged, Invited, EnrolFails, EnrolAdds, RevokeRefused, RevokeMarks,
              RevokeDropsEnrolments, StatementFails, ChallengeAsked, LoginLooksUp, Presented, Enrols, EnrolmentExpires,
              ChallengesExpire, CommandRevokes, CommandDropsEnrolments, vars, sessions
<1> QED
  BY <1>1, <1>2, <1>3, <1>4, <1>5, <1>6, <1>7

----------------------------------------------------------------------------
(* Challenges.                                                             *)

\* A challenge only goes, or expires, but for the one that may be handed out.
GivesChallenge(w) ==
  /\ ChallengeIssued(w)
  /\ \A d \in Devices : \A c \in challenges'[d] :
       \/ c.id \in Ids(challenges[d])
       \/ d = req[w].device /\ c.id = minted.challenges + 1
  /\ minted'.challenges = minted.challenges + 1

\* What any step does to the challenges.
LEMMA ChallengesMove ==
  ASSUME AccessInv, AnyStep
  PROVE  /\ challenges' \in [Devices -> SUBSET ChallengeRow]
         /\ ChallengesOK'
         /\ \/ \A d \in Devices : \A c \in challenges'[d] : c.id \in Ids(challenges[d])
            \/ \E w \in Workers : GivesChallenge(w)
<1>0. /\ Typed /\ ChallengesOK /\ ReqOK /\ challenges \in [Devices -> SUBSET ChallengeRow]
  BY DEF AccessInv, Typed
<1>1. ASSUME NEW w \in Workers, ChallengeIssued(w)
      PROVE  /\ challenges' \in [Devices -> SUBSET ChallengeRow] /\ ChallengesOK' /\ GivesChallenge(w)
  <2>1. req[w].kind = "challenge" /\ req[w].at # "idle"
    BY <1>1 DEF ChallengeIssued, At
  <2>2. PICK d \in Devices : d = req[w].device
    BY <1>0, <2>1 DEF ReqOK
  <2>3. PICK n \in Challenges : n = minted.challenges + 1
    <3> DEFINE A == Asking({"challenge"})
    <3>1. w \in A /\ A \in SUBSET Workers
      BY <2>1 DEF Asking
    <3>2. PICK a \in Nat : a = Cardinality(A) /\ a # 0
      <4>1. IsFiniteSet(A)
        BY <3>1, IdSets, FS_Subset
      <4> QED
        BY <3>1, <4>1, FS_CardinalityType, FS_EmptySet
    <3>3. PICK n \in Nat : n = minted.challenges
      BY IdSets DEF AccessInv, Typed
    <3>4. n + a <= MaxChallenges /\ MaxChallenges \in Nat
      BY <3>2, <3>3, IdSets DEF AccessInv, HandedOK, Fits
    <3>5. n + 1 \in Challenges
      BY <3>2, <3>4 DEF Challenges
    <3> QED
      BY <3>3, <3>5
  <2> DEFINE row == [id |-> n, expired |-> FALSE]
             kept == NotTheOldest(Outstanding(d))
  <2>4. row \in ChallengeRow /\ row.id = n
    BY DEF ChallengeRow
  <2>5. \A e \in Devices : /\ Outstanding(e) \subseteq challenges[e] /\ Outstanding(e) \in SUBSET ChallengeRow
                           /\ IsFiniteSet(Outstanding(e))
                           /\ Cardinality(Outstanding(e)) <= CHALLENGES_PER_DEVICE
    <3> TAKE e \in Devices
    <3>1. PICK S, O : S = challenges[e] /\ O = Outstanding(e)
      OBVIOUS
    <3>2. O \in SUBSET S /\ S \in SUBSET ChallengeRow
      BY <1>0, <3>1 DEF Outstanding
    <3>3. IsFiniteSet(S) /\ Cardinality(S) <= CHALLENGES_PER_DEVICE /\ Cardinality(S) \in Nat
      BY <1>0, <3>1, FS_CardinalityType DEF ChallengesOK
    <3>4. IsFiniteSet(O) /\ Cardinality(O) <= Cardinality(S) /\ Cardinality(O) \in Nat
      BY <3>2, <3>3, FS_Subset, FS_CardinalityType
    <3>5. Cardinality(O) <= CHALLENGES_PER_DEVICE /\ CHALLENGES_PER_DEVICE \in Nat
      BY <3>3, <3>4, AccessAssumption
    <3> QED
      BY <3>1, <3>2, <3>4, <3>5
  <2>6. /\ kept \subseteq Outstanding(d) /\ IsFiniteSet(kept)
        /\ Cardinality(kept) < CHALLENGES_PER_DEVICE
    BY <2>5, NotTheOldestIs
  <2>7. challenges' = [other \in Devices |->
           IF other = d THEN kept \cup {row} ELSE Outstanding(other)]
    BY <1>1, <2>2, <2>3 DEF ChallengeIssued
  <2>8. minted'.challenges = n
    <3>1. minted' = [minted EXCEPT !.challenges = n]
      BY <1>1, <2>3 DEF ChallengeIssued
    <3> QED
      BY <1>0, <3>1 DEF Typed
  <2> HIDE DEF row, kept
  <2>9. challenges' \in [Devices -> SUBSET ChallengeRow]
    BY <2>4, <2>5, <2>6, <2>7
  <2>10. /\ IsFiniteSet(kept \cup {row}) /\ Cardinality(kept \cup {row}) <= CHALLENGES_PER_DEVICE
    <3>1. PICK k \in Nat : k = Cardinality(kept)
      BY <2>6, FS_CardinalityType
    <3>2. IsFiniteSet(kept \cup {row})
      BY <2>6, FS_AddElement
    <3>3. Cardinality(kept \cup {row}) = k \/ Cardinality(kept \cup {row}) = k + 1
      BY <2>6, <3>1, FS_AddElement
    <3> QED
      BY <2>6, <3>1, <3>2, <3>3, AccessAssumption
  <2>11. ChallengesOK'
    <3>1. \A e \in Devices : challenges'[e] = IF e = d THEN kept \cup {row} ELSE Outstanding(e)
      BY <2>7
    <3> QED
      BY <2>5, <2>10, <3>1 DEF ChallengesOK
  <2>12. \A e \in Devices : \A c \in challenges'[e] :
            c.id \in Ids(challenges[e]) \/ (e = d /\ c.id = n)
    <3> TAKE e \in Devices
    <3> TAKE c \in challenges'[e]
    <3>1. (c = row /\ e = d) \/ c \in Outstanding(e)
      BY <2>6, <2>7
    <3> QED
      BY <2>4, <2>5, <3>1 DEF Ids
  <2> QED
    BY <1>1, <2>2, <2>3, <2>8, <2>9, <2>11, <2>12 DEF GivesChallenge
<1>2. ASSUME NEW w \in Workers, LoginSpends(w)
      PROVE  /\ challenges' \in [Devices -> SUBSET ChallengeRow] /\ ChallengesOK'
             /\ \A d \in Devices : challenges'[d] \subseteq challenges[d]
  <2>1. PICK d \in Devices : d = req[w].device
    BY <1>0, <1>2 DEF LoginSpends, At, ReqOK
  <2> DEFINE left == {c \in challenges[d] : c.id # req[w].challenge}
  <2>2. challenges' = [challenges EXCEPT ![d] = left]
    BY <1>2, <2>1 DEF LoginSpends
  <2>3. left \in SUBSET challenges[d]
    OBVIOUS
  <2> HIDE DEF left
  <2>4. /\ challenges' \in [Devices -> SUBSET ChallengeRow]
        /\ \A e \in Devices : challenges'[e] \subseteq challenges[e]
    BY <1>0, <2>2, <2>3
  <2>5. ASSUME NEW e \in Devices
        PROVE  IsFiniteSet(challenges'[e]) /\ Cardinality(challenges'[e]) <= CHALLENGES_PER_DEVICE
    <3>1. PICK S, O : S = challenges[e] /\ O = challenges'[e]
      OBVIOUS
    <3>2. IsFiniteSet(S) /\ Cardinality(S) <= CHALLENGES_PER_DEVICE /\ Cardinality(S) \in Nat /\ O \in SUBSET S
      BY <1>0, <2>4, <3>1, FS_CardinalityType DEF ChallengesOK
    <3>3. IsFiniteSet(O) /\ Cardinality(O) <= Cardinality(S) /\ Cardinality(O) \in Nat
      BY <3>2, FS_Subset, FS_CardinalityType
    <3>4. Cardinality(O) <= CHALLENGES_PER_DEVICE
      BY <3>2, <3>3, AccessAssumption
    <3> QED
      BY <3>1, <3>3, <3>4
  <2> QED
    BY <2>4, <2>5 DEF ChallengesOK
<1>3. CASE \E d \in Devices : ChallengesExpire(d)
  <2>1. PICK d \in Devices : ChallengesExpire(d)
    BY <1>3
  <2> DEFINE left == {[c EXCEPT !.expired = TRUE] : c \in challenges[d]}
  <2>2. challenges' = [challenges EXCEPT ![d] = left]
    BY <2>1 DEF ChallengesExpire
  <2>3. \A c \in ChallengeRow : /\ [c EXCEPT !.expired = TRUE] \in ChallengeRow
                                /\ [c EXCEPT !.expired = TRUE].id = c.id
    BY DEF ChallengeRow
  <2>4. left \in SUBSET ChallengeRow /\ \A c \in left : c.id \in Ids(challenges[d])
    BY <1>0, <2>3 DEF Ids
  <2>5. IsFiniteSet(left) /\ Cardinality(left) <= Cardinality(challenges[d])
    <3> DEFINE f == [c \in challenges[d] |-> [c EXCEPT !.expired = TRUE]]
    <3>1. left = {f[c] : c \in challenges[d]}
      OBVIOUS
    <3>2. f \in Surjection(challenges[d], left)
      BY <3>1 DEF Surjection
    <3> HIDE DEF f, left
    <3> QED
      BY <1>0, <3>2, FS_Surjection DEF ChallengesOK
  <2> HIDE DEF left
  <2>6. /\ challenges' \in [Devices -> SUBSET ChallengeRow]
        /\ \A e \in Devices : challenges'[e] = IF e = d THEN left ELSE challenges[e]
    BY <1>0, <2>2, <2>4
  <2>7. Cardinality(left) <= CHALLENGES_PER_DEVICE
    <3>1. PICK a \in Nat, b \in Nat : a = Cardinality(left) /\ b = Cardinality(challenges[d])
      BY <1>0, <2>5, FS_CardinalityType DEF ChallengesOK
    <3>2. a <= b /\ b <= CHALLENGES_PER_DEVICE /\ CHALLENGES_PER_DEVICE \in Nat
      BY <1>0, <2>5, <3>1, AccessAssumption DEF ChallengesOK
    <3> QED
      BY <3>1, <3>2
  <2>8. ChallengesOK'
    BY <1>0, <2>5, <2>6, <2>7 DEF ChallengesOK
  <2> QED
    BY <2>4, <2>6, <2>8 DEF Ids
<1>4. CASE Restart
  <2>1. challenges' = [d \in Devices |-> {}]
    BY <1>4 DEF Restart
  <2> QED
    BY <2>1, FS_EmptySet, AccessAssumption DEF ChallengesOK
<1>5. CASE UNCHANGED challenges
  BY <1>0, <1>5 DEF ChallengesOK, Ids
<1>6. ASSUME ~\E w \in Workers : ChallengeIssued(w) \/ LoginSpends(w),
             ~\E d \in Devices : ChallengesExpire(d), ~Restart
      PROVE  UNCHANGED challenges
  BY <1>6 DEF AnyStep, Next, Step, Work, Asked, Expiry, Command, LoginFinds, LoginIssues, TurnedAway, Sweep,
              Authenticated, Proves, PasswordChanged, Invited, EnrolFails, EnrolAdds, EnrolIssues, RevokeRefused,
              RevokeMarks, RevokeDropsEnrolments, RevokeDropsTokens, ChallengeAsked, LoginLooksUp,
              StatementFails, Presented, Enrols, EnrolmentExpires, TokenExpires, CommandRevokes, CommandDropsEnrolments, vars
<1> QED
  BY <1>1, <1>2, <1>3, <1>4, <1>5, <1>6 DEF Ids

----------------------------------------------------------------------------
(* One signature, one session.                                             *)

\* A request is let in with a challenge by spending it.
LEMMA SpentMoves ==
  ASSUME AccessInv, AnyStep, NEW v \in Workers, req'[v].at = "spent"
  PROVE  (req[v].at = "spent" /\ req'[v].challenge = req[v].challenge) \/ LoginSpends(v)
BY RequestsMove, Rows DEF AccessInv, Moves, IsAsked, GoesOn, Answers

\* What a sign-in that goes through leaves.
LEMMA SpendIs ==
  ASSUME AccessInv, NEW w \in Workers, LoginSpends(w), req'[w].at = "spent"
  PROVE  \E d \in Devices :
           /\ req'[w].challenge = req[w].challenge /\ req[w].challenge \in Ids(challenges[d])
           /\ req[w].challenge \notin Ids(challenges'[d])
           /\ \A e \in Devices : challenges'[e] \subseteq challenges[e]
           /\ UNCHANGED by_token /\ \A v \in Workers \ {w} : req'[v] = req[v]
<1>0. Typed /\ ReqOK /\ challenges \in [Devices -> SUBSET ChallengeRow]
  BY DEF AccessInv, Typed
<1>1. PICK d \in Devices : d = req[w].device
  BY <1>0 DEF LoginSpends, At, ReqOK
<1>2. /\ challenges' = [challenges EXCEPT ![d] = {c \in challenges[d] : c.id # req[w].challenge}]
      /\ UNCHANGED by_token
  BY <1>1 DEF LoginSpends, sessions
<1>3. req[w].challenge \in Ids(challenges[d]) /\ Goes(w, "spent")
  <2>1. ASSUME Done(w)
        PROVE  FALSE
    BY <1>0, <2>1, Rows, PutIs DEF Done
  <2> QED
    BY <1>1, <2>1 DEF LoginSpends
<1>4. req'[w].challenge = req[w].challenge /\ \A v \in Workers \ {w} : req'[v] = req[v]
  BY <1>0, <1>3, GoesIs DEF Places
<1>5. /\ challenges'[d] = {c \in challenges[d] : c.id # req[w].challenge}
      /\ \A e \in Devices \ {d} : challenges'[e] = challenges[e]
  BY <1>0, <1>2
<1>6. req[w].challenge \notin Ids(challenges'[d])
  BY <1>5 DEF Ids
<1> QED
  BY <1>2, <1>3, <1>4, <1>5, <1>6

\* A challenge stays outstanding, let in with, or behind a session: one of them.
LEMMA SignedKept ==
  ASSUME AccessInv, AnyStep
  PROVE  SignedOK'
<1>0. /\ Typed /\ ReqOK /\ HandedOK /\ SignedOK
      /\ \A t \in Tokens : Lasts(t) => by_token'[t].challenge \in {0, by_token[t].challenge}
  BY Rows DEF AccessInv, Lasts
<1>1. ASSUME NEW w \in Workers, GivesToken(w)
      PROVE  SignedOK'
  <2>1. req' = [req EXCEPT ![w] = NoRequest] /\ UNCHANGED challenges
    BY <1>1 DEF GivesToken, LoginIssues, EnrolIssues, Done
  <2>2. req'[w].at # "spent" /\ \A v \in Workers \ {w} : req'[v] = req[v]
    BY <1>0, <2>1, Rows, PutIs
  <2>3. PICK n \in Tokens :
          /\ by_token'[n].challenge = IF req[w].kind = "login" THEN req[w].challenge ELSE 0
          /\ \A t \in Tokens \ {n} : Lasts(t)
    BY <1>1 DEF GivesToken
  <2>4. \/ by_token'[n].challenge = 0
        \/ by_token'[n].challenge = req[w].challenge /\ req[w].at = "spent"
    BY <1>1, <2>3 DEF GivesToken, LoginIssues, EnrolIssues, At
  <2>5. \A t \in Tokens \ {n} : by_token'[t].challenge \in {0, by_token[t].challenge}
    BY <1>0, <2>3
  <2>6. \A d \in Devices : \A c \in challenges[d] : c.id # 0
    BY <1>0, IdSets DEF Typed, ChallengeRow
  <2>7. ASSUME NEW t \in Tokens, NEW u \in Tokens,
               by_token'[t].challenge = by_token'[u].challenge, by_token'[t].challenge # 0
        PROVE  t = u
    BY <1>0, <2>4, <2>5, <2>7 DEF SignedOK
  <2>8. ASSUME NEW x \in Workers, NEW v \in Workers,
               req'[x].at = "spent", req'[v].at = "spent", req'[x].challenge = req'[v].challenge
        PROVE  x = v
    BY <1>0, <2>2, <2>8 DEF SignedOK
  <2>9. ASSUME NEW t \in Tokens, NEW v \in Workers,
               req'[v].at = "spent", by_token'[t].challenge = req'[v].challenge
        PROVE  by_token'[t].challenge = 0
    BY <1>0, <2>2, <2>4, <2>5, <2>9 DEF SignedOK
  <2>10. ASSUME NEW d \in Devices, NEW c \in challenges'[d]
         PROVE  /\ \A t \in Tokens : by_token'[t].challenge # c.id
                /\ \A v \in Workers : req'[v].at = "spent" => req'[v].challenge # c.id
                /\ \A other \in Devices \ {d} : c.id \notin Ids(challenges'[other])
    BY <1>0, <2>1, <2>2, <2>4, <2>5, <2>6 DEF SignedOK
  <2> QED
    BY <2>7, <2>8, <2>9, <2>10 DEF SignedOK
<1>2. ASSUME NEW w \in Workers, LoginSpends(w), req'[w].at = "spent"
      PROVE  SignedOK'
  <2>1. PICK d \in Devices :
           /\ req'[w].challenge = req[w].challenge /\ req[w].challenge \in Ids(challenges[d])
           /\ req[w].challenge \notin Ids(challenges'[d])
           /\ \A e \in Devices : challenges'[e] \subseteq challenges[e]
           /\ UNCHANGED by_token /\ \A v \in Workers \ {w} : req'[v] = req[v]
    BY <1>2, SpendIs
  <2>2. PICK b \in challenges[d] : b.id = req'[w].challenge
    BY <2>1 DEF Ids
  <2>3. /\ \A t \in Tokens : by_token'[t].challenge # b.id
        /\ \A v \in Workers \ {w} : req'[v].at = "spent" => req'[v].challenge # b.id
        /\ \A other \in Devices \ {d} : b.id \notin Ids(challenges[other])
    BY <1>0, <2>1 DEF SignedOK
  <2>4. \A e \in Devices : \A c \in challenges'[e] : c \in challenges[e] /\ c.id # b.id
    BY <2>1, <2>2, <2>3 DEF Ids
  <2>5. ASSUME NEW x \in Workers, NEW v \in Workers,
               req'[x].at = "spent", req'[v].at = "spent", req'[x].challenge = req'[v].challenge
        PROVE  x = v
    BY <1>0, <2>1, <2>2, <2>3, <2>5 DEF SignedOK
  <2>6. ASSUME NEW t \in Tokens, NEW v \in Workers,
               req'[v].at = "spent", by_token'[t].challenge = req'[v].challenge
        PROVE  by_token'[t].challenge = 0
    BY <1>0, <2>1, <2>2, <2>3, <2>6 DEF SignedOK
  <2>7. ASSUME NEW e \in Devices, NEW c \in challenges'[e]
        PROVE  /\ \A t \in Tokens : by_token'[t].challenge # c.id
               /\ \A v \in Workers : req'[v].at = "spent" => req'[v].challenge # c.id
               /\ \A other \in Devices \ {e} : c.id \notin Ids(challenges'[other])
    BY <1>0, <2>1, <2>2, <2>4, <2>7 DEF SignedOK, Ids
  <2> QED
    BY <1>0, <2>1, <2>5, <2>6, <2>7 DEF SignedOK
<1>3. ASSUME NEW w \in Workers, GivesChallenge(w)
      PROVE  SignedOK'
  <2>1. /\ UNCHANGED by_token /\ req' = [req EXCEPT ![w] = NoRequest]
        /\ \A d \in Devices : \A c \in challenges'[d] :
             c.id \in Ids(challenges[d]) \/ (d = req[w].device /\ c.id = minted.challenges + 1)
    BY <1>3 DEF GivesChallenge, ChallengeIssued, sessions, Done
  <2>2. \A v \in Workers : req'[v].at = "spent" => req'[v] = req[v]
    BY <1>0, <2>1, Rows, PutIs
  <2>3. PICK n \in Nat : n = minted.challenges + 1
    <3>1. minted.challenges \in Nat
      BY <1>0, IdSets DEF Typed
    <3> QED
      BY <3>1
  <2>4. /\ \A t \in Tokens : by_token[t].challenge # n
        /\ \A v \in Workers : req[v].challenge # n
        /\ \A d \in Devices : n \notin Ids(challenges[d])
    <3>1. PICK m \in Nat : m = minted.challenges
      BY <1>0, IdSets DEF Typed
    <3>2. \A i \in Nat : i <= m => i # n
      BY <2>3, <3>1
    <3>3. /\ \A t \in Tokens : by_token[t].challenge \in Nat
          /\ \A v \in Workers : req[v].challenge \in Nat
          /\ \A d \in Devices : \A c \in challenges[d] : c.id \in Nat
      <4>1. \A t \in Tokens : by_token[t].challenge \in ChallengeIds
        BY <1>0 DEF Typed, TokenRow
      <4>2. \A v \in Workers : req[v].challenge \in ChallengeIds
        BY <1>0 DEF Typed, Request
      <4>3. \A d \in Devices : \A c \in challenges[d] : c.id \in Challenges
        BY <1>0 DEF Typed, ChallengeRow
      <4> QED
        BY <4>1, <4>2, <4>3, IdSets
    <3> QED
      BY <1>0, <3>1, <3>2, <3>3 DEF HandedOK, Ids
  <2>5. ASSUME NEW d \in Devices, NEW c \in challenges'[d]
        PROVE  /\ \A t \in Tokens : by_token'[t].challenge # c.id
               /\ \A v \in Workers : req'[v].at = "spent" => req'[v].challenge # c.id
               /\ \A other \in Devices \ {d} : c.id \notin Ids(challenges'[other])
    <3>1. CASE c.id = n /\ d = req[w].device
      BY <2>1, <2>2, <2>3, <2>4, <3>1 DEF Ids
    <3>2. CASE c.id \in Ids(challenges[d])
      <4>1. c.id # n
        BY <2>4, <3>2
      <4>2. PICK b \in challenges[d] : b.id = c.id
        BY <3>2 DEF Ids
      <4>3. \A other \in Devices \ {d} : b.id \notin Ids(challenges[other])
        BY <1>0 DEF SignedOK
      <4>4. \A other \in Devices \ {d} : c.id \notin Ids(challenges'[other])
        BY <2>1, <2>3, <4>1, <4>2, <4>3 DEF Ids
      <4> QED
        BY <1>0, <2>1, <2>2, <4>2, <4>4 DEF SignedOK
    <3> QED
      BY <2>1, <2>3, <3>1, <3>2
  <2> QED
    BY <1>0, <2>1, <2>2, <2>5 DEF SignedOK
<1>4. ASSUME \A t \in Tokens : Lasts(t),
             \A w \in Workers : ~(LoginSpends(w) /\ req'[w].at = "spent"),
             \A d \in Devices : \A c \in challenges'[d] : c.id \in Ids(challenges[d])
      PROVE  SignedOK'
  <2>1. \A t \in Tokens : by_token'[t].challenge \in {0, by_token[t].challenge}
    BY <1>0, <1>4
  <2>2. \A v \in Workers : req'[v].at = "spent" => req[v].at = "spent" /\ req'[v].challenge = req[v].challenge
    BY <1>4, SpentMoves
  <2>3. \A d \in Devices : \A c \in challenges'[d] : \E b \in challenges[d] : b.id = c.id
    BY <1>4 DEF Ids
  <2>4. \A d \in Devices : \A c \in challenges[d] : c.id # 0
    BY <1>0, IdSets DEF Typed, ChallengeRow
  <2>5. ASSUME NEW d \in Devices, NEW c \in challenges'[d]
        PROVE  /\ \A t \in Tokens : by_token'[t].challenge # c.id
               /\ \A v \in Workers : req'[v].at = "spent" => req'[v].challenge # c.id
               /\ \A other \in Devices \ {d} : c.id \notin Ids(challenges'[other])
    <3>1. PICK b \in challenges[d] : b.id = c.id
      BY <2>3
    <3>2. \A other \in Devices \ {d} : b.id \notin Ids(challenges[other])
      BY <1>0 DEF SignedOK
    <3>3. \A other \in Devices \ {d} : c.id \notin Ids(challenges'[other])
      BY <2>3, <3>1, <3>2 DEF Ids
    <3> QED
      BY <1>0, <2>1, <2>2, <2>4, <3>1, <3>3 DEF SignedOK
  <2>6. ASSUME NEW t \in Tokens, NEW u \in Tokens,
               by_token'[t].challenge = by_token'[u].challenge, by_token'[t].challenge # 0
        PROVE  t = u
    BY <1>0, <2>1, <2>6 DEF SignedOK
  <2>7. ASSUME NEW x \in Workers, NEW v \in Workers,
               req'[x].at = "spent", req'[v].at = "spent", req'[x].challenge = req'[v].challenge
        PROVE  x = v
    BY <1>0, <2>2, <2>7 DEF SignedOK
  <2>8. ASSUME NEW t \in Tokens, NEW v \in Workers,
               req'[v].at = "spent", by_token'[t].challenge = req'[v].challenge
        PROVE  by_token'[t].challenge = 0
    BY <1>0, <2>1, <2>2, <2>8 DEF SignedOK
  <2> QED
    BY <2>5, <2>6, <2>7, <2>8 DEF SignedOK
<1> QED
  BY <1>1, <1>2, <1>3, <1>4, SessionsMove, ChallengesMove

----------------------------------------------------------------------------
(* Enrolment tokens.                                                       *)

\* The second statement after a wrong password: the count is looked at.
Looked(e) ==
  /\ \E w \in Workers : /\ req[w].at = "counted" /\ req[w].enrolment = e /\ Answers(w)
                        /\ \A v \in Workers \ {w} : req'[v] = req[v]
  /\ enrolments'[e].failures = enrolments[e].failures
  /\ enrolments[e].unsettled = enrolments'[e].unsettled + 1
  /\ enrolments[e].failures >= ENROLMENT_ATTEMPTS => enrolments'[e].at = "used"

\* A token that is open is tried, used up or expires.
Tried(e) ==
  /\ enrolments[e].at = "open" /\ enrolments'[e].at \in {"open", "used"}
  /\ \/ /\ enrolments'[e].failures = enrolments[e].failures
        /\ enrolments'[e].unsettled = enrolments[e].unsettled
     \/ /\ enrolments'[e].failures = enrolments[e].failures + 1
        /\ enrolments'[e].unsettled = enrolments[e].unsettled + 1
     \/ Looked(e)

\* What an enrolment token becomes.
Becomes(e) ==
  \/ enrolments'[e] = enrolments[e]
  \/ enrolments[e].at = "open" /\ enrolments'[e] = NoEnrolment
  \/ Tried(e)
  \/ /\ e = minted.enrolments + 1 /\ minted'.enrolments = e /\ DbFree
     /\ enrolments'[e].at = "open" /\ enrolments'[e].failures = 0 /\ enrolments'[e].unsettled = 0

\* A token's row is changed by what a step does to one field.
LEMMA RowIs ==
  ASSUME Typed, NEW e \in Enrolments, NEW row \in EnrolmentRow, enrolments' = [enrolments EXCEPT ![e] = row]
  PROVE  /\ enrolments' \in [Enrolments -> EnrolmentRow]
         /\ enrolments'[e] = row /\ \A o \in Enrolments \ {e} : enrolments'[o] = enrolments[o]
BY DEF Typed

\* A wrong password is counted.
LEMMA WrongIs ==
  ASSUME Typed, NEW e \in Enrolments, CountWrong(e), Usable(e)
  PROVE  /\ enrolments' \in [Enrolments -> EnrolmentRow]
         /\ Tried(e) /\ \A o \in Enrolments \ {e} : enrolments'[o] = enrolments[o]
         /\ enrolments'[e].unsettled = enrolments[e].unsettled + 1
<1>0. enrolments \in [Enrolments -> EnrolmentRow] /\ enrolments[e].at = "open"
  BY DEF Typed, Usable
<1>1. PICK r \in EnrolmentRow : r = enrolments[e]
  BY <1>0
<1>2. PICK k \in Nat, m \in Nat : k = r.failures + 1 /\ m = r.unsettled + 1
  BY DEF EnrolmentRow
<1> DEFINE row == [r EXCEPT !.failures = k, !.unsettled = m]
<1>3. row \in EnrolmentRow /\ row.failures = k /\ row.unsettled = m /\ row.at = r.at
  BY DEF EnrolmentRow
<1>4. enrolments' = [enrolments EXCEPT ![e] = row]
  BY <1>0, <1>1, <1>2 DEF CountWrong, EnrolmentRow
<1> HIDE DEF row
<1>5. /\ enrolments' \in [Enrolments -> EnrolmentRow] /\ enrolments'[e] = row
      /\ \A o \in Enrolments \ {e} : enrolments'[o] = enrolments[o]
  BY <1>3, <1>4, RowIs
<1> QED
  BY <1>0, <1>1, <1>2, <1>3, <1>5 DEF Tried

\* The count is looked at.
LEMMA LookedIs ==
  ASSUME AccessInv, NEW w \in Workers, EnrolFails(w)
  PROVE  /\ enrolments' \in [Enrolments -> EnrolmentRow]
         /\ \A e \in Enrolments : Becomes(e)
<1>0. /\ Typed /\ CountedOK /\ enrolments \in [Enrolments -> EnrolmentRow]
      /\ ENROLMENT_ATTEMPTS \in Nat
  BY AccessAssumption DEF AccessInv, Typed
<1>1. PICK e \in Enrolments : e = req[w].enrolment /\ req[w].at = "counted" /\ UseUp(e)
  BY <1>0 DEF EnrolFails, At, CountedOK
<1>2. Answers(w) /\ \A v \in Workers \ {w} : req'[v] = req[v]
  BY <1>0, Rows, PutIs DEF EnrolFails, Done, Answers
<1>3. CASE enrolments[e].at = "open"
  <2>1. PICK r \in EnrolmentRow : r = enrolments[e]
    BY <1>0
  <2>2. r.unsettled # 0
    BY <1>0, <1>1, <1>3, <2>1 DEF CountedOK
  <2>3. PICK m \in Nat : m = r.unsettled - 1 /\ r.unsettled = m + 1
    BY <2>2 DEF EnrolmentRow
  <2>4. PICK a \in {"open", "used"} : a = IF r.failures >= ENROLMENT_ATTEMPTS THEN "used" ELSE "open"
    OBVIOUS
  <2> DEFINE row == [r EXCEPT !.unsettled = m, !.at = a]
  <2>5. row \in EnrolmentRow /\ row.failures = r.failures /\ row.unsettled = m /\ row.at = a
    BY DEF EnrolmentRow
  <2>6. enrolments' = [enrolments EXCEPT ![e] = row]
    <3>1. enrolments' = [enrolments EXCEPT ![e].unsettled = r.unsettled - 1,
             ![e].at = IF r.failures >= ENROLMENT_ATTEMPTS THEN "used" ELSE @]
      BY <1>1, <1>3, <2>1 DEF UseUp
    <3>2. enrolments' = [enrolments EXCEPT ![e].unsettled = m, ![e].at = a]
      BY <1>0, <1>3, <2>1, <2>3, <2>4, <3>1 DEF EnrolmentRow
    <3> QED
      BY <1>0, <2>1, <3>2 DEF EnrolmentRow
  <2> HIDE DEF row
  <2>7. /\ enrolments' \in [Enrolments -> EnrolmentRow] /\ enrolments'[e] = row
        /\ \A o \in Enrolments \ {e} : enrolments'[o] = enrolments[o]
    BY <1>0, <2>5, <2>6, RowIs
  <2>8. Looked(e)
    BY <1>1, <1>2, <2>1, <2>3, <2>4, <2>5, <2>7 DEF Looked
  <2>9. Tried(e)
    BY <1>3, <2>4, <2>5, <2>7, <2>8 DEF Tried
  <2> QED
    BY <2>7, <2>9 DEF Becomes
<1>4. CASE enrolments[e].at # "open"
  BY <1>0, <1>1, <1>4 DEF UseUp, Becomes
<1> QED
  BY <1>3, <1>4

\* What any step does to the enrolment tokens.
LEMMA EnrolmentsMove ==
  ASSUME AccessInv, AnyStep
  PROVE  /\ enrolments' \in [Enrolments -> EnrolmentRow]
         /\ \A e \in Enrolments : Becomes(e)
<1>0. /\ Typed /\ ReqOK /\ enrolments \in [Enrolments -> EnrolmentRow]
      /\ NoEnrolment \in EnrolmentRow
  BY Rows DEF AccessInv, Typed
<1>1. ASSUME NEW w \in Workers, NEW e \in Enrolments, Enrols(w, e)
      PROVE  /\ enrolments' \in [Enrolments -> EnrolmentRow] /\ \A o \in Enrolments : Becomes(o)
  <2>1. Usable(e) /\ (CountWrong(e) \/ Redeem(e))
    BY <1>1 DEF Enrols
  <2>2. CASE CountWrong(e)
    BY <1>0, <2>1, <2>2, WrongIs DEF Becomes
  <2>3. CASE Redeem(e)
    <3> DEFINE row == [enrolments[e] EXCEPT !.at = "used"]
    <3>1. row \in EnrolmentRow /\ row.at = "used" /\ row.failures = enrolments[e].failures
          /\ row.unsettled = enrolments[e].unsettled
      BY <1>0 DEF EnrolmentRow
    <3>2. enrolments' = [enrolments EXCEPT ![e] = row]
      BY <1>0, <2>3 DEF Redeem
    <3> HIDE DEF row
    <3> QED
      BY <1>0, <2>1, <3>1, <3>2, RowIs DEF Becomes, Tried, Usable
  <2> QED
    BY <2>1, <2>2, <2>3
<1>2. CASE \E e \in Enrolments : EnrolmentExpires(e)
  <2>1. PICK e \in Enrolments : EnrolmentExpires(e)
    BY <1>2
  <2> DEFINE row == [enrolments[e] EXCEPT !.expired = TRUE]
  <2>2. row \in EnrolmentRow /\ row.at = enrolments[e].at /\ row.failures = enrolments[e].failures
        /\ row.unsettled = enrolments[e].unsettled
    BY <1>0 DEF EnrolmentRow
  <2>3. enrolments' = [enrolments EXCEPT ![e] = row] /\ enrolments[e].at = "open"
    BY <1>0, <2>1 DEF EnrolmentExpires, Usable
  <2> HIDE DEF row
  <2> QED
    BY <1>0, <2>2, <2>3, RowIs DEF Becomes, Tried
<1>3. ASSUME NEW w \in Workers, Invited(w)
      PROVE  /\ enrolments' \in [Enrolments -> EnrolmentRow] /\ \A o \in Enrolments : Becomes(o)
  <2>1. req[w].kind = "invite" /\ req[w].at # "idle" /\ DbFree
    BY <1>3 DEF Invited, At
  <2>2. PICK d \in DeviceIds : d = req[w].device
    BY <1>0, <2>1 DEF ReqOK, DeviceIds
  <2>3. PICK n \in Enrolments : n = minted.enrolments + 1
    <3> DEFINE A == Asking({"invite"})
    <3>1. w \in A /\ A \in SUBSET Workers
      BY <2>1 DEF Asking
    <3>2. PICK a \in Nat : a = Cardinality(A) /\ a # 0
      <4>1. IsFiniteSet(A)
        BY <3>1, IdSets, FS_Subset
      <4> QED
        BY <3>1, <4>1, FS_CardinalityType, FS_EmptySet
    <3>3. PICK n \in Nat : n = minted.enrolments
      BY IdSets DEF AccessInv, Typed
    <3>4. n + a <= MaxEnrolments /\ MaxEnrolments \in Nat
      BY <3>2, <3>3, IdSets DEF AccessInv, HandedOK, Fits
    <3>5. n + 1 \in Enrolments
      BY <3>2, <3>4 DEF Enrolments
    <3> QED
      BY <3>3, <3>5
  <2> DEFINE row == [NoEnrolment EXCEPT !.at = "open", !.by = d]
  <2>4. row \in EnrolmentRow /\ row.at = "open" /\ row.failures = 0 /\ row.unsettled = 0
    BY <1>0, Rows DEF EnrolmentRow
  <2>5. enrolments' = [enrolments EXCEPT ![n] = row]
    BY <1>3, <2>2, <2>3 DEF Invited
  <2>6. minted'.enrolments = n
    <3>1. minted' = [minted EXCEPT !.enrolments = n]
      BY <1>3, <2>3 DEF Invited
    <3> QED
      BY <1>0, <3>1 DEF Typed
  <2> HIDE DEF row
  <2> QED
    BY <1>0, <2>1, <2>3, <2>4, <2>5, <2>6, RowIs DEF Becomes
<1>4. ASSUME NEW d, DropEnrolments(d)
      PROVE  /\ enrolments' \in [Enrolments -> EnrolmentRow] /\ \A o \in Enrolments : Becomes(o)
  <2>1. enrolments' \in [Enrolments -> EnrolmentRow]
    BY <1>0, <1>4 DEF DropEnrolments
  <2> QED
    BY <1>4, <2>1 DEF DropEnrolments, Becomes
<1>5. CASE UNCHANGED enrolments
  BY <1>0, <1>5 DEF Becomes
<1>6. ASSUME ~\E w \in Workers : Invited(w) \/ EnrolFails(w) \/ RevokeDropsEnrolments(w),
             ~\E w \in Workers, e \in Enrolments : Enrols(w, e), ~CommandDropsEnrolments,
             ~\E e \in Enrolments : EnrolmentExpires(e)
      PROVE  UNCHANGED enrolments
  BY <1>6 DEF AnyStep, Next, Step, Work, Asked, Expiry, Command, LoginFinds, LoginIssues, TurnedAway, Sweep,
              Authenticated, Proves, PasswordChanged, LoginSpends, EnrolAdds, EnrolIssues, RevokeRefused,
              RevokeMarks, RevokeDropsTokens, ChallengeAsked, LoginLooksUp, ChallengeIssued,
              StatementFails, Presented, ChallengesExpire, TokenExpires, CommandRevokes, Restart, vars, stored
<1> QED
  BY <1>1, <1>2, <1>3, <1>4, <1>5, <1>6, LookedIs DEF RevokeDropsEnrolments, CommandDropsEnrolments

\* A request between the two statements was there before, or counts just now.
LEMMA CountedMoves ==
  ASSUME AccessInv, AnyStep, NEW v \in Workers, req'[v].at = "counted"
  PROVE  \/ req'[v] = req[v]
         \/ /\ \A w \in Workers \ {v} : req'[w] = req[w]
            /\ DbFree
            /\ \E e \in Enrolments : /\ req'[v].enrolment = e
                                     /\ enrolments'[e].unsettled = enrolments[e].unsettled + 1
<1>0. Typed
  BY DEF AccessInv
<1>1. ASSUME ~(req'[v] = req[v])
      PROVE  IsAsked(v) /\ \A w \in Workers \ {v} : req'[w] = req[w]
  BY <1>0, <1>1, RequestsMove, Rows DEF Moves, GoesOn, Answers
<1>2. ASSUME IsAsked(v)
      PROVE  DbFree /\ \E e \in Enrolments : /\ req'[v].enrolment = e
                                             /\ enrolments'[e].unsettled = enrolments[e].unsettled + 1
  <2>1. PICK e \in Enrolments : Enrols(v, e) /\ req'[v].enrolment = e /\ CountWrong(e)
    BY <1>2 DEF IsAsked
  <2>2. DbFree /\ Usable(e)
    BY <2>1 DEF Enrols
  <2> QED
    BY <1>0, <2>1, <2>2, WrongIs
<1> QED
  BY <1>1, <1>2

\* What was counted and not looked at stays so until it is.
LEMMA CountedKept ==
  ASSUME AccessInv, AnyStep
  PROVE  CountedOK'
<1>0. /\ Typed /\ CountedOK
      /\ \A e \in Enrolments : enrolments[e].unsettled \in Nat
  BY DEF AccessInv, Typed, EnrolmentRow
<1>1. ASSUME NEW v \in Workers, req'[v].at = "counted", DbFree
      PROVE  ~(req'[v] = req[v])
  BY <1>1 DEF DbFree
<1>2. ASSUME NEW v \in Workers, req'[v].at = "counted"
      PROVE  /\ req'[v].enrolment \in Enrolments
             /\ enrolments'[req'[v].enrolment].at = "open" => enrolments'[req'[v].enrolment].unsettled # 0
  <2>1. CASE req'[v] = req[v]
    <3>1. PICK e \in Enrolments : /\ e = req[v].enrolment /\ req[v].at = "counted"
                                  /\ enrolments[e].at = "open" => enrolments[e].unsettled # 0
      BY <1>0, <1>2, <2>1 DEF CountedOK
    <3>2. ~Looked(e)
      BY <1>0, <1>2, <2>1, <3>1, Rows DEF Looked, CountedOK, Answers
    <3>3. ~DbFree
      BY <1>1, <1>2, <2>1
    <3>4. enrolments'[e].at = "open" => enrolments'[e].unsettled # 0
      BY <1>0, <3>1, <3>2, <3>3, Rows, EnrolmentsMove DEF Becomes, Tried
    <3> QED
      BY <2>1, <3>1, <3>4
  <2>2. CASE ~(req'[v] = req[v])
    <3>1. PICK e \in Enrolments : /\ req'[v].enrolment = e
                                  /\ enrolments'[e].unsettled = enrolments[e].unsettled + 1
      BY <1>2, <2>2, CountedMoves
    <3>2. PICK n \in Nat : n = enrolments[e].unsettled
      BY <1>0
    <3> QED
      BY <3>1, <3>2
  <2> QED
    BY <2>1, <2>2
<1>3. ASSUME NEW w \in Workers, NEW v \in Workers, req'[w].at = "counted", req'[v].at = "counted"
      PROVE  w = v
  <2>1. CASE req'[w] = req[w] /\ req'[v] = req[v]
    BY <1>0, <1>3, <2>1 DEF CountedOK
  <2>2. CASE ~(req'[w] = req[w])
    BY <1>1, <1>3, <2>2, CountedMoves
  <2>3. CASE ~(req'[v] = req[v])
    BY <1>1, <1>3, <2>3, CountedMoves
  <2> QED
    BY <2>1, <2>2, <2>3
<1> QED
  BY <1>2, <1>3 DEF CountedOK

\* No token is good for more wrong passwords than it has attempts, but for
\* those that were counted and not looked at.
LEMMA GuessKept ==
  ASSUME AccessInv, AnyStep
  PROVE  GuessOK'
<1>0. /\ GuessOK /\ ENROLMENT_ATTEMPTS \in Nat \ {0}
      /\ \A e \in Enrolments : enrolments[e].failures \in Nat /\ enrolments[e].unsettled \in Nat
      /\ \A e \in Enrolments : enrolments'[e].unsettled \in Nat
  BY AccessAssumption, EnrolmentsMove DEF AccessInv, Typed, EnrolmentRow
<1>1. ASSUME NEW e \in Enrolments
      PROVE  /\ enrolments'[e].failures <= ENROLMENT_ATTEMPTS + enrolments'[e].unsettled
             /\ enrolments'[e].at = "open" =>
                  enrolments'[e].failures < ENROLMENT_ATTEMPTS + enrolments'[e].unsettled
  <2>1. CASE enrolments'[e] = enrolments[e]
    BY <1>0, <2>1 DEF GuessOK
  <2>2. CASE enrolments'[e] = NoEnrolment \/ (enrolments'[e].failures = 0 /\ enrolments'[e].unsettled = 0)
    BY <1>0, <2>2, Rows
  <2>3. CASE Tried(e)
    <3>1. PICK k \in Nat, u \in Nat, n \in Nat :
            k = enrolments[e].failures /\ u = enrolments[e].unsettled /\ n = enrolments'[e].unsettled
      BY <1>0
    <3>2. k < ENROLMENT_ATTEMPTS + u
      BY <1>0, <2>3, <3>1 DEF Tried, GuessOK
    <3>3. \/ enrolments'[e].failures = k /\ n = u
          \/ enrolments'[e].failures = k + 1 /\ n = u + 1
          \/ enrolments'[e].failures = k /\ u = n + 1 /\ (k >= ENROLMENT_ATTEMPTS => enrolments'[e].at = "used")
      BY <2>3, <3>1 DEF Tried, Looked
    <3>4. PICK f \in Nat : f = enrolments'[e].failures
      BY <3>1, <3>3
    <3>5. f <= ENROLMENT_ATTEMPTS + n /\ (enrolments'[e].at = "open" => f < ENROLMENT_ATTEMPTS + n)
      BY <1>0, <3>2, <3>3, <3>4
    <3> QED
      BY <3>1, <3>4, <3>5
  <2> QED
    BY <2>1, <2>2, <2>3, EnrolmentsMove DEF Becomes
<1> QED
  BY <1>1 DEF GuessOK

----------------------------------------------------------------------------
(* Nothing beyond the numbers handed out.                                  *)

\* Nothing is there beyond the numbers handed out, and there is room.
LEMMA HandedKept ==
  ASSUME AccessInv, AnyStep
  PROVE  HandedOK'
<1>0. Typed /\ ReqOK /\ HandedOK
  BY DEF AccessInv
<1>1. /\ Fits(minted.tokens, {"login", "enrol"}, MaxTokens)'
      /\ Fits(minted.challenges, {"challenge"}, MaxChallenges)'
      /\ Fits(minted.enrolments, {"invite"}, MaxEnrolments)'
  BY MintedMoves
<1>2. PICK n \in Numbers, m \in Numbers :
        /\ n = minted /\ m = minted'
        /\ n.tokens <= m.tokens /\ n.challenges <= m.challenges /\ n.enrolments <= m.enrolments
  <2>1. minted \in Numbers /\ minted' \in Numbers
    <3>1. \A x \in [tokens : TokenIds, challenges : ChallengeIds, enrolments : EnrolmentIds] : x \in Numbers
      BY IdSets DEF Numbers
    <3> QED
      BY <1>0, <3>1, MintedMoves DEF Typed
  <2> QED
    BY <2>1, MintedMoves, Zenon
<1>3. /\ n.tokens \in Nat /\ n.challenges \in Nat /\ n.enrolments \in Nat
      /\ m.tokens \in Nat /\ m.challenges \in Nat /\ m.enrolments \in Nat
  BY DEF Numbers
<1>4. /\ \A t \in Tokens : t \in Nat /\ by_token[t].challenge \in Nat
      /\ \A w \in Workers : req[w].challenge \in Nat
      /\ \A d \in Devices : \A c \in challenges[d] : c.id \in Nat
      /\ \A e \in Enrolments : e \in Nat
  <2>1. \A t \in Tokens : by_token[t].challenge \in ChallengeIds
    BY <1>0 DEF Typed, TokenRow
  <2>2. \A v \in Workers : req[v].challenge \in ChallengeIds
    BY <1>0 DEF Typed, Request
  <2>3. \A d \in Devices : \A c \in challenges[d] : c.id \in Challenges
    BY <1>0 DEF Typed, ChallengeRow
  <2> QED
    BY <2>1, <2>2, <2>3, IdSets
<1>5. \A w \in Workers : req'[w].challenge <= m.challenges
  <2>1. \A w \in Workers : req'[w].challenge = 0 \/ req'[w].challenge <= n.challenges
    BY <1>0, <1>2, Rows, RequestsMove DEF Moves, IsAsked, GoesOn, Answers, HandedOK
  <2>2. \A w \in Workers : req'[w].challenge \in Nat
    <3>1. \A v \in Workers : req'[v].challenge \in ChallengeIds
      BY <1>0, RequestsMove DEF Request
    <3> QED
      BY <3>1, IdSets
  <2>3. ASSUME NEW w \in Workers
        PROVE  req'[w].challenge <= m.challenges
    <3>1. PICK c \in Nat : c = req'[w].challenge
      BY <2>2
    <3>2. c = 0 \/ c <= n.challenges
      BY <2>1, <3>1
    <3>3. c <= m.challenges
      BY <1>2, <1>3, <3>2
    <3> QED
      BY <3>1, <3>3
  <2> QED
    BY <2>3
<1>6. ASSUME NEW t \in Tokens
      PROVE  /\ t > m.tokens => by_token'[t] = NoSession
             /\ by_token'[t].challenge <= m.challenges
  <2>1. CASE Lasts(t)
    <3>1. t > m.tokens => t > n.tokens
      BY <1>2, <1>3, <1>4
    <3>2. t > m.tokens => by_token'[t] = NoSession
      BY <1>0, <1>2, <2>1, <3>1, Rows DEF HandedOK, Lasts
    <3>3. PICK c \in Nat : c = by_token[t].challenge
      BY <1>4
    <3>4. c <= m.challenges /\ 0 <= m.challenges
      BY <1>0, <1>2, <1>3, <3>3 DEF HandedOK
    <3>5. by_token'[t].challenge = 0 \/ by_token'[t].challenge = c
      BY <2>1, <3>3, Rows DEF Lasts
    <3> QED
      BY <3>2, <3>4, <3>5
  <2>2. CASE ~Lasts(t)
    <3>1. PICK w \in Workers : GivesToken(w)
      BY <2>2, SessionsMove
    <3>2. m.tokens = t /\ by_token'[t].challenge = IF req[w].kind = "login" THEN req[w].challenge ELSE 0
      BY <1>2, <2>2, <3>1 DEF GivesToken
    <3>3. PICK c \in Nat : c = req[w].challenge
      BY <1>4
    <3>4. c <= m.challenges /\ 0 <= m.challenges
      BY <1>0, <1>2, <1>3, <3>3 DEF HandedOK
    <3>5. by_token'[t].challenge = 0 \/ by_token'[t].challenge = c
      BY <3>2, <3>3
    <3>6. ~(t > m.tokens)
      BY <1>4, <3>2
    <3> QED
      BY <3>4, <3>5, <3>6
  <2> QED
    BY <2>1, <2>2
<1>7. ASSUME NEW d \in Devices, NEW c \in challenges'[d]
      PROVE  c.id <= m.challenges
  <2>1. CASE c.id \in Ids(challenges[d])
    <3>1. PICK b \in challenges[d] : b.id = c.id
      BY <2>1 DEF Ids
    <3>2. b.id \in Nat /\ b.id <= n.challenges
      BY <1>0, <1>2, <1>4 DEF HandedOK
    <3> QED
      BY <1>2, <1>3, <3>1, <3>2
  <2>2. CASE c.id \notin Ids(challenges[d])
    <3>1. c.id = n.challenges + 1 /\ m.challenges = n.challenges + 1
      BY <1>2, <2>2, ChallengesMove DEF AccessInv, GivesChallenge
    <3> QED
      BY <1>3, <3>1
  <2> QED
    BY <2>1, <2>2
<1>8. ASSUME NEW e \in Enrolments, e > m.enrolments
      PROVE  enrolments'[e] = NoEnrolment
  <2>1. e > n.enrolments
    BY <1>2, <1>3, <1>4, <1>8
  <2>2. enrolments[e] = NoEnrolment
    BY <1>0, <1>2, <2>1 DEF HandedOK
  <2>3. m.enrolments # e
    BY <1>3, <1>4, <1>8
  <2> QED
    BY <1>2, <2>2, <2>3, Rows, EnrolmentsMove DEF Becomes, Tried
<1> QED
  BY <1>1, <1>2, <1>5, <1>6, <1>7, <1>8 DEF HandedOK

----------------------------------------------------------------------------
(* Joining.                                                                *)

\* A device is only ever given the enrolment it joins with.
LEMMA DevicesMove ==
  ASSUME AccessInv, AnyStep
  PROVE  /\ device' \in [Devices -> DeviceRow]
         /\ \/ \A d \in Devices : device'[d].via = device[d].via
            \/ \E w \in Workers : EnrolAdds(w)
<1>0. Typed /\ ReqOK /\ JoinOK /\ device \in [Devices -> DeviceRow]
  BY DEF AccessInv, Typed
<1>1. ASSUME NEW w \in Workers, EnrolAdds(w)
      PROVE  device' \in [Devices -> DeviceRow]
  <2>1. PICK d \in Devices : d = req[w].device
    BY <1>0, <1>1 DEF EnrolAdds, At, ReqOK
  <2>2. PICK e \in EnrolmentIds : e = req[w].enrolment
    BY <1>0 DEF Typed, Request
  <2> DEFINE row == [status |-> "live", via |-> e]
  <2>3. row \in DeviceRow
    BY DEF DeviceRow
  <2>4. device' = [device EXCEPT ![d] = row]
    BY <1>1, <2>1, <2>2 DEF EnrolAdds
  <2> HIDE DEF row
  <2> QED
    BY <1>0, <2>3, <2>4
<1>2. ASSUME NEW d \in Devices, device' = [device EXCEPT ![d].status = "revoked"]
      PROVE  /\ device' \in [Devices -> DeviceRow]
             /\ \A e \in Devices : device'[e].via = device[e].via
  <2> DEFINE row == [device[d] EXCEPT !.status = "revoked"]
  <2>1. row \in DeviceRow /\ row.via = device[d].via
    BY <1>0 DEF DeviceRow
  <2>2. device' = [device EXCEPT ![d] = row]
    BY <1>0, <1>2
  <2> HIDE DEF row
  <2> QED
    BY <1>0, <2>1, <2>2
<1>3. CASE \E w \in Workers : RevokeMarks(w)
  <2>1. \E d \in Devices : device' = [device EXCEPT ![d].status = "revoked"]
    BY <1>0, <1>3 DEF RevokeMarks, MayRevoke, ReqOK
  <2> QED
    BY <1>2, <2>1
<1>4. CASE \E d \in Devices : CommandRevokes(d)
  BY <1>2, <1>4 DEF CommandRevokes
<1>5. CASE UNCHANGED device
  BY <1>0, <1>5
<1>6. ASSUME ~\E w \in Workers : EnrolAdds(w) \/ RevokeMarks(w), ~\E d \in Devices : CommandRevokes(d)
      PROVE  UNCHANGED device
  BY <1>6 DEF AnyStep, Next, Step, Work, Asked, Expiry, Command, LoginFinds, LoginIssues, TurnedAway, Sweep,
              Authenticated, Proves, PasswordChanged, LoginSpends, EnrolFails, EnrolIssues, RevokeRefused, Invited,
              RevokeDropsTokens, RevokeDropsEnrolments, ChallengeAsked, LoginLooksUp, ChallengeIssued,
              StatementFails, Enrols, Presented, ChallengesExpire, TokenExpires, EnrolmentExpires, CommandDropsEnrolments,
              Restart, vars, stored
<1> QED
  BY <1>1, <1>3, <1>4, <1>5, <1>6

\* A used enrolment token stays used.
LEMMA StaysUsed ==
  ASSUME AccessInv, AnyStep, NEW e \in Enrolments, enrolments[e].at = "used"
  PROVE  enrolments'[e].at = "used"
<1>1. PICK n \in Nat : n = minted.enrolments
  BY IdSets DEF AccessInv, Typed
<1>2. e # n + 1
  <2>1. e \in Nat
    BY IdSets
  <2>2. ~(e > n)
    BY <1>1, Rows DEF AccessInv, HandedOK
  <2> QED
    BY <1>1, <2>1, <2>2
<1> QED
  BY <1>1, <1>2, EnrolmentsMove DEF Becomes, Tried

\* A request that has redeemed a token did so before, or just now.
LEMMA RedeemedMoves ==
  ASSUME AccessInv, AnyStep, NEW v \in Workers, req'[v].at = "redeemed"
  PROVE  \/ req'[v] = req[v]
         \/ /\ \A w \in Workers \ {v} : req'[w] = req[w]
            /\ \E e \in Enrolments : /\ req'[v].enrolment = e /\ enrolments[e].at = "open"
                                     /\ enrolments'[e].at = "used" /\ UNCHANGED device
<1>0. Typed
  BY DEF AccessInv
<1>1. ASSUME ~(req'[v] = req[v])
      PROVE  IsAsked(v) /\ \A w \in Workers \ {v} : req'[w] = req[w]
  BY <1>0, <1>1, RequestsMove, Rows DEF Moves, GoesOn, Answers
<1>2. ASSUME IsAsked(v)
      PROVE  \E e \in Enrolments : /\ req'[v].enrolment = e /\ enrolments[e].at = "open"
                                   /\ enrolments'[e].at = "used" /\ UNCHANGED device
  <2>1. PICK e \in Enrolments : Enrols(v, e) /\ req'[v].enrolment = e /\ Redeem(e)
    BY <1>2 DEF IsAsked
  <2>2. enrolments[e].at = "open" /\ UNCHANGED device
    BY <2>1 DEF Enrols, Usable
  <2>3. enrolments'[e].at = "used"
    BY <1>0, <2>1 DEF Redeem, Typed, EnrolmentRow
  <2> QED
    BY <2>1, <2>2, <2>3
<1> QED
  BY <1>1, <1>2

\* Used tokens stay used, and nobody joins with one a second time.
LEMMA JoinKept ==
  ASSUME AccessInv, AnyStep
  PROVE  JoinOK'
<1>0. /\ Typed /\ ReqOK /\ JoinOK
      /\ device \in [Devices -> DeviceRow]
      /\ \A d \in Devices : device[d].via # 0 => device[d].via \in Enrolments
  <2>1. \A d \in Devices : device[d].via \in EnrolmentIds
    BY DEF AccessInv, Typed, DeviceRow
  <2> QED
    BY <2>1, IdSets DEF AccessInv, Typed
<1>1. ASSUME NEW w \in Workers, EnrolAdds(w)
      PROVE  JoinOK'
  <2>1. PICK d \in Devices, e \in Enrolments :
          /\ d = req[w].device /\ e = req[w].enrolment /\ req[w].at = "redeemed"
          /\ enrolments[e].at = "used" /\ \A o \in Devices : device[o].via # e
    BY <1>0, <1>1 DEF EnrolAdds, At, ReqOK, JoinOK
  <2>2. UNCHANGED enrolments
    BY <1>1 DEF EnrolAdds
  <2>3. device'[d].via = e /\ \A o \in Devices \ {d} : device'[o] = device[o]
    BY <1>0, <1>1, <2>1 DEF EnrolAdds
  <2>4. req'[w].at # "redeemed" /\ \A v \in Workers \ {w} : req'[v] = req[v]
    BY <1>0, <1>1, GoesIs DEF EnrolAdds, Places
  <2>5. ASSUME NEW v \in Workers, req'[v].at = "redeemed"
        PROVE  v # w /\ req'[v] = req[v] /\ req[v].enrolment # e
    BY <1>0, <2>1, <2>4, <2>5 DEF JoinOK
  <2> QED
    BY <1>0, <2>1, <2>2, <2>3, <2>5 DEF JoinOK, OneTokenOneDevice
<1>2. ASSUME \A d \in Devices : device'[d].via = device[d].via
      PROVE  JoinOK'
  <2>1. \A d \in Devices : device'[d].via # 0 => enrolments'[device'[d].via].at = "used"
    BY <1>0, <1>2, StaysUsed DEF JoinOK
  <2>2. OneTokenOneDevice'
    BY <1>0, <1>2 DEF JoinOK, OneTokenOneDevice
  <2>3. ASSUME NEW v \in Workers, req'[v].at = "redeemed"
        PROVE  /\ req'[v].enrolment \in Enrolments /\ enrolments'[req'[v].enrolment].at = "used"
               /\ \A d \in Devices : device'[d].via # req'[v].enrolment
               /\ \A w \in Workers : req'[w].at = "redeemed" /\ req'[w].enrolment = req'[v].enrolment => w = v
    <3>1. CASE req'[v] = req[v]
      <4>1. /\ req[v].enrolment \in Enrolments /\ enrolments[req[v].enrolment].at = "used"
            /\ \A d \in Devices : device[d].via # req[v].enrolment
        BY <1>0, <2>3, <3>1 DEF JoinOK
      <4>2. ASSUME NEW w \in Workers, req'[w].at = "redeemed", req'[w].enrolment = req'[v].enrolment
            PROVE  w = v
        BY <1>0, <2>3, <3>1, <4>1, <4>2, RedeemedMoves DEF JoinOK
      <4> QED
        BY <1>2, <3>1, <4>1, <4>2, StaysUsed
    <3>2. CASE ~(req'[v] = req[v])
      <4>1. PICK e \in Enrolments :
              /\ req'[v].enrolment = e /\ enrolments[e].at = "open"
              /\ enrolments'[e].at = "used" /\ UNCHANGED device
              /\ \A w \in Workers \ {v} : req'[w] = req[w]
        BY <2>3, <3>2, RedeemedMoves
      <4>2. \A d \in Devices : device'[d].via # e
        BY <1>0, <4>1, IdSets DEF JoinOK
      <4>3. ASSUME NEW w \in Workers, req'[w].at = "redeemed", req'[w].enrolment = req'[v].enrolment
            PROVE  w = v
        BY <1>0, <4>1, <4>3 DEF JoinOK
      <4> QED
        BY <4>1, <4>2, <4>3
    <3> QED
      BY <3>1, <3>2
  <2> QED
    BY <2>1, <2>2, <2>3 DEF JoinOK
<1> QED
  BY <1>1, <1>2, DevicesMove

----------------------------------------------------------------------------
(* The invariant.                                                          *)

\* Every variable keeps its type.
LEMMA TypedKept ==
  ASSUME AccessInv, AnyStep
  PROVE  Typed'
<1>0. Typed
  BY DEF AccessInv
<1>1. password' \in Passwords
  <2>1. password' \in Passwords \/ UNCHANGED password
    BY DEF AnyStep, Next, Step, Work, Asked, Expiry, Command, LoginFinds, LoginIssues, TurnedAway, Sweep,
              Authenticated, Proves, PasswordChanged, LoginSpends, EnrolFails, EnrolIssues, RevokeRefused, Invited,
              RevokeDropsTokens, RevokeDropsEnrolments, ChallengeAsked, LoginLooksUp, ChallengeIssued,
              EnrolAdds, RevokeMarks, CommandRevokes,
              StatementFails, Enrols, Presented, ChallengesExpire, TokenExpires, EnrolmentExpires, CommandDropsEnrolments,
              Restart, vars, stored
  <2> QED
    BY <1>0, <2>1 DEF Typed
<1>2. command' \in DeviceIds
  <2>1. command' = Nobody \/ command' \in Devices \/ UNCHANGED command
    BY DEF AnyStep, Next, Step, Work, Asked, Expiry, Command, LoginFinds, LoginIssues, TurnedAway, Sweep,
              Authenticated, Proves, PasswordChanged, LoginSpends, EnrolFails, EnrolIssues, RevokeRefused, Invited,
              RevokeDropsTokens, RevokeDropsEnrolments, ChallengeAsked, LoginLooksUp, ChallengeIssued,
              EnrolAdds, RevokeMarks, CommandRevokes,
              StatementFails, Enrols, Presented, ChallengesExpire, TokenExpires, EnrolmentExpires, CommandDropsEnrolments,
              Restart, vars
  <2> QED
    BY <1>0, <2>1 DEF Typed, DeviceIds
<1> QED
  BY <1>0, <1>1, <1>2, DevicesMove, EnrolmentsMove, SessionsMove, ChallengesMove, MintedMoves, RequestsMove
     DEF Typed

\* A step keeps all of it, the command line's steps included.
LEMMA InvKept ==
  ASSUME AccessInv, AnyStep
  PROVE  AccessInv'
BY TypedKept, HandedKept, ReqKept, SessionsMove, ChallengesMove, SignedKept, JoinKept, CountedKept, GuessKept
   DEF AccessInv

\* It holds of an account with the devices it has to begin with.
LEMMA InvAtFirst ==
  ASSUME Init
  PROVE  AccessInv
<1>0. /\ NoSession \in TokenRow /\ NoSession.device = Nobody /\ NoSession.challenge = 0
      /\ NoEnrolment \in EnrolmentRow /\ NoEnrolment.at = "none" /\ NoEnrolment.failures = 0
      /\ NoEnrolment.unsettled = 0
      /\ NoRequest \in Request /\ NoRequest.at = "idle" /\ NoRequest.kind = "none"
      /\ NoRequest.challenge = 0 /\ FirstPassword \in Passwords
      /\ 0 \in TokenIds /\ 0 \in ChallengeIds /\ 0 \in EnrolmentIds /\ Nobody \in DeviceIds
  BY Rows, AccessAssumption DEF TokenIds, ChallengeIds, EnrolmentIds, DeviceIds
<1>1. PICK n \in Nat : n = Len(Founders) /\ DOMAIN Founders = 1..n /\ n <= MaxTokens
  BY AccessAssumption
<1>2. /\ \A t \in 1..n : Founders[t] \in Devices /\ t \in Tokens
      /\ \A t, u \in 1..n : Founders[t] = Founders[u] => t = u
      /\ n \in TokenIds /\ Nobody \notin Devices
  BY <1>1, AccessAssumption DEF Tokens, TokenIds
<1>3. \A t \in Tokens : by_token[t] = IF t \in 1..n THEN [NoSession EXCEPT !.device = Founders[t]] ELSE NoSession
  BY <1>1 DEF Init
<1>4. ASSUME NEW t \in Tokens
      PROVE  /\ by_token[t] \in TokenRow /\ by_token[t].challenge = 0
             /\ by_token[t].device = IF t \in 1..n THEN Founders[t] ELSE Nobody
  <2>1. CASE t \in 1..n
    <3>1. PICK d \in Devices : d = Founders[t]
      BY <1>2, <2>1
    <3>2. by_token[t] = [NoSession EXCEPT !.device = d] /\ d \in DeviceIds
      BY <1>3, <2>1, <3>1 DEF DeviceIds
    <3> QED
      BY <1>0, <2>1, <3>1, <3>2 DEF TokenRow
  <2>2. CASE t \notin 1..n
    BY <1>0, <1>3, <2>2
  <2> QED
    BY <2>1, <2>2
<1>5. /\ device \in [Devices -> DeviceRow] /\ \A d \in Devices : device[d].via = 0
  BY <1>0 DEF Init, DeviceRow
<1>6. by_token \in [Tokens -> TokenRow]
  <2>1. by_token = [t \in Tokens |-> by_token[t]]
    BY DEF Init
  <2> QED
    BY <1>4, <2>1
<1>7. by_device \in [Devices -> SUBSET Tokens] /\ \A d \in Devices : by_device[d] = {t \in 1..n : Founders[t] = d}
  <2>1. by_device = [d \in Devices |-> {t \in 1..n : Founders[t] = d}]
    BY <1>1 DEF Init
  <2>2. \A d \in Devices : {t \in 1..n : Founders[t] = d} \in SUBSET Tokens
    BY <1>2
  <2> QED
    BY <2>1, <2>2
<1>8. Typed
  <2>1. minted \in [tokens : TokenIds, challenges : ChallengeIds, enrolments : EnrolmentIds]
    BY <1>0, <1>1, <1>2 DEF Init
  <2> QED
    BY <1>0, <1>5, <1>6, <1>7, <2>1 DEF Init, Typed
<1>9. HandedOK
  <2>1. \A K : "none" \notin K => Cardinality(Asking(K)) = 0
    <3> TAKE K
    <3>1. "none" \notin K => Asking(K) = {}
      BY <1>0 DEF Init, Asking
    <3> QED
      BY <3>1, FS_EmptySet
  <2>2. minted.tokens = n /\ minted.challenges = 0 /\ minted.enrolments = 0
    BY <1>1 DEF Init
  <2>3. /\ Fits(minted.tokens, {"login", "enrol"}, MaxTokens)
        /\ Fits(minted.challenges, {"challenge"}, MaxChallenges)
        /\ Fits(minted.enrolments, {"invite"}, MaxEnrolments)
    BY <1>1, <2>1, <2>2, IdSets DEF Fits
  <2>4. \A t \in Tokens : t > n => t \notin 1..n
    BY IdSets
  <2>5. \A t \in Tokens : t > minted.tokens => by_token[t] = NoSession
    BY <1>3, <2>2, <2>4
  <2> QED
    BY <1>0, <1>4, <2>2, <2>3, <2>5 DEF Init, HandedOK
<1>10. ReqOK
  BY <1>0 DEF Init, ReqOK
<1>11. TablesOK
  <2>1. ASSUME NEW d \in Devices
        PROVE  by_device[d] = {t \in Tokens : by_token[t].device = d}
    BY <1>2, <1>4, <1>7
  <2>2. ASSUME NEW d \in Devices
        PROVE  Cardinality(by_device[d]) <= TOKENS_PER_DEVICE
    <3>1. TOKENS_PER_DEVICE \in Nat /\ 1 <= TOKENS_PER_DEVICE
      BY AccessAssumption
    <3>2. PICK S : S = by_device[d]
      OBVIOUS
    <3>3. CASE S = {}
      BY <3>1, <3>2, <3>3, FS_EmptySet
    <3>4. CASE S # {}
      <4>1. PICK t \in S : S = {t}
        BY <1>2, <1>7, <3>2, <3>4
      <4>2. Cardinality(S) = 1
        BY <4>1, FS_Singleton
      <4> QED
        BY <3>1, <3>2, <4>2
    <3> QED
      BY <3>3, <3>4
  <2> QED
    BY <2>1, <2>2 DEF TablesOK
<1>12. ChallengesOK
  BY FS_EmptySet, AccessAssumption DEF Init, ChallengesOK
<1>13. SignedOK
  BY <1>0, <1>4 DEF Init, SignedOK
<1>14. JoinOK
  BY <1>0, <1>5 DEF Init, JoinOK, OneTokenOneDevice
<1>15. GuessOK
  BY <1>0, AccessAssumption DEF Init, GuessOK
<1>16. CountedOK
  BY <1>0 DEF Init, CountedOK
<1> QED
  BY <1>8, <1>9, <1>10, <1>11, <1>12, <1>13, <1>14, <1>15, <1>16 DEF AccessInv

\* One challenge lets one request in.
LEMMA OneLetIn ==
  ASSUME AccessInv
  PROVE  OneSignatureOneSession
<1> SUFFICES ASSUME NEW c \in Challenges
             PROVE  LetIn(c) <= 1
  BY DEF OneSignatureOneSession
<1> DEFINE T == {t \in Tokens : by_token[t].challenge = c}
           W == {w \in Workers : req[w].at = "spent" /\ req[w].challenge = c}
<1>1. c # 0
  BY IdSets
<1>2. SignedOK
  BY DEF AccessInv
<1>3. \A t, u \in T : t = u
  BY <1>1, <1>2 DEF SignedOK
<1>4. \A w, v \in W : w = v
  BY <1>2 DEF SignedOK
<1>5. \A t \in T, w \in W : FALSE
  BY <1>1, <1>2 DEF SignedOK
<1> HIDE DEF T, W
<1>6. \A S : (\A x, y \in S : x = y) => Cardinality(S) = 0 \/ Cardinality(S) = 1
  <2> TAKE S
  <2>1. CASE S = {}
    BY <2>1, FS_EmptySet
  <2>2. CASE S # {}
    <3>1. ASSUME \A x, y \in S : x = y
          PROVE  \E x \in S : S = {x}
      BY <2>2, <3>1
    <3> QED
      BY <3>1, FS_Singleton
  <2> QED
    BY <2>1, <2>2
<1>7. T = {} \/ W = {}
  BY <1>5
<1>8. Cardinality(T) + Cardinality(W) <= 1
  <2>1. Cardinality(T) \in {0, 1} /\ Cardinality(W) \in {0, 1}
    BY <1>3, <1>4, <1>6
  <2>2. Cardinality(T) = 0 \/ Cardinality(W) = 0
    BY <1>7, FS_EmptySet
  <2> QED
    BY <2>1, <2>2
<1> QED
  BY <1>8 DEF LetIn, T, W

\* What else the invariant says in the words of the runs.
LEMMA InvGives ==
  ASSUME AccessInv
  PROVE  OneSignatureOneSession /\ OneTokenOneDevice /\ GuessesBounded
<1>1. OneTokenOneDevice /\ GuessesBounded
  BY DEF AccessInv, JoinOK, GuessOK, GuessesBounded, Usable
<1> QED
  BY <1>1, OneLetIn

----------------------------------------------------------------------------
(* Theorems.                                                               *)

\* The invariant holds whatever the server is asked, also with the expiry of
\* what it holds and with restarts.
THEOREM AccessInvariant == Spec => []AccessInv
<1>1. AccessInv /\ [Next]_vars => AccessInv'
  BY InvKept DEF AnyStep
<1> QED
  BY InvAtFirst, <1>1, PTL DEF Spec

\* The two tables of Sessions say the same of every token, and no device holds
\* more than its share of tokens or of challenges.
THEOREM TablesCorrect == Spec => []TablesAgree
<1>1. AccessInv => TablesAgree
  <2> SUFFICES ASSUME AccessInv
               PROVE  TablesAgree
    OBVIOUS
  <2>1. TypeOK
    <3>1. /\ \A d \in Devices : Cardinality(challenges[d]) <= CHALLENGES_PER_DEVICE
      BY DEF AccessInv, ChallengesOK
    <3> QED
      BY <3>1 DEF AccessInv, Typed, TypeOK, DeviceRow, EnrolmentRow, TokenRow, ChallengeRow, Request, Places,
                  DeviceIds, TokenIds, ChallengeIds, EnrolmentIds
  <2> QED
    BY <2>1 DEF AccessInv, TablesOK, TablesAgree
<1> QED
  BY AccessInvariant, <1>1, PTL

\* Of requests racing with the same answer to a challenge one is let in.
THEOREM OneSessionCorrect == Spec => []OneSignatureOneSession
BY AccessInvariant, InvGives, PTL

\* However the devices of an account race to revoke each other, one that can
\* reach it is left, if it has one to begin with.
THEOREM ReachableCorrect ==
  ASSUME Founders # <<>>
  PROVE  Spec => []AccountReachable
<1>1. Init => AccountReachable
  <2> SUFFICES ASSUME Init
               PROVE  Live # {}
    BY DEF AccountReachable
  <2>1. Founders[1] \in Devices /\ 1 \in DOMAIN Founders
    BY AccessAssumption
  <2>2. Founders[1] \in Range(Founders)
    BY <2>1 DEF Range
  <2>3. device[Founders[1]].status = "live"
    BY <2>1, <2>2 DEF Init
  <2> QED
    BY <2>1, <2>3 DEF Live
<1>2. AccessInv /\ AccountReachable /\ [Next]_vars => AccountReachable'
  <2> SUFFICES ASSUME AccessInv, AccountReachable, [Next]_vars
               PROVE  AccountReachable'
    OBVIOUS
  <2>0. PICK one \in Devices : device[one].status = "live"
    BY DEF AccountReachable, Live
  <2>1. Typed /\ ReqOK /\ device \in [Devices -> DeviceRow]
    BY DEF AccessInv, Typed
  <2>2. CASE UNCHANGED device
    BY <2>0, <2>2 DEF AccountReachable, Live
  <2>3. ASSUME NEW w \in Workers, EnrolAdds(w)
        PROVE  AccountReachable'
    <3>1. \E d \in Devices : device'[d].status = "live"
      BY <2>1, <2>3 DEF EnrolAdds, At, ReqOK
    <3> QED
      BY <3>1 DEF AccountReachable, Live
  <2>4. ASSUME NEW w \in Workers, RevokeMarks(w)
        PROVE  AccountReachable'
    <3>1. PICK d \in Devices : device' = [device EXCEPT ![d].status = "revoked"]
      BY <2>1, <2>4 DEF RevokeMarks, MayRevoke, ReqOK
    <3>2. Cardinality(Live) > 1
      BY <2>4 DEF RevokeMarks, NotTheLast
    <3>3. PICK other \in Live : other # d
      <4>1. ASSUME Live \subseteq {d}
            PROVE  FALSE
        <5>1. IsFiniteSet({d}) /\ Cardinality({d}) = 1
          BY FS_Singleton
        <5>2. Cardinality(Live) <= 1 /\ Cardinality(Live) \in Nat
          BY <4>1, <5>1, FS_Subset, FS_CardinalityType
        <5> QED
          BY <3>2, <5>2
      <4> QED
        BY <4>1
    <3>4. other \in Devices /\ device'[other].status = "live"
      BY <2>1, <3>1, <3>3 DEF Live
    <3> QED
      BY <3>4 DEF AccountReachable, Live
  <2>5. ASSUME ~\E w \in Workers : EnrolAdds(w) \/ RevokeMarks(w)
        PROVE  UNCHANGED device
    BY <2>5 DEF Next, Step, Work, Asked, Expiry, LoginFinds, LoginIssues, TurnedAway, Sweep,
                Authenticated, Proves, PasswordChanged, LoginSpends, EnrolFails, EnrolIssues, RevokeRefused, Invited,
                RevokeDropsTokens, RevokeDropsEnrolments, ChallengeAsked, LoginLooksUp, ChallengeIssued,
                StatementFails, Enrols, Presented, ChallengesExpire, TokenExpires, EnrolmentExpires, Restart, vars, stored
  <2> QED
    BY <2>2, <2>3, <2>4, <2>5
<1> QED
  BY AccessInvariant, <1>1, <1>2, PTL DEF Spec

\* No two devices join with one enrolment token, across racing joins and
\* restarts in the middle of one.
THEOREM OneDeviceCorrect == Spec => []OneTokenOneDevice
BY AccessInvariant, InvGives, PTL

\* An enrolment token is good for no more wrong passwords than it has attempts,
\* and one for each whose second statement a crash or a failure kept from running.
THEOREM GuessesCorrect == Spec => []GuessesBounded
BY AccessInvariant, InvGives, PTL

=============================================================================
