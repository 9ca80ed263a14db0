------------------------------- MODULE Answers -------------------------------
(***************************************************************************)
(* What the followed connection is asked, and the places an account's      *)
(* requests take (AtOnce, start and Going in limits.rs; pull and push in   *)
(* api/records.rs): a pull holds its place until its page is read, a push  *)
(* until it is worked off, and either may be given up on at any moment.    *)
(*                                                                         *)
(* All of it is one account's.  Its requests on other connections, and     *)
(* those that outlive this one, are how many of them hold a place.         *)
(***************************************************************************)
EXTENDS Connections

CONSTANTS
  AT_ONCE     \* PULLS.max and PUSHES.max: places there are for each kind

Places == {"pull", "push"}

ASSUME AnswersAssumption == AT_ONCE \in [Places -> Nat]

VARIABLES
  going,      \* what the account has going, by kind
  here,       \* requests of this connection, by kind and how far they got
  elsewhere   \* external: others that hold a place

places == <<going, here, elsewhere>>
everything == <<vars, places>>

----------------------------------------------------------------------------

NoneHere == [k \in Places |-> [asked |-> 0, worked_on |-> 0, page |-> 0]]

AnswersInit ==
  /\ Init
  /\ going = [k \in Places |-> 0]
  /\ here = NoneHere
  /\ elsewhere = [k \in Places |-> 0]

\* One request less that is at this stage.
Leaves(k, stage) == here' = [here EXCEPT ![k][stage] = @ - 1]

Moves(k, from, to) ==
  /\ here[k][from] > 0
  /\ here' = [here EXCEPT ![k][from] = @ - 1, ![k][to] = @ + 1]

\* Those that hold a place.
HeldHere(k) == here[k].worked_on + here[k].page

PlaceLeft(k) == going[k] < AT_ONCE[k]
Taken(k) == going' = [going EXCEPT ![k] = @ + 1]

\* Going::drop.
GivenBack(k) == going' = [going EXCEPT ![k] = @ - 1]

----------------------------------------------------------------------------
(* A request, from its arrival to the end of its answer.                   *)

Arrives ==
  /\ ReadsRequest
  /\ \/ \E k \in Places : here' = [here EXCEPT ![k].asked = @ + 1]
     \/ UNCHANGED here
  /\ UNCHANGED <<going, elsewhere>>

\* start, when there is room: in the handler, before anything is read.
Starts(k) ==
  /\ PlaceLeft(k)
  /\ Moves(k, "asked", "worked_on")
  /\ Taken(k)
  /\ UNCHANGED <<vars, elsewhere>>

\* What is left to send is a refusal.
Refused(k) ==
  /\ ~PlaceLeft(k) /\ here[k].asked > 0
  /\ Leaves(k, "asked")
  /\ UNCHANGED <<vars, going, elsewhere>>

\* Mutant: the place is the handler's.
PageMadeFree == Moves("pull", "worked_on", "page") /\ GivenBack("pull")

\* The place moves into the body.
PageMade == Moves("pull", "worked_on", "page") /\ UNCHANGED going

Pulled == PageMade /\ UNCHANGED <<vars, elsewhere>>

\* A push is worked off, or either fails or runs out of time: an answer
\* without a place is left to send.
WorkEnds(k) ==
  /\ here[k].worked_on > 0
  /\ Leaves(k, "worked_on")
  /\ GivenBack(k)
  /\ UNCHANGED <<vars, elsewhere>>

\* A stream is reset, or its answer sent in full: handler and body go, and
\* what they hold with them.
RequestEnds(k, stage) ==
  /\ AnswerEnds
  /\ here[k][stage] > 0
  /\ Leaves(k, stage)
  /\ IF stage = "asked" THEN UNCHANGED going ELSE GivenBack(k)
  /\ UNCHANGED elsewhere

\* The same, of an answer without a place.
OtherEnds ==
  /\ AnswerEnds
  /\ doing.answering > here["pull"].asked + HeldHere("pull") + here["push"].asked + HeldHere("push")
  /\ UNCHANGED places

\* The connection goes.  What it was answering goes too, but not all at once:
\* its handlers are tasks.
RequestsDropped ==
  \E late \in [Places -> 0..H2_STREAMS] :
    /\ \A k \in Places : late[k] <= HeldHere(k)
    /\ here' = NoneHere
    /\ elsewhere' = [k \in Places |-> elsewhere[k] + late[k]]
    /\ going' = [k \in Places |-> going[k] - (HeldHere(k) - late[k])]

ConnectionEnds ==
  (ReadsEnd \/ FirstTooLate \/ IdleTooLong \/ PingUnanswered) /\ RequestsDropped

ElsewhereStarts(k) ==
  /\ PlaceLeft(k)
  /\ Taken(k)
  /\ elsewhere' = [elsewhere EXCEPT ![k] = @ + 1]
  /\ UNCHANGED <<vars, here>>

ElsewhereEnds(k) ==
  /\ elsewhere[k] > 0
  /\ GivenBack(k)
  /\ elsewhere' = [elsewhere EXCEPT ![k] = @ - 1]
  /\ UNCHANGED <<vars, here>>

----------------------------------------------------------------------------

\* Steps of the connection that are about no request.
Meanwhile ==
  \/ \E a \in Addresses : OtherOpens(a) \/ OtherCloses(a)
  \/ Accepts \/ HandshakeFails \/ HandshakeDone
  \/ \E what \in {"bytes", "request", "pong", "end"} : Sends(what)
  \/ Tick \/ Pings \/ ReadsBytes \/ ReadsPong \/ ReadsNothing \/ StillAnswering \/ IdleForNow

AnswersNext ==
  \/ Meanwhile /\ UNCHANGED places
  \/ Arrives \/ Pulled \/ OtherEnds \/ ConnectionEnds
  \/ \E k \in Places :
       \/ Starts(k) \/ Refused(k) \/ WorkEnds(k)
       \/ \E stage \in {"asked", "worked_on", "page"} : RequestEnds(k, stage)
       \/ ElsewhereStarts(k) \/ ElsewhereEnds(k)

AnswersSpec == AnswersInit /\ [][AnswersNext]_everything

\* That of the connection; no request is made to end.
AnswersFair ==
  /\ AnswersSpec
  /\ WF_vars(Reader) /\ WF_vars(Tick)
  /\ SF_vars(ReadsNothing) /\ SF_vars(FirstTooLate)

----------------------------------------------------------------------------

\* "The room is taken until what comes back is dropped": an account's pulls and
\* pushes that hold memory are those that are counted, and no more than there
\* is room for, whether they are answered, refused, failed, timed out, reset,
\* left unread or outlive their connection (start, Going, Holding).
PlacesExact ==
  \A k \in Places : /\ going[k] = HeldHere(k) + elsewhere[k]
                    /\ going[k] <= AT_ONCE[k]

=============================================================================
