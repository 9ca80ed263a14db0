---------------------------- MODULE RecordStore ----------------------------
(***************************************************************************)
(* What the server promises of one account's records, whatever goes on     *)
(* inside it: a store of numbered versions with one counter.               *)
(*   - A write is one step.  What it changes gets numbers above every      *)
(*     number given out before, no two the same.                           *)
(*   - Nothing goes but a tombstone or a manifest, and the counter stays.  *)
(***************************************************************************)
EXTENDS Naturals

CONSTANTS Ids, Manifests

VARIABLES store, top

Version == [seq : Nat, deleted : BOOLEAN]
Nothing == [seq |-> 0, deleted |-> FALSE]

Init ==
  /\ store = [id \in Ids |-> Nothing]
  /\ top = 0

Write ==
  /\ top' \in Nat /\ top' > top
  /\ store' \in [Ids -> Version]
  /\ \A id \in Ids : store'[id] = store[id] \/ store'[id].seq \in (top + 1)..top'
  /\ \A id, other \in Ids : id # other /\ store'[id].seq > top
                              => store'[id].seq # store'[other].seq

Forget ==
  /\ store' \in [Ids -> Version]
  /\ \A id \in Ids :
       \/ store'[id] = store[id]
       \/ store'[id] = Nothing /\ (store[id].deleted \/ id \in Manifests)
  /\ UNCHANGED top

Next == Write \/ Forget

Spec == Init /\ [][Next]_<<store, top>>

=============================================================================
