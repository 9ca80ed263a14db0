----------------------------- MODULE MCPairing -----------------------------
(***************************************************************************)
(* Pairing on small instances: whose the devices are.                      *)
(***************************************************************************)
EXTENDS Pairing, TLC

\* Every device in one account.
Together == [d \in Devices |-> CHOOSE account \in Accounts : TRUE]

Alike == Permutations(Joiners)

=============================================================================
