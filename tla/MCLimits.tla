------------------------------ MODULE MCLimits ------------------------------
(***************************************************************************)
(* Limits on small instances: which address is in which network.           *)
(***************************************************************************)
EXTENDS Limits, TLC

CONSTANTS near, nearby, far, here, there

\* Two addresses of one network and one of another.
Map == [a \in Addresses |-> IF a = far THEN there ELSE here]

Alike == Permutations(Workers) \cup Permutations({near, nearby})

=============================================================================
