------------------------------- MODULE MCUpdate -------------------------------
(***************************************************************************)
(* Update on a small instance: the version that runs, and a newer one that *)
(* changes the database.                                                   *)
(***************************************************************************)
EXTENDS Update

CONSTANTS old, new

Schemas == [version \in Images |-> IF version = new THEN 2 ELSE 1]

=============================================================================
