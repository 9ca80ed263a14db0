------------------------------ MODULE MCAccess ------------------------------
(***************************************************************************)
(* Access on small instances: who is in to begin with, and symmetry.       *)
(***************************************************************************)
EXTENDS Access, TLC

CONSTANTS laptop, phone, tablet

\* An account with one device.
Alone == <<laptop>>

Interchangeable == Permutations(Workers) \cup Permutations({phone, tablet})

=============================================================================
