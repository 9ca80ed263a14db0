------------------------------ MODULE MCEvents ------------------------------
(***************************************************************************)
(* Events on a small instance: an account of one device.                   *)
(***************************************************************************)
EXTENDS Events

CONSTANT phone

Alone == <<phone>>

=============================================================================
