----------------------------- MODULE MCFounding -----------------------------
(***************************************************************************)
(* Founding on a small instance: registration with invites and without,    *)
(* on a server of one account or of two.                                   *)
(***************************************************************************)
EXTENDS Founding

Small == {[registration |-> "invite", max_accounts |-> 1],
          [registration |-> "invite", max_accounts |-> 2],
          [registration |-> "open", max_accounts |-> 1]}

=============================================================================
