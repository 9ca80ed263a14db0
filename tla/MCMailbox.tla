----------------------------- MODULE MCMailbox -----------------------------
(***************************************************************************)
(* Mailbox on small instances: the quotas and symmetry.                    *)
(***************************************************************************)
EXTENDS Mailbox, TLC

\* Room for anything these instances can write.
AmpleQuotas == {[records |-> 100, bytes |-> 1000, server_bytes |-> 1000]}

\* A quota two records fill, and a smaller one that leaves an account over.
TightQuotas == {[records |-> 2, bytes |-> 3, server_bytes |-> 4],
                [records |-> 1, bytes |-> 2, server_bytes |-> 2]}

Symmetric == Permutations(Ids \ Manifests)

=============================================================================
