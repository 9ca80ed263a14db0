------------------------------ MODULE MCAnswers ------------------------------
(***************************************************************************)
(* Answers on a small instance: one place for pulls and one for pushes.    *)
(***************************************************************************)
EXTENDS Answers

OneEach == [k \in Places |-> 1]

=============================================================================
