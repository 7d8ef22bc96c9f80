-------------------------- MODULE MCOperatorQueue ---------------------------
(***************************************************************************)
(* Small instances of OperatorQueue for TLC.                               *)
(***************************************************************************)
EXTENDS OperatorQueue, TLC

CONSTANT c1

OneCompany == [d \in Docs |-> c1]

Actors == Permutations(Workers) \cup Permutations(Threads)

=============================================================================
