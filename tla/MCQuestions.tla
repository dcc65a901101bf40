------------------------------ MODULE MCQuestions ------------------------------
(* Instances of Questions for TLC. *)
EXTENDS Questions, TLC

Symmetry == Permutations(Request)
=============================================================================
