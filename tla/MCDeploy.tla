------------------------------- MODULE MCDeploy -------------------------------
(* A small instance of Deploy. *)
EXTENDS Deploy, TLC

Symmetry == Permutations(Posters)
=============================================================================
