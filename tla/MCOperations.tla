-------------------------- MODULE MCOperations --------------------------
(* Operations on a small instance: interchangeable attempts. *)
EXTENDS Operations, TLC

Symmetry == Permutations(Attempt)
=============================================================================
