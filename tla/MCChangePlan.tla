--------------------------- MODULE MCChangePlan ---------------------------
(* ChangePlan on a small instance: a create, and an update that depends on it. *)
EXTENDS ChangePlan, TLC

MCDepends == (1 :> {}) @@ (2 :> {1})
Symmetry == Permutations(Plan)
=============================================================================
