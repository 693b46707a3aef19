-------------------------- MODULE MCAuthBreaker --------------------------
(* AuthBreaker on a small instance.                                       *)
EXTENDS AuthBreaker, TLC

Symmetry == Permutations(Caller)
=============================================================================
