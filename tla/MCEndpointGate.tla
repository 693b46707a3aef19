-------------------------- MODULE MCEndpointGate --------------------------
(* EndpointGate on a small instance: a call each for two slots, one that   *)
(* waits, and one that arrives while a slot is handed on.  The run checks  *)
(* liveness, so the calls are not declared symmetric.                      *)
EXTENDS EndpointGate

CONSTANTS c1, c2, c3, c4

FourCalls == {c1, c2, c3, c4}
=============================================================================
