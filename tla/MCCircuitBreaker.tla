-------------------------- MODULE MCCircuitBreaker --------------------------
(***************************************************************************)
(* Instances of CircuitBreaker for TLC.                                    *)
(***************************************************************************)
EXTENDS CircuitBreaker

CONSTANTS c1, c2, c3

MCCallers == {c1, c2, c3}

=============================================================================
