------------------------- MODULE MCSagaOrchestrator -------------------------
(***************************************************************************)
(* Instances of SagaOrchestrator for TLC: two tasks that may execute the   *)
(* same step, steps with and without retries and undo_api.                 *)
(***************************************************************************)
EXTENDS SagaOrchestrator

CONSTANTS c1, c2

MCCallers == {c1, c2}
MCRetries == {0, 1}

=============================================================================
