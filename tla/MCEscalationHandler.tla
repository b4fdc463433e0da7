------------------------ MODULE MCEscalationHandler ------------------------
(***************************************************************************)
(* Values for model checking EscalationHandler: two requests, the default  *)
(* quorum of two approvals or one denial among three approvers, and one    *)
(* thread that escalates and asks.                                         *)
(***************************************************************************)
EXTENDS EscalationHandler, TLC

CONSTANTS q1, q2, a1, a2, a3, h1

MCRequests   == {q1, q2}
MCApprovers  == {a1, a2, a3}
MCHosts      == {h1}
MCEscalators == {h1}

MCSymmetry == Permutations(MCRequests) \cup Permutations(MCApprovers)

=============================================================================
