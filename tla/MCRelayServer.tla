---------------------------- MODULE MCRelayServer ----------------------------
(***************************************************************************)
(* Instances of RelayServer for TLC.                                       *)
(***************************************************************************)
EXTENDS RelayServer

CONSTANTS s1, s2, c1, c2

TwoSenders == {s1, s2}
TwoSockets == {c1, c2}

=============================================================================
