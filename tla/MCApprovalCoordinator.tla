------------------------ MODULE MCApprovalCoordinator ------------------------
(* Instances of ApprovalCoordinator: a chain of two required stages, alice  *)
(* permitted on the first and bob on the second.                            *)
EXTENDS ApprovalCoordinator, TLC

CONSTANTS alice, bob, b1, b2, w1, w2, w3, e1, e2

ChainStages     == {0, 1}
ChainRequired   == {0, 1}
ChainPrincipals == {alice, bob}
ChainAuthorized == [s \in ChainStages |-> IF s = 0 THEN {alice} ELSE {bob}]

Ballot(s, p, k, d) == [stage |-> s, by |-> p, kind |-> k, decision |-> d]

\* The decisions that complete the chain, a deny, an allow by someone whom
\* the stage does not permit, an advisory one, and one for a missing stage.
AllVotes == {Ballot(0, alice, "human", "allow"), Ballot(1, bob, "human", "allow"),
             Ballot(1, bob, "human", "deny"), Ballot(1, alice, "human", "allow"),
             Ballot(1, alice, "llm_advisory", "allow"), Ballot(2, bob, "human", "allow")}

\* Without the two that are turned away at the same guards.
RacingVotes == {Ballot(0, alice, "human", "allow"), Ballot(1, bob, "human", "allow"),
                Ballot(1, bob, "human", "deny"), Ballot(1, alice, "llm_advisory", "allow")}

TwoBindings == {b1, b2}

\* The least that completes the chain.
CompletingVotes == {Ballot(0, alice, "human", "allow"), Ballot(1, bob, "human", "allow")}

Symmetry == Permutations({w1, w2}) \cup Permutations({b1, b2})
==============================================================================
