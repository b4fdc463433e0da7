-------------------------- MODULE MCAgentLifecycle --------------------------
(***************************************************************************)
(* Instances of AgentLifecycle for TLC.                                    *)
(***************************************************************************)
EXTENDS AgentLifecycle

CONSTANTS a1, a2, alice

MCAgents == {a1, a2}
MCOwners == {alice}

\* The default policy, and the one that is lenient in everything.
MCPolicies ==
    {[require_approval |-> strict, require_owner |-> strict,
      auto_rotate |-> strict, revoke_on_decommission |-> strict] : strict \in BOOLEAN}

=============================================================================
