--------------------------- MODULE AgentLifecycle ---------------------------
(***************************************************************************)
(* The agent lifecycle manager of AgentMesh (agentmesh/lifecycle): one     *)
(* LifecycleManager with the JSON file it keeps its agents in, the         *)
(* CredentialRotator and the OrphanDetector that work on it, and crashes   *)
(* of the process at any point, after which a new manager loads the file.  *)
(*                                                                         *)
(* The classes have no lock and are called from one thread: a call is the  *)
(* only one in progress.  What can come between its steps is a crash, so a *)
(* call is cut at each point where the file has changed.  Saving is        *)
(* Path.write_text, which empties the file first: a save is an action that *)
(* changes memory and empties the file, and Write, which fills it.  A file *)
(* that is not complete does not parse, and loads as no agents at all.     *)
(*                                                                         *)
(* Time passes between calls, in units of Tick.  A credential is its age   *)
(* and `quiet' the time since the last heartbeat, or since the creation of *)
(* an agent that never sent one; both stop one past the limit they are     *)
(* compared with.  Events, names and the reason texts are left out.        *)
(***************************************************************************)
EXTENDS Naturals

CONSTANTS
    Agents,           \* agent ids; request_provisioning never gives one twice
    Owners, NoOwner,  \* the owners, and the empty string
    NoCred,           \* credential_id None
    Policies,         \* LifecyclePolicy, with its credential_policy
    TTL,              \* max_credential_ttl
    Overlap,          \* rotation_overlap
    OrphanThreshold,  \* orphan_threshold
    MaxCrashes        \* bound on the crashes of the process

LifecyclePolicy ==
    [require_approval : BOOLEAN, require_owner : BOOLEAN,
     auto_rotate : BOOLEAN, revoke_on_decommission : BOOLEAN]

ASSUME ConstantsAssumption ==
    /\ NoOwner \notin Owners
    /\ NoCred \notin Nat
    /\ Policies \subseteq LifecyclePolicy
    /\ TTL \in Nat
    /\ Overlap \in Nat
    /\ OrphanThreshold \in Nat
    /\ MaxCrashes \in Nat

VARIABLES
    policy,    \* the policy of the manager
    agents,    \* the manager's _agents
    disk,      \* what _load would read from the file
    saving,    \* the file was emptied and is not written yet
    todo,      \* what the call in progress does after the save
    past,      \* history: what was done with each agent
    crashes    \* crashes so far

vars == <<policy, agents, disk, saving, todo, past, crashes>>

VALID_TRANSITIONS ==
    [absent               |-> {},
     pending_approval     |-> {"provisioned", "decommissioned"},
     provisioned          |-> {"active", "decommissioning"},
     active               |-> {"suspended", "rotating_credentials",
                               "decommissioning", "orphaned"},
     suspended            |-> {"active", "decommissioning"},
     rotating_credentials |-> {"active", "suspended"},
     orphaned             |-> {"active", "decommissioning"},
     decommissioning      |-> {"decommissioned"},
     decommissioned       |-> {}]

\* The states of an agent, and "absent" for one the manager does not hold.
AgentLifecycleState == DOMAIN VALID_TRANSITIONS

Credential == 0 .. TTL + 1

ManagedAgent ==
    [state : AgentLifecycleState, owner : Owners \cup {NoOwner},
     cred : Credential \cup {NoCred}, quiet : 0 .. OrphanThreshold + 1]

Absent  == [state |-> "absent", owner |-> NoOwner, cred |-> NoCred, quiet |-> 0]
Nothing == [a \in Agents |-> Absent]

\* What a call still does once its save is written: issue a credential,
\* finish or return from decommission, look at the other agents of a sweep.
Todo == [what : {"nothing", "issue", "finish", "return", "sweep"},
         on : SUBSET Agents]
Idle == [what |-> "nothing", on |-> {}]

Ready == ~saving /\ todo = Idle
Held  == {a \in Agents : agents[a].state # "absent"}
IsActive(a) == agents[a].state \in {"active", "rotating_credentials"}

Init ==
    /\ policy \in Policies
    /\ agents = Nothing
    /\ disk = Nothing
    /\ saving = FALSE
    /\ todo = Idle
    /\ past = [a \in Agents |-> {}]
    /\ crashes = 0
-----------------------------------------------------------------------------
(* Saving                                                                  *)

\* _save after the agents became `changed': the file is emptied.
Save(changed, after) ==
    /\ agents' = changed
    /\ disk' = Nothing
    /\ saving' = TRUE
    /\ todo' = after
    /\ UNCHANGED <<policy, crashes>>

\* Mutant: _transition does not consult the table.
TransitionUnchecked(a, state, after) ==
    /\ a \in Agents /\ agents[a].state # "absent"
    /\ Save([agents EXCEPT ![a].state = state], after)

\* _transition: a change the table allows, saved at once.
Transition(a, state, after) ==
    /\ state \in VALID_TRANSITIONS[agents[a].state]
    /\ Save([agents EXCEPT ![a].state = state], after)

\* The text is in the file: _save is done.
Write ==
    /\ saving
    /\ disk' = agents
    /\ saving' = FALSE
    /\ UNCHANGED <<policy, agents, todo, past, crashes>>

Noted(a, what) == past' = [past EXCEPT ![a] = @ \cup {what}]
-----------------------------------------------------------------------------
(* LifecycleManager                                                        *)

RequestProvisioning(a, owner) ==
    /\ Ready
    /\ "requested" \notin past[a]
    /\ policy.require_owner => owner # NoOwner
    /\ Save([agents EXCEPT ![a] =
                 [state |-> IF policy.require_approval THEN "pending_approval"
                                                       ELSE "provisioned",
                  owner |-> owner, cred |-> NoCred, quiet |-> 0]], Idle)
    /\ Noted(a, "requested")

Approve(a) ==
    /\ Ready
    /\ Transition(a, "provisioned", Idle)
    /\ Noted(a, "approved")

\* Also the only call that still moves an agent whose decommission was cut
\* short by a crash.
Reject(a) ==
    /\ Ready
    /\ Transition(a, "decommissioned", Idle)
    /\ UNCHANGED past

\* Activate, and then the credential, which is not saved.
Activate(a) ==
    /\ Ready
    /\ Transition(a, "active", [what |-> "issue", on |-> {a}])
    /\ UNCHANGED past

IssueCredential(a) ==
    /\ ~saving /\ todo = [what |-> "issue", on |-> {a}]
    /\ agents' = [agents EXCEPT ![a].cred = 0]
    /\ todo' = Idle
    /\ UNCHANGED <<policy, disk, saving, past, crashes>>

\* Mutant: a heartbeat is not saved.
HeartbeatUnsaved(a) ==
    /\ Ready
    /\ a \in Held
    /\ agents' = [agents EXCEPT ![a].quiet = 0]
    /\ UNCHANGED <<policy, disk, saving, todo, past, crashes>>

Heartbeat(a) ==
    /\ Ready
    /\ a \in Held
    /\ Save([agents EXCEPT ![a].quiet = 0], Idle)
    /\ UNCHANGED past

Suspend(a) ==
    /\ Ready
    /\ Transition(a, "suspended", Idle)
    /\ UNCHANGED past

Resume(a) ==
    /\ Ready
    /\ Transition(a, "active", Idle)
    /\ UNCHANGED past

\* Three steps: decommissioning is saved; the credential goes and
\* decommissioned is saved; the call returns.
Decommission(a) ==
    /\ Ready
    /\ Transition(a, "decommissioning", [what |-> "finish", on |-> {a}])
    /\ UNCHANGED past

\* Mutant: the revoked credential becomes the empty string.
RevokedEmpty(a) == IF policy.revoke_on_decommission THEN NoOwner ELSE agents[a].cred

Revoked(a) == IF policy.revoke_on_decommission THEN NoCred ELSE agents[a].cred

FinishDecommission(a) ==
    /\ ~saving /\ todo = [what |-> "finish", on |-> {a}]
    /\ "decommissioned" \in VALID_TRANSITIONS[agents[a].state]
    /\ Save([agents EXCEPT ![a].state = "decommissioned", ![a].cred = Revoked(a)],
            [what |-> "return", on |-> {a}])
    /\ UNCHANGED past

ReturnDecommissioned(a) ==
    /\ ~saving /\ todo = [what |-> "return", on |-> {a}]
    /\ todo' = Idle
    /\ Noted(a, "retired")
    /\ UNCHANGED <<policy, agents, disk, saving, crashes>>

ChangeOwner(a, owner) ==
    /\ Ready
    /\ a \in Held
    /\ Save([agents EXCEPT ![a].owner = owner], Idle)
    /\ UNCHANGED past

\* Mutant: rotate_credentials does not ask for the state.
RotateAny(a, after) ==
    /\ a \in Held
    /\ Save([agents EXCEPT ![a].cred = 0], after)

\* rotate_credentials, by itself or as a step of a sweep.
Rotate(a, after) ==
    /\ IsActive(a)
    /\ Save([agents EXCEPT ![a].cred = 0], after)

RotateCredentials(a) ==
    /\ Ready
    /\ Rotate(a, Idle)
    /\ UNCHANGED past
-----------------------------------------------------------------------------
(* CredentialRotator                                                       *)

\* Mutant: the rotator renews what is about to expire, not what has expired.
DueBefore(a) ==
    agents[a].cred \in
        {NoCred} \cup {age \in 0 .. TTL : policy.auto_rotate /\ age + Overlap >= TTL}

\* The rotator replaces the credential: there is none, it has expired, or it
\* is within the overlap (the last two only if the policy rotates by itself).
Due(a) ==
    agents[a].cred \in
        {NoCred} \cup {age \in Credential : policy.auto_rotate /\ age + Overlap >= TTL}

\* check_and_rotate goes over the agents as they are when it begins.
CheckAndRotate ==
    /\ Ready
    /\ Held # {}
    /\ todo' = [what |-> "sweep", on |-> Held]
    /\ UNCHANGED <<policy, agents, disk, saving, past, crashes>>

\* The sweep after the agent a.
Others(a) == IF todo.on = {a} THEN Idle ELSE [todo EXCEPT !.on = @ \ {a}]

CheckAgent(a) ==
    /\ ~saving /\ todo.what = "sweep" /\ a \in todo.on
    /\ \/ IsActive(a) /\ Due(a) /\ Rotate(a, Others(a))
       \/ /\ ~(IsActive(a) /\ Due(a))
          /\ todo' = Others(a)
          /\ UNCHANGED <<policy, agents, disk, saving, crashes>>
    /\ UNCHANGED past

\* revoke_all does not save.
RevokeAll(a) ==
    /\ Ready
    /\ a \in Held
    /\ agents' = [agents EXCEPT ![a].cred = NoCred]
    /\ UNCHANGED <<policy, disk, saving, todo, past, crashes>>
-----------------------------------------------------------------------------
(* OrphanDetector                                                          *)

\* What detect() reports an agent for: it is active and silent too long, or
\* has no owner.
Silent(a) == IsActive(a) /\ agents[a].quiet > OrphanThreshold

\* Mutant: detect looks for silence only where there is no owner.
CandidateOwnerless(a) ==
    /\ agents[a].state \notin {"absent", "decommissioned", "orphaned"}
    /\ Silent(a) /\ agents[a].owner = NoOwner

Candidate(a) ==
    /\ agents[a].state \notin {"absent", "decommissioned", "orphaned"}
    /\ \/ Silent(a)
       \/ agents[a].owner = NoOwner /\ agents[a].state # "pending_approval"

\* mark_orphaned asks for the state, not for the reason: its caller may have
\* the agent from a detect() of long ago, or from elsewhere.
MarkOrphaned(a) ==
    /\ Ready
    /\ agents[a].state = "active"
    /\ Transition(a, "orphaned", Idle)
    /\ UNCHANGED past

\* The owner is set before the transition, which saves both.
Reclaim(a, owner) ==
    /\ Ready
    /\ agents[a].state = "orphaned"
    /\ "active" \in VALID_TRANSITIONS[agents[a].state]
    /\ Save([agents EXCEPT ![a].owner = owner, ![a].state = "active"], Idle)
    /\ UNCHANGED past
-----------------------------------------------------------------------------
(* The environment                                                         *)

Older(m) ==
    [m EXCEPT !.cred  = IF @ \in 0 .. TTL THEN @ + 1 ELSE @,
              !.quiet = IF m.state # "absent" /\ @ <= OrphanThreshold
                        THEN @ + 1 ELSE @]

\* One unit of time passes, for what is in memory and what is in the file.
Tick ==
    /\ Ready
    /\ agents' = [a \in Agents |-> Older(agents[a])]
    /\ disk'   = [a \in Agents |-> Older(disk[a])]
    /\ UNCHANGED <<policy, saving, todo, past, crashes>>

\* The process dies and a new manager loads the file.
Restart ==
    /\ crashes < MaxCrashes
    /\ crashes' = crashes + 1
    /\ agents' = disk
    /\ saving' = FALSE
    /\ todo' = Idle
    /\ UNCHANGED <<policy, disk, past>>

AnyOwner == Owners \cup {NoOwner}

\* The steps a call takes without being called again.
Continue ==
    \/ Write
    \/ \E a \in Agents : \/ IssueCredential(a) \/ FinishDecommission(a)
                         \/ ReturnDecommissioned(a) \/ CheckAgent(a)

Next ==
    \/ \E a \in Agents, owner \in AnyOwner :
          RequestProvisioning(a, owner) \/ ChangeOwner(a, owner) \/ Reclaim(a, owner)
    \/ \E a \in Agents :
          \/ Approve(a) \/ Reject(a) \/ Activate(a) \/ Suspend(a) \/ Resume(a)
          \/ Decommission(a) \/ Heartbeat(a) \/ RotateCredentials(a)
          \/ RevokeAll(a) \/ MarkOrphaned(a)
    \/ CheckAndRotate
    \/ Continue
    \/ Tick \/ Restart

Spec == Init /\ [][Next]_vars

(***************************************************************************)
(* A call that has begun goes on; the rotator is called again and again,   *)
(* and so is the detector, with what it reports marked (tutorial 30, steps *)
(* 6 and 7).  Since other calls come in between, these calls need strong   *)
(* fairness.  Nothing else is called for certain.                          *)
(***************************************************************************)
FairSpec ==
    /\ Spec
    /\ WF_vars(Continue)
    /\ SF_vars(CheckAndRotate)
    /\ \A a \in Agents : SF_vars(Candidate(a) /\ MarkOrphaned(a))
-----------------------------------------------------------------------------
\* The type invariant: the agents in memory and in the file, and what the
\* call in progress is about.
TypeOK ==
    /\ policy \in Policies
    /\ agents \in [Agents -> ManagedAgent]
    /\ disk \in [Agents -> ManagedAgent]
    /\ saving \in BOOLEAN
    /\ todo \in Todo
    /\ past \in [Agents -> SUBSET {"requested", "approved", "retired"}]
    /\ crashes \in 0 .. MaxCrashes

\* A restart between two calls, or between two saves of one call, forgets
\* nothing of an agent but its credential, which activate and revoke_all
\* change in memory only: state, owner and heartbeat are in the file as they
\* are in memory (each call saves last what it changed).
FileAgrees ==
    ~saving => \A a \in Agents :
        [disk[a] EXCEPT !.cred = NoCred] = [agents[a] EXCEPT !.cred = NoCred]

\* Once decommission has returned, no call and no restart brings the agent
\* back: it is decommissioned or lost, in memory and in the file, and where
\* the policy revokes on decommission neither holds a credential for it.
DecommissionIsFinal ==
    \A a \in Agents : "retired" \in past[a] =>
        \A m \in {agents[a], disk[a]} :
            /\ m.state \in {"decommissioned", "absent"}
            /\ policy.revoke_on_decommission => m.cred = NoCred

\* Under a policy that requires approval, no agent is in service, or was ever
\* issued a credential, without an approve of it: not through resume, reclaim
\* or the rotator, and not from the file.
ApprovedBeforeService ==
    \A a \in Agents : policy.require_approval /\ "approved" \notin past[a] =>
        \A m \in {agents[a], disk[a]} :
            /\ m.state \in {"pending_approval", "decommissioned", "absent"}
            /\ m.cred = NoCred

\* An active agent whose credential has expired or is gone is issued a new one
\* or leaves service, if the rotator is called again and again.
CredentialRenewed ==
    \A a \in Agents :
        policy.auto_rotate /\ IsActive(a) /\ agents[a].cred \in {NoCred, TTL + 1}
            ~> ~IsActive(a) \/ agents[a].cred \in 0 .. TTL

\* An active agent does not stay silent for ever: it is marked as an orphan,
\* leaves service or is heard of again, if what detect reports is marked.
SilentIsOrphaned == \A a \in Agents : Silent(a) ~> ~Silent(a)

=============================================================================
