------------------------ MODULE AgentLifecycleProofs ------------------------
(***************************************************************************)
(* Proofs about AgentLifecycle, for any agents, owners, policies and       *)
(* limits: its type invariant, that the file is what memory is, that       *)
(* decommissioning is final and that service needs an approval.            *)
(***************************************************************************)
EXTENDS AgentLifecycle, TLAPS

History == SUBSET {"requested", "approved", "retired"}

\* What the history h of an agent says of a record m of it, in memory or file.
Sound(m, h) ==
    /\ m.state # "absent" => "requested" \in h
    /\ "retired" \in h =>
        /\ m.state \in {"decommissioned", "absent"}
        /\ policy.revoke_on_decommission => m.cred = NoCred
    /\ policy.require_approval /\ "approved" \notin h =>
        /\ m.state \in {"pending_approval", "decommissioned", "absent"}
        /\ m.cred = NoCred

\* The agent m is decommissioned as the policy wants it.
Retired(m) ==
    /\ m.state = "decommissioned"
    /\ policy.revoke_on_decommission => m.cred = NoCred

\* What the rest of a call, td, counts on, given the agents and the file.
Kept(td, ag, dk, sv) ==
    /\ td.what = "issue"  => \A a \in td.on : ag[a].state = "active"
    /\ td.what = "return" => \A a \in td.on : Retired(ag[a]) /\ (sv \/ dk[a] = ag[a])

\* The inductive invariant.
IInv ==
    /\ TypeOK
    /\ FileAgrees
    /\ saving => disk = Nothing
    /\ Kept(todo, agents, disk, saving)
    /\ \A a \in Agents :
        /\ Sound(agents[a], past[a])
        /\ Sound(disk[a], past[a])
        /\ "retired" \in past[a] => "requested" \in past[a]
-----------------------------------------------------------------------------
(* Records, the table and what is saved                                    *)

\* No agent: a record like the others, about which every history is sound.
LEMMA AbsentIsSound ==
    /\ Absent \in ManagedAgent
    /\ Absent.state = "absent" /\ Absent.cred = NoCred
    /\ Nothing \in [Agents -> ManagedAgent]
    /\ \A h : Sound(Absent, h)
BY ConstantsAssumption DEF Absent, ManagedAgent, Nothing, Sound, AgentLifecycleState,
    VALID_TRANSITIONS

\* The transitions that the calls rely on, as VALID_TRANSITIONS has them.
LEMMA Table ==
    ASSUME NEW s \in AgentLifecycleState
    PROVE  /\ VALID_TRANSITIONS[s] \subseteq AgentLifecycleState
           /\ "absent" \notin VALID_TRANSITIONS[s]
           /\ s = "decommissioned" \/ s = "absent" => VALID_TRANSITIONS[s] = {}
           /\ s = "pending_approval" =>
                VALID_TRANSITIONS[s] = {"provisioned", "decommissioned"}
BY DEF VALID_TRANSITIONS, AgentLifecycleState

\* The fields of a record whose state or owner is replaced.
LEMMA Fields ==
    ASSUME NEW m \in ManagedAgent, NEW s \in AgentLifecycleState,
           NEW o \in AnyOwner, NEW c \in Credential \cup {NoCred}
    PROVE  /\ [m EXCEPT !.state = s] \in ManagedAgent
           /\ [m EXCEPT !.state = s].state = s /\ [m EXCEPT !.state = s].cred = m.cred
           /\ [m EXCEPT !.owner = o] \in ManagedAgent
           /\ [m EXCEPT !.owner = o].state = m.state /\ [m EXCEPT !.owner = o].cred = m.cred
           /\ [m EXCEPT !.cred = c] \in ManagedAgent
           /\ [m EXCEPT !.cred = c].state = m.state /\ [m EXCEPT !.cred = c].cred = c
           /\ [m EXCEPT !.quiet = 0] \in ManagedAgent
           /\ [m EXCEPT !.quiet = 0].state = m.state /\ [m EXCEPT !.quiet = 0].cred = m.cred
BY ConstantsAssumption DEF ManagedAgent, AnyOwner

\* A save of one changed agent keeps the invariant, if the new record is sound
\* for the agent's history and the rest of the call may count on it.
LEMMA SaveStep ==
    ASSUME IInv, NEW b \in Agents, NEW m \in ManagedAgent, NEW after \in Todo,
           NEW h \in History, past[b] \subseteq h, past' = [past EXCEPT ![b] = h],
           "retired" \in h => "requested" \in h,
           Sound(m, h),
           Save([agents EXCEPT ![b] = m], after),
           after.what = "issue"  => after.on = {b} /\ m.state = "active",
           after.what = "return" => after.on = {b} /\ Retired(m)
    PROVE  IInv'
<1>. DEFINE ag == [agents EXCEPT ![b] = m]
<1>1. /\ agents' = ag /\ disk' = Nothing /\ saving' = TRUE /\ todo' = after
      /\ policy' = policy /\ crashes' = crashes
  BY DEF Save
<1>2. ag \in [Agents -> ManagedAgent] /\ past \in [Agents -> History]
  BY DEF IInv, TypeOK, History
<1>3. TypeOK'
  BY <1>1, <1>2, AbsentIsSound DEF IInv, TypeOK, History
<1>4. FileAgrees'
  BY <1>1 DEF FileAgrees
<1>5. Kept(todo, agents, disk, saving)'
  BY <1>1, <1>2 DEF Kept, Retired
<1>6. ASSUME NEW a \in Agents
      PROVE  /\ Sound(agents[a], past[a])'
             /\ Sound(disk[a], past[a])'
             /\ ("retired" \in past[a] => "requested" \in past[a])'
  <2>1. Sound(disk[a], past[a])'
    BY <1>1, AbsentIsSound DEF Sound, Nothing
  <2>2. Sound(agents[a], past[a])'
    <3>1. CASE a = b
      BY <1>1, <1>2, <3>1 DEF Sound, IInv, TypeOK
    <3>2. CASE a # b
      BY <1>1, <1>2, <3>2 DEF Sound, IInv, TypeOK
    <3>. QED BY <3>1, <3>2
  <2>. QED BY <1>2, <2>1, <2>2 DEF IInv
<1>. QED BY <1>1, <1>3, <1>4, <1>5, <1>6 DEF IInv

\* The same when the history stays as it is.
LEMMA SaveOnly ==
    ASSUME IInv, NEW b \in Agents, NEW m \in ManagedAgent, NEW after \in Todo,
           UNCHANGED past, Sound(m, past[b]),
           Save([agents EXCEPT ![b] = m], after),
           after.what = "issue"  => after.on = {b} /\ m.state = "active",
           after.what = "return" => after.on = {b} /\ Retired(m)
    PROVE  IInv'
<1>1. past[b] \in History /\ past' = [past EXCEPT ![b] = past[b]]
  BY DEF IInv, TypeOK, History
<1>2. "retired" \in past[b] => "requested" \in past[b]
  BY DEF IInv
<1>. QED BY <1>1, <1>2, SaveStep

\* What an agent's state may be is known from the invariant.
LEMMA AgentIsTyped ==
    ASSUME IInv, NEW a \in Agents
    PROVE  /\ agents[a] \in ManagedAgent
           /\ agents[a].state \in AgentLifecycleState
           /\ agents[a].cred \in Credential \cup {NoCred}
           /\ past[a] \in History
           /\ Sound(agents[a], past[a])
BY DEF IInv, TypeOK, ManagedAgent, History
-----------------------------------------------------------------------------
(* The steps                                                               *)

\* The agent that a transition of the table leaves behind: it was requested
\* and is not retired, and without an approval it can only be rejected.
LEMMA MovedIsSound ==
    ASSUME IInv, NEW b \in Agents, NEW s,
           s \in VALID_TRANSITIONS[agents[b].state]
    PROVE  /\ s \in AgentLifecycleState /\ s # "absent"
           /\ "requested" \in past[b] /\ "retired" \notin past[b]
           /\ s # "provisioned" => Sound([agents[b] EXCEPT !.state = s], past[b])
<1>. DEFINE m == agents[b]
<1>1. m \in ManagedAgent /\ m.state \in AgentLifecycleState /\ Sound(m, past[b])
  BY AgentIsTyped
<1>2. /\ s \in AgentLifecycleState /\ s # "absent"
      /\ m.state # "decommissioned" /\ m.state # "absent"
      /\ m.state = "pending_approval" => s \in {"provisioned", "decommissioned"}
  BY <1>1, Table
<1>3. [m EXCEPT !.state = s].state = s /\ [m EXCEPT !.state = s].cred = m.cred
  BY <1>1, <1>2 DEF ManagedAgent
<1>. HIDE DEF m
<1>4. "requested" \in past[b] /\ "retired" \notin past[b]
  BY <1>1, <1>2 DEF Sound
<1>5. s # "provisioned" => Sound([m EXCEPT !.state = s], past[b])
  BY <1>1, <1>2, <1>3, <1>4 DEF Sound
<1>. QED BY <1>2, <1>4, <1>5 DEF m

\* A call that is one transition, but for approve.
LEMMA TransitionStep ==
    ASSUME IInv, NEW b \in Agents, NEW s, s # "provisioned", NEW after \in Todo,
           UNCHANGED past, Transition(b, s, after),
           after.what = "issue" => after.on = {b} /\ s = "active",
           after.what # "return"
    PROVE  IInv'
<1>. DEFINE m == [agents[b] EXCEPT !.state = s]
<1>1. s \in AgentLifecycleState /\ Sound(m, past[b])
  BY MovedIsSound DEF Transition
<1>2. agents[b] \in ManagedAgent /\ agents \in [Agents -> ManagedAgent]
  BY DEF IInv, TypeOK
<1>3. m \in ManagedAgent /\ m.state = s
  BY <1>1, <1>2 DEF ManagedAgent
<1>4. [agents EXCEPT ![b].state = s] = [agents EXCEPT ![b] = m]
  BY <1>2
<1>5. Save([agents EXCEPT ![b] = m], after)
  BY <1>4 DEF Transition
<1>. HIDE DEF m
<1>. QED BY <1>1, <1>3, <1>5, SaveOnly

\* A save of an agent whose state stays, and whose credential too unless the
\* agent is active: its history allows it.
LEMMA TouchStep ==
    ASSUME IInv, NEW b \in Agents, NEW m \in ManagedAgent, NEW after \in Todo,
           UNCHANGED past, Save([agents EXCEPT ![b] = m], after),
           m.state = agents[b].state, m.cred = agents[b].cred \/ IsActive(b),
           after.what \in {"nothing", "sweep"}
    PROVE  IInv'
<1>1. Sound(m, past[b])
  BY AgentIsTyped DEF Sound, IsActive
<1>. QED BY <1>1, SaveOnly

LEMMA TodoIsTyped ==
    /\ Idle \in Todo /\ Idle.what = "nothing"
    /\ \A a \in Agents, w \in {"issue", "finish", "return"} :
          /\ [what |-> w, on |-> {a}] \in Todo
          /\ [what |-> w, on |-> {a}].what = w /\ [what |-> w, on |-> {a}].on = {a}
BY DEF Idle, Todo

\* Every initial state satisfies the invariant.
LEMMA Initially == Init => IInv
<1>. SUFFICES ASSUME Init PROVE IInv
  OBVIOUS
<1>1. TypeOK
  <2>1. agents \in [Agents -> ManagedAgent] /\ disk \in [Agents -> ManagedAgent]
    BY AbsentIsSound DEF Init
  <2>2. todo \in Todo
    BY TodoIsTyped DEF Init
  <2>3. past \in [Agents -> SUBSET {"requested", "approved", "retired"}]
    BY DEF Init
  <2>4. crashes \in 0 .. MaxCrashes
    BY ConstantsAssumption DEF Init
  <2>. QED BY <2>1, <2>2, <2>3, <2>4 DEF Init, TypeOK
<1>2. FileAgrees /\ Kept(todo, agents, disk, saving)
  BY TodoIsTyped DEF Init, FileAgrees, Kept
<1>3. \A a \in Agents : Sound(agents[a], past[a]) /\ Sound(disk[a], past[a])
  BY AbsentIsSound DEF Init, Nothing
<1>. QED BY <1>1, <1>2, <1>3 DEF IInv, Init
-----------------------------------------------------------------------------
(* LifecycleManager                                                        *)

LEMMA RequestStep ==
    ASSUME IInv, NEW b \in Agents, NEW o \in AnyOwner, RequestProvisioning(b, o)
    PROVE  IInv'
<1>. DEFINE m == [state |-> IF policy.require_approval THEN "pending_approval"
                                                       ELSE "provisioned",
                  owner |-> o, cred |-> NoCred, quiet |-> 0]
            h == past[b] \cup {"requested"}
<1>1. past[b] \in History /\ past' = [past EXCEPT ![b] = h] /\ h \in History
  BY AgentIsTyped DEF RequestProvisioning, Noted, History, IInv, TypeOK
<1>2. "retired" \notin past[b]
  BY DEF RequestProvisioning, IInv
<1>3. m \in ManagedAgent
  BY ConstantsAssumption DEF ManagedAgent, AnyOwner, AgentLifecycleState, VALID_TRANSITIONS
<1>4. Sound(m, h)
  BY <1>2 DEF Sound
<1>5. Save([agents EXCEPT ![b] = m], Idle)
  BY DEF RequestProvisioning
<1>. HIDE DEF m
<1>. QED BY <1>1, <1>3, <1>4, <1>5, TodoIsTyped, SaveStep

LEMMA ApproveStep ==
    ASSUME IInv, NEW b \in Agents, Approve(b)
    PROVE  IInv'
<1>. DEFINE m == [agents[b] EXCEPT !.state = "provisioned"]
            h == past[b] \cup {"approved"}
<1>1. past[b] \in History /\ past' = [past EXCEPT ![b] = h] /\ h \in History
  BY AgentIsTyped DEF Approve, Noted, History, IInv, TypeOK
<1>2. "requested" \in past[b] /\ "retired" \notin past[b] /\ "provisioned" \in AgentLifecycleState
  BY MovedIsSound DEF Approve, Transition
<1>3. agents[b] \in ManagedAgent /\ agents \in [Agents -> ManagedAgent]
  BY DEF IInv, TypeOK
<1>4. m \in ManagedAgent /\ m.state = "provisioned"
  BY <1>2, <1>3 DEF ManagedAgent
<1>5. Sound(m, h)
  BY <1>2 DEF Sound
<1>6. [agents EXCEPT ![b].state = "provisioned"] = [agents EXCEPT ![b] = m]
  BY <1>3
<1>7. Save([agents EXCEPT ![b] = m], Idle)
  BY <1>6 DEF Approve, Transition
<1>. HIDE DEF m
<1>. QED BY <1>1, <1>2, <1>4, <1>5, <1>7, TodoIsTyped, SaveStep

\* The calls that are one transition.
LEMMA MoveStep ==
    ASSUME IInv, NEW b \in Agents,
           \/ Reject(b) \/ Activate(b) \/ Suspend(b) \/ Resume(b)
           \/ Decommission(b) \/ MarkOrphaned(b)
    PROVE  IInv'
<1>1. CASE Reject(b)
  BY <1>1, TodoIsTyped, TransitionStep DEF Reject
<1>2. CASE Activate(b)
  <2>. DEFINE after == [what |-> "issue", on |-> {b}]
  <2>1. after \in Todo /\ after.what = "issue" /\ after.on = {b}
    BY TodoIsTyped
  <2>2. Transition(b, "active", after) /\ UNCHANGED past
    BY <1>2 DEF Activate
  <2>. HIDE DEF after
  <2>. QED BY <2>1, <2>2, TransitionStep
<1>3. CASE Suspend(b)
  BY <1>3, TodoIsTyped, TransitionStep DEF Suspend
<1>4. CASE Resume(b)
  BY <1>4, TodoIsTyped, TransitionStep DEF Resume
<1>5. CASE Decommission(b)
  <2>. DEFINE after == [what |-> "finish", on |-> {b}]
  <2>1. after \in Todo /\ after.what = "finish"
    BY TodoIsTyped
  <2>2. Transition(b, "decommissioning", after) /\ UNCHANGED past
    BY <1>5 DEF Decommission
  <2>. HIDE DEF after
  <2>. QED BY <2>1, <2>2, TransitionStep
<1>6. CASE MarkOrphaned(b)
  BY <1>6, TodoIsTyped, TransitionStep DEF MarkOrphaned
<1>. QED BY <1>1, <1>2, <1>3, <1>4, <1>5, <1>6

\* The credential is issued in memory, to an agent that is active.
LEMMA IssueStep ==
    ASSUME IInv, NEW b \in Agents, IssueCredential(b)
    PROVE  IInv'
<1>. DEFINE m == [agents[b] EXCEPT !.cred = 0]
<1>1. agents[b] \in ManagedAgent /\ agents \in [Agents -> ManagedAgent]
      /\ disk \in [Agents -> ManagedAgent] /\ past \in [Agents -> History]
  BY DEF IInv, TypeOK, History
<1>2. agents[b].state = "active"
  BY TodoIsTyped DEF IInv, Kept, IssueCredential
<1>3. 0 \in Credential
  BY ConstantsAssumption DEF Credential
<1>4. m \in ManagedAgent /\ m.state = agents[b].state
      /\ [m EXCEPT !.cred = NoCred] = [agents[b] EXCEPT !.cred = NoCred]
  BY <1>1, <1>3 DEF ManagedAgent
<1>5. Sound(m, past[b])
  BY <1>2, <1>4, AgentIsTyped DEF Sound
<1>6. /\ agents' = [agents EXCEPT ![b] = m]
      /\ UNCHANGED <<policy, disk, saving, past, crashes>> /\ todo' = Idle /\ ~saving
  BY <1>1 DEF IssueCredential
<1>. HIDE DEF m
<1>7. TypeOK'
  BY <1>1, <1>4, <1>6, TodoIsTyped DEF IInv, TypeOK
<1>8. FileAgrees'
  BY <1>1, <1>4, <1>6 DEF IInv, FileAgrees
<1>9. Kept(todo, agents, disk, saving)'
  BY <1>6, TodoIsTyped DEF Kept
<1>10. ASSUME NEW a \in Agents
       PROVE  Sound(agents[a], past[a])' /\ Sound(disk[a], past[a])'
  BY <1>1, <1>5, <1>6 DEF IInv, Sound
<1>. QED BY <1>6, <1>7, <1>8, <1>9, <1>10 DEF IInv

LEMMA HeartbeatStep ==
    ASSUME IInv, NEW b \in Agents, Heartbeat(b)
    PROVE  IInv'
<1>. DEFINE m == [agents[b] EXCEPT !.quiet = 0]
<1>1. agents[b] \in ManagedAgent /\ agents \in [Agents -> ManagedAgent]
  BY DEF IInv, TypeOK
<1>2. m \in ManagedAgent /\ m.state = agents[b].state /\ m.cred = agents[b].cred
  BY <1>1, ConstantsAssumption DEF ManagedAgent
<1>3. Save([agents EXCEPT ![b] = m], Idle) /\ UNCHANGED past
  BY <1>1 DEF Heartbeat
<1>. HIDE DEF m
<1>. QED BY <1>2, <1>3, TodoIsTyped, TouchStep

LEMMA ChangeOwnerStep ==
    ASSUME IInv, NEW b \in Agents, NEW o \in AnyOwner, ChangeOwner(b, o)
    PROVE  IInv'
<1>. DEFINE m == [agents[b] EXCEPT !.owner = o]
<1>1. agents[b] \in ManagedAgent /\ agents \in [Agents -> ManagedAgent]
  BY DEF IInv, TypeOK
<1>2. m \in ManagedAgent /\ m.state = agents[b].state /\ m.cred = agents[b].cred
  BY <1>1 DEF ManagedAgent, AnyOwner
<1>3. Save([agents EXCEPT ![b] = m], Idle) /\ UNCHANGED past
  BY <1>1 DEF ChangeOwner
<1>. HIDE DEF m
<1>. QED BY <1>2, <1>3, TodoIsTyped, TouchStep

\* The owner and the state are saved together.
LEMMA ReclaimStep ==
    ASSUME IInv, NEW b \in Agents, NEW o \in AnyOwner, Reclaim(b, o)
    PROVE  IInv'
<1>. DEFINE moved == [agents[b] EXCEPT !.state = "active"]
            m == [agents[b] EXCEPT !.owner = o, !.state = "active"]
<1>1. agents[b] \in ManagedAgent /\ agents \in [Agents -> ManagedAgent]
  BY DEF IInv, TypeOK
<1>2. "active" \in AgentLifecycleState /\ Sound(moved, past[b])
  BY MovedIsSound DEF Reclaim
<1>3. m \in ManagedAgent /\ m.state = moved.state /\ m.cred = moved.cred
  BY <1>1, <1>2 DEF ManagedAgent, AnyOwner
<1>4. Sound(m, past[b])
  BY <1>2, <1>3 DEF Sound
<1>5. Save([agents EXCEPT ![b] = m], Idle) /\ UNCHANGED past
  BY <1>1 DEF Reclaim
<1>. HIDE DEF m, moved
<1>. QED BY <1>3, <1>4, <1>5, TodoIsTyped, SaveOnly

\* The second half of decommission: the credential goes before the save.
LEMMA FinishStep ==
    ASSUME IInv, NEW b \in Agents, FinishDecommission(b)
    PROVE  IInv'
<1>. DEFINE moved == [agents[b] EXCEPT !.state = "decommissioned"]
            m == [agents[b] EXCEPT !.state = "decommissioned", !.cred = Revoked(b)]
            after == [what |-> "return", on |-> {b}]
<1>1. agents[b] \in ManagedAgent /\ agents \in [Agents -> ManagedAgent]
  BY DEF IInv, TypeOK
<1>2. "decommissioned" \in AgentLifecycleState /\ Sound(moved, past[b])
  BY MovedIsSound DEF FinishDecommission
<1>3. Revoked(b) \in {NoCred, agents[b].cred}
      /\ (policy.revoke_on_decommission => Revoked(b) = NoCred)
  BY DEF Revoked
<1>4. /\ m \in ManagedAgent /\ m.state = "decommissioned" /\ m.cred = Revoked(b)
      /\ moved.state = "decommissioned" /\ moved.cred = agents[b].cred
  BY <1>1, <1>2, <1>3 DEF ManagedAgent
<1>5. Sound(m, past[b]) /\ Retired(m)
  BY <1>2, <1>3, <1>4 DEF Sound, Retired
<1>6. Save([agents EXCEPT ![b] = m], after) /\ UNCHANGED past
  BY <1>1 DEF FinishDecommission
<1>7. after \in Todo /\ after.what = "return" /\ after.on = {b}
  BY TodoIsTyped
<1>. HIDE DEF m, moved, after
<1>. QED BY <1>4, <1>5, <1>6, <1>7, SaveOnly

\* decommission returns: what it leaves is in the file as in memory.
LEMMA ReturnStep ==
    ASSUME IInv, NEW b \in Agents, ReturnDecommissioned(b)
    PROVE  IInv'
<1>. DEFINE h == past[b] \cup {"retired"}
<1>1. /\ Retired(agents[b]) /\ disk[b] = agents[b]
  BY TodoIsTyped DEF IInv, Kept, ReturnDecommissioned
<1>2. past \in [Agents -> History] /\ h \in History
  BY DEF IInv, TypeOK, History
<1>3. Sound(agents[b], h) /\ "requested" \in h
  BY <1>1, AgentIsTyped DEF Sound, Retired
<1>4. /\ past' = [past EXCEPT ![b] = h] /\ todo' = Idle
      /\ UNCHANGED <<policy, agents, disk, saving, crashes>>
  BY DEF ReturnDecommissioned, Noted
<1>. HIDE DEF h
<1>5. TypeOK'
  BY <1>2, <1>4, TodoIsTyped DEF IInv, TypeOK, History
<1>6. FileAgrees' /\ Kept(todo, agents, disk, saving)'
  BY <1>4, TodoIsTyped DEF IInv, FileAgrees, Kept
<1>7. ASSUME NEW a \in Agents
      PROVE  /\ Sound(agents[a], past[a])' /\ Sound(disk[a], past[a])'
             /\ ("retired" \in past[a] => "requested" \in past[a])'
  BY <1>1, <1>2, <1>3, <1>4 DEF IInv, Sound
<1>. QED BY <1>4, <1>5, <1>6, <1>7 DEF IInv

\* rotate_credentials, alone or in a sweep.
LEMMA RotateStep ==
    ASSUME IInv, NEW b \in Agents, NEW after \in Todo, Rotate(b, after), UNCHANGED past,
           after.what \in {"nothing", "sweep"}
    PROVE  IInv'
<1>. DEFINE m == [agents[b] EXCEPT !.cred = 0]
<1>1. agents[b] \in ManagedAgent /\ agents \in [Agents -> ManagedAgent]
  BY DEF IInv, TypeOK
<1>2. 0 \in Credential
  BY ConstantsAssumption DEF Credential
<1>3. m \in ManagedAgent /\ m.state = agents[b].state
  BY <1>1, <1>2 DEF ManagedAgent
<1>4. Save([agents EXCEPT ![b] = m], after) /\ IsActive(b)
  BY <1>1 DEF Rotate
<1>. HIDE DEF m
<1>. QED BY <1>3, <1>4, TouchStep
-----------------------------------------------------------------------------
(* The rotator, the file and the environment                               *)

\* A step that leaves agents, file and history alone, and whose call has
\* nothing to count on.
LEMMA QuietStep ==
    ASSUME IInv, UNCHANGED <<policy, agents, disk, saving, past, crashes>>,
           todo' \in Todo, todo'.what \in {"nothing", "sweep"}
    PROVE  IInv'
<1>1. TypeOK' /\ FileAgrees'
  BY DEF IInv, TypeOK, FileAgrees
<1>2. Kept(todo, agents, disk, saving)'
  BY DEF Kept
<1>3. \A a \in Agents : Sound(agents[a], past[a])' /\ Sound(disk[a], past[a])'
  BY DEF IInv, Sound
<1>. QED BY <1>1, <1>2, <1>3 DEF IInv

LEMMA SweepStep ==
    ASSUME IInv, CheckAndRotate
    PROVE  IInv'
<1>1. todo' \in Todo /\ todo'.what = "sweep"
  BY DEF CheckAndRotate, Todo, Held
<1>. QED BY <1>1, QuietStep DEF CheckAndRotate

LEMMA CheckAgentStep ==
    ASSUME IInv, NEW b \in Agents, CheckAgent(b)
    PROVE  IInv'
<1>1. Others(b) \in Todo /\ Others(b).what \in {"nothing", "sweep"}
  <2>1. todo \in Todo /\ todo.what = "sweep"
    BY DEF IInv, TypeOK, CheckAgent
  <2>2. /\ [todo EXCEPT !.on = todo.on \ {b}] \in Todo
        /\ [todo EXCEPT !.on = todo.on \ {b}].what = "sweep"
    BY <2>1 DEF Todo
  <2>. QED BY <2>2, TodoIsTyped DEF Others
<1>2. UNCHANGED past
  BY DEF CheckAgent
<1>3. CASE Rotate(b, Others(b))
  BY <1>1, <1>2, <1>3, RotateStep
<1>4. CASE todo' = Others(b) /\ UNCHANGED <<policy, agents, disk, saving, crashes>>
  BY <1>1, <1>2, <1>4, QuietStep
<1>. QED BY <1>3, <1>4 DEF CheckAgent

LEMMA RevokeStep ==
    ASSUME IInv, NEW b \in Agents, RevokeAll(b)
    PROVE  IInv'
<1>. DEFINE m == [agents[b] EXCEPT !.cred = NoCred]
<1>1. agents[b] \in ManagedAgent /\ agents \in [Agents -> ManagedAgent]
      /\ past \in [Agents -> History]
  BY DEF IInv, TypeOK, History
<1>2. m \in ManagedAgent /\ m.state = agents[b].state /\ m.cred = NoCred
      /\ [m EXCEPT !.cred = NoCred] = [agents[b] EXCEPT !.cred = NoCred]
  BY <1>1 DEF ManagedAgent
<1>3. Sound(m, past[b])
  BY <1>2, AgentIsTyped DEF Sound
<1>4. /\ agents' = [agents EXCEPT ![b] = m] /\ todo = Idle
      /\ UNCHANGED <<policy, disk, saving, todo, past, crashes>>
  BY <1>1 DEF RevokeAll, Ready
<1>. HIDE DEF m
<1>5. TypeOK'
  BY <1>1, <1>2, <1>4 DEF IInv, TypeOK
<1>6. FileAgrees'
  BY <1>1, <1>2, <1>4 DEF IInv, FileAgrees
<1>7. Kept(todo, agents, disk, saving)'
  BY <1>4, TodoIsTyped DEF Kept
<1>8. ASSUME NEW a \in Agents
      PROVE  Sound(agents[a], past[a])' /\ Sound(disk[a], past[a])'
  BY <1>1, <1>3, <1>4 DEF IInv, Sound
<1>. QED BY <1>4, <1>5, <1>6, <1>7, <1>8 DEF IInv

LEMMA WriteStep ==
    ASSUME IInv, Write
    PROVE  IInv'
<1>1. TypeOK' /\ FileAgrees'
  BY DEF IInv, TypeOK, FileAgrees, Write
<1>2. Kept(todo, agents, disk, saving)'
  BY DEF IInv, Kept, Retired, Write
<1>3. \A a \in Agents : Sound(agents[a], past[a])' /\ Sound(disk[a], past[a])'
  BY DEF IInv, Sound, Write
<1>. QED BY <1>1, <1>2, <1>3 DEF IInv, Write

LEMMA RestartStep ==
    ASSUME IInv, Restart
    PROVE  IInv'
<1>1. TypeOK'
  <2>1. crashes' \in 0 .. MaxCrashes
    BY ConstantsAssumption DEF IInv, TypeOK, Restart
  <2>. QED BY <2>1, TodoIsTyped DEF IInv, TypeOK, Restart
<1>2. FileAgrees' /\ Kept(todo, agents, disk, saving)'
  BY TodoIsTyped DEF FileAgrees, Kept, Restart
<1>3. \A a \in Agents : Sound(agents[a], past[a])' /\ Sound(disk[a], past[a])'
  BY DEF IInv, Sound, Restart
<1>. QED BY <1>1, <1>2, <1>3 DEF IInv, Restart

\* An older record of the same agent: only credential and silence have aged.
LEMMA OlderIsTyped ==
    ASSUME NEW m \in ManagedAgent
    PROVE  /\ Older(m) \in ManagedAgent
           /\ Older(m).state = m.state /\ Older(m).owner = m.owner
           /\ m.cred = NoCred => Older(m).cred = NoCred
           /\ Older(m).quiet = IF m.state # "absent" /\ m.quiet <= OrphanThreshold
                               THEN m.quiet + 1 ELSE m.quiet
<1>. DEFINE c == IF m.cred \in 0 .. TTL THEN m.cred + 1 ELSE m.cred
            q == IF m.state # "absent" /\ m.quiet <= OrphanThreshold
                 THEN m.quiet + 1 ELSE m.quiet
<1>1. c \in Credential \cup {NoCred} /\ (m.cred = NoCred => c = NoCred)
  BY ConstantsAssumption DEF ManagedAgent, Credential
<1>2. q \in 0 .. OrphanThreshold + 1
  BY ConstantsAssumption DEF ManagedAgent
<1>3. Older(m) = [m EXCEPT !.cred = c, !.quiet = q]
  BY DEF Older, ManagedAgent
<1>. HIDE DEF c, q
<1>4. /\ Older(m) \in ManagedAgent /\ Older(m).cred = c /\ Older(m).quiet = q
      /\ Older(m).state = m.state /\ Older(m).owner = m.owner
  BY <1>1, <1>2, <1>3 DEF ManagedAgent
<1>. QED BY <1>1, <1>4 DEF q

\* Two records that differ in the credential alone.
LEMMA SameButCred ==
    ASSUME NEW m \in ManagedAgent, NEW n \in ManagedAgent
    PROVE  [m EXCEPT !.cred = NoCred] = [n EXCEPT !.cred = NoCred]
              <=> m.state = n.state /\ m.owner = n.owner /\ m.quiet = n.quiet
<1>1. /\ [m EXCEPT !.cred = NoCred] = [state |-> m.state, owner |-> m.owner,
                                        cred |-> NoCred, quiet |-> m.quiet]
      /\ [n EXCEPT !.cred = NoCred] = [state |-> n.state, owner |-> n.owner,
                                        cred |-> NoCred, quiet |-> n.quiet]
  BY DEF ManagedAgent
<1>. QED BY <1>1

LEMMA TickStep ==
    ASSUME IInv, Tick
    PROVE  IInv'
<1>1. /\ agents \in [Agents -> ManagedAgent] /\ disk \in [Agents -> ManagedAgent]
      /\ agents' = [a \in Agents |-> Older(agents[a])]
      /\ disk' = [a \in Agents |-> Older(disk[a])]
      /\ UNCHANGED <<policy, saving, todo, past, crashes>> /\ ~saving /\ todo = Idle
  BY DEF IInv, TypeOK, Tick, Ready
<1>2. TypeOK'
  <2>1. agents' \in [Agents -> ManagedAgent] /\ disk' \in [Agents -> ManagedAgent]
    BY <1>1, OlderIsTyped
  <2>. QED BY <1>1, <2>1 DEF IInv, TypeOK
<1>3. FileAgrees'
  <2>. SUFFICES ASSUME NEW a \in Agents
                PROVE  [disk'[a] EXCEPT !.cred = NoCred] = [agents'[a] EXCEPT !.cred = NoCred]
    BY DEF FileAgrees
  <2>1. disk[a] \in ManagedAgent /\ agents[a] \in ManagedAgent
        /\ disk'[a] = Older(disk[a]) /\ agents'[a] = Older(agents[a])
    BY <1>1
  <2>2. /\ disk[a].state = agents[a].state /\ disk[a].owner = agents[a].owner
        /\ disk[a].quiet = agents[a].quiet
    BY <1>1, <2>1, SameButCred DEF IInv, FileAgrees
  <2>. QED BY <2>1, <2>2, OlderIsTyped, SameButCred
<1>4. Kept(todo, agents, disk, saving)'
  BY <1>1, TodoIsTyped DEF Kept
<1>5. ASSUME NEW a \in Agents
      PROVE  Sound(agents[a], past[a])' /\ Sound(disk[a], past[a])'
  <2>1. /\ agents[a] \in ManagedAgent /\ disk[a] \in ManagedAgent
        /\ agents'[a] = Older(agents[a]) /\ disk'[a] = Older(disk[a])
    BY <1>1
  <2>. QED BY <1>1, <2>1, OlderIsTyped DEF IInv, Sound
<1>. QED BY <1>1, <1>2, <1>3, <1>4, <1>5 DEF IInv
-----------------------------------------------------------------------------
(* The theorems                                                            *)

\* Every step keeps the invariant.
LEMMA EveryStep == IInv /\ [Next]_vars => IInv'
<1>. SUFFICES ASSUME IInv, [Next]_vars PROVE IInv'
  OBVIOUS
<1>1. CASE UNCHANGED vars
  BY <1>1 DEF vars, IInv, TypeOK, FileAgrees, Kept, Retired, Sound
<1>2. ASSUME NEW a \in Agents, NEW owner \in AnyOwner,
             RequestProvisioning(a, owner) \/ ChangeOwner(a, owner) \/ Reclaim(a, owner)
      PROVE  IInv'
  BY <1>2, RequestStep, ChangeOwnerStep, ReclaimStep
<1>3. ASSUME NEW a \in Agents,
             \/ Approve(a) \/ Reject(a) \/ Activate(a) \/ Suspend(a) \/ Resume(a)
             \/ Decommission(a) \/ Heartbeat(a) \/ RevokeAll(a) \/ MarkOrphaned(a)
      PROVE  IInv'
  BY <1>3, ApproveStep, MoveStep, HeartbeatStep, RevokeStep
<1>4. ASSUME NEW a \in Agents, RotateCredentials(a)
      PROVE  IInv'
  BY <1>4, RotateStep, TodoIsTyped DEF RotateCredentials
<1>5. CASE CheckAndRotate
  BY <1>5, SweepStep
<1>6. CASE Continue
  BY <1>6, WriteStep, IssueStep, FinishStep, ReturnStep, CheckAgentStep DEF Continue
<1>7. CASE Tick
  BY <1>7, TickStep
<1>8. CASE Restart
  BY <1>8, RestartStep
<1>. QED BY <1>1, <1>2, <1>3, <1>4, <1>5, <1>6, <1>7, <1>8 DEF Next

\* The four invariants hold together, in every reachable state.
LEMMA Invariant == Spec => []IInv
BY Initially, EveryStep, PTL DEF Spec

\* TypeOK is an invariant: what the manager and its file hold is typed, for
\* any number of agents, any limits and any policies.
THEOREM TypeCorrect == Spec => []TypeOK
<1>1. IInv => TypeOK
  BY DEF IInv
<1>. QED BY Invariant, <1>1, PTL

\* FileAgrees is an invariant: between saves, a restart forgets credentials at
\* most.
THEOREM RestartForgetsCredentialsOnly == Spec => []FileAgrees
<1>1. IInv => FileAgrees
  BY DEF IInv
<1>. QED BY Invariant, <1>1, PTL

\* DecommissionIsFinal is an invariant: after decommission has returned, an
\* agent is neither in service nor, where revoked, credentialed again, whatever
\* is called and wherever the process dies.
THEOREM NoReturnFromDecommission == Spec => []DecommissionIsFinal
<1>1. IInv => DecommissionIsFinal
  BY DEF IInv, DecommissionIsFinal, Sound
<1>. QED BY Invariant, <1>1, PTL

\* ApprovedBeforeService is an invariant: where the policy requires approval,
\* there is no service and no credential without approve.
THEOREM ServiceIsApproved == Spec => []ApprovedBeforeService
<1>1. IInv => ApprovedBeforeService
  BY DEF IInv, ApprovedBeforeService, Sound
<1>. QED BY Invariant, <1>1, PTL
=============================================================================
