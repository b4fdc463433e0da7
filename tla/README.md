# Agent governance toolkit: TLA+ models, checks and proofs

This directory holds TLA+ specifications of the parts of the toolkit whose
correctness depends on the order in which things happen: approvals that race,
sagas that are rolled back while they run, sockets that replace each other,
messages that are reordered, processes that crash between two writes.
TLC model-checks them on small instances; TLAPS proves the main safety
properties for every value of the constants.

    tlc -config <run>.cfg MC<Module>.tla      # a run (see "Runs")
    tlapm <Module>Proofs.tla                  # the proofs

Paths: `mesh/` is `agent-governance-python/agent-mesh/src/agentmesh/`,
`hypervisor/` is `agent-governance-python/agent-hypervisor/src/hypervisor/`,
`sre/` is `agent-governance-python/agent-sre/src/agent_sre/`, `os/` is
`agent-governance-python/agent-os/src/agent_os/`.

## 1. The system

The repository is a toolkit of packages that put governance around AI agents.
Its core logic, apart from policy evaluation (a function of its inputs), is in
four Python packages. **Agent Mesh** gives agents identities, lets them shake
hands, exchange encrypted messages through a relay, and asks people for
approval of actions. **Agent Hypervisor** runs agents in sessions, in execution
rings, and coordinates multi-step work as sagas that can be rolled back. **Agent
SRE** isolates agents that fail, and **Agent OS** escalates actions to people
within one process. The rest is packaging, adapters, SDKs in other languages,
command-line extensions and documentation.

### Components

| component | state it keeps | operations | what is hard | what makes it correct |
|---|---|---|---|---|
| Approval protocol, `mesh/governance/approval_protocol/` | per request: status, chain entries linked by digests, one resolution | `open_request`, `submit_entry`, `validate_for_execution` | the store's calls are atomic, the coordinator's are not: calls interleave between them, overwrite statuses, die half-way, and race with the expiry | nothing is executed but what a linked chain approved, once |
| Saga orchestrator, `hypervisor/saga/` | the saga's state and its steps' states | `create_saga`, `add_step`, `execute_step`, `compensate` | asyncio tasks interleave at every await; time-outs, retries, cancellation; steps that commit during a rollback | one executor per step, rollback in reverse order, a truthful outcome, everything ends |
| Relay, `mesh/relay/` | the socket of each agent, the inbox | connect, message, ack, heartbeat, disconnect, the end of a handler | sockets replace each other while handlers wait; links break after a send | no stored message is lost, entries are those of live handlers |
| Double Ratchet and secure channel, `mesh/encryption/` | root and chain keys, counters, skipped keys | `encrypt`, `decrypt`, `close` | the relay delivers at least once, and not in order; state moves before a message is authenticated | both ends derive the same key for every message; a message is decrypted once |
| Key agreement and bridge, `mesh/encryption/x3dh.py`, `bridge.py` | one-time pre-keys, sessions by peer | fetch a bundle, open, accept | a pre-key used twice, two ends opening at once | both ends start from one secret, a one-time key is used once |
| Trust handshake, `mesh/trust/handshake.py` | pending challenges, verified peers (a cache) | `initiate`, `respond` | concurrent initiates, time-outs, results cached and used later for other requirements | a result answers the requirements of the call, the table stays bounded |
| Sessions, `hypervisor/core.py`, `session/` | lifecycle state, participants, files with permissions, snapshots | create, join, leave, activate, terminate, snapshot, restore | long sequences of calls, capacity, restore against later permissions | legal lifecycle, capacity, restored state is the state that was saved |
| Execution rings, `hypervisor/rings/` | elevations with an expiry, children, breach windows | request, revoke, `tick`, register child | lazy expiry, two grants of one agent, children of elevated parents | no ring above what was granted and is in force |
| Kill switch, `hypervisor/security/kill_switch.py` | callbacks, substitutes, history | register, kill | the kill runs outside the lock while agents register and substitutes leave | a killed agent is not registered; hand-over to a live substitute |
| Delta audit, history, reversibility, `hypervisor/audit` etc. | append-only lists, hashes | append, root | little: sequential | the chain verifies |
| Identity, delegation, credentials, revocation, `mesh/identity/` | chains of delegation, credentials by state | delegate, issue, rotate, revoke, validate | time and rotation; narrowing along a chain | capabilities only narrow, a revoked credential stays so |
| Agent lifecycle, `mesh/lifecycle/` | agents by state with owner, credential and heartbeat; a JSON file | provision, approve, activate, suspend, resume, decommission, the rotator's and the orphan detector's sweeps | crashes between two saves and within one, state that is never saved | memory and file agree, decommissioning is final, no service without approval |
| Circuit breaker, `sre/cascade/circuit_breaker.py` (copied in `os/`) | state, failure count, half-open slots | `call`, `reset`, `state` | the function runs outside the lock: its result is recorded in whatever state the breaker is by then, or never | no call in the quiet period, probes bounded, it closes again |
| Escalation handler, `os/integrations/escalation.py` | requests with votes and an event, the times of an agent's escalations | `escalate`, `approve`, `deny`, `resolve` | votes race with time-outs and with the counting of the quorum; fatigue bookkeeping has no lock | an ALLOW is backed by votes, a denial stands, a vote in time counts |
| Policy engine, govern, OPA, Cedar, federation, `mesh/governance/` | rules | evaluate | conflict resolution between rules | deterministic, fail closed |
| Mesh audit, registry, transports, storage, servers | logs, tables | I/O | external services | not modelled |
| Agent OS and the other packages, the Rust policy engine, SDKs, CLI extensions | various | various | see section 7 | not modelled |

### How they interact

An agent's host asks the hypervisor for a session and a ring; work of several
steps is a saga, whose executors are called back by the orchestrator. When a
policy says that an action needs approval, the host opens a request with the
approval coordinator; approvers' channels (webhooks, consoles) submit entries
from whatever worker receives them; the host asks for validation right before
it executes. Agents that talk to each other shake hands, agree on keys through
the registry, and send ciphertexts through the relay, which knows nothing of
their contents. An operator's loop calls the lifecycle manager's rotator and
orphan detector. Calls to an agent that fails go through its breaker.

The modelled components do not call each other in the code: each is an object
that hosts and clients hold, and they share no state. Relay and ratchet meet in
the agents' clients only. The ratchet's model therefore takes a transport that
does what the relay may do: lose a message (a broken link, a time to live),
reorder (a live message overtakes stored ones) and redeliver (until an ack).
Within a component, composition is in its module: the lifecycle manager with
rotator, detector and file; the escalation handler with queue and fatigue
detector; a secure channel's two ratchets.

## 2. Modules

| module | models | role |
|---|---|---|
| `ApprovalCoordinator` | `coordinator.py` over `store.py` | the detailed specification |
| `ApprovalContract` | what ADR-0030 promises | the abstract specification |
| `ApprovalCoordinatorProofs` | | theorems, proofs, refinement |
| `SagaOrchestrator` | `orchestrator.py`, `state_machine.py` | the detailed specification |
| `SagaOrchestratorProofs` | | theorems and proofs |
| `RelayServer` | `relay/app.py`, `relay/store.py` | the detailed specification |
| `Mailbox` | what a relay promises | the abstract specification |
| `RelayServerProofs` | | theorems, proofs, refinement |
| `DoubleRatchet` | `encryption/ratchet.py`, `encryption/channel.py` | the detailed specification |
| `SecureDelivery` | what a session promises | the abstract specification |
| `DoubleRatchetProofs` | | theorems, proofs, refinement |
| `AgentLifecycle` | `lifecycle/manager.py`, `models.py`, `credentials.py`, `orphan_detector.py` | the detailed specification |
| `AgentLifecycleProofs` | | theorems and proofs |
| `CircuitBreaker` | `cascade/circuit_breaker.py` | the detailed specification |
| `CircuitBreakerProofs` | | theorems and proofs |
| `EscalationHandler` | `integrations/escalation.py` | the detailed specification |
| `EscalationHandlerProofs` | | theorems and proofs |
| `ExtremeElements` | | least and greatest elements of finite sets of naturals, used by three of the proof modules |
| `MC*` | | values of the constants for TLC |

Operators named as mutants in the modules are deliberately wrong variants of
the definition that follows them. They are not part of the model; putting one
in place of its definition must break the property that `PROJECT.json` names
for it, which shows that the property depends on that code.

### ApprovalCoordinator

One request (requests share nothing). `status`, `entries` and `resolution` are
the store's; `bound` is the triple of action digest, policy version and chain
version; `due` tells whether the clock has reached `expires_at`. Each worker's
call is a walk (`pc`) through the store calls and clock reads the code makes,
each of them one action, because `InMemoryApprovalStore` locks each call and the
coordinator locks nothing:

| code | actions |
|---|---|
| `open_request` | `Open` |
| `submit_entry` | `BeginSubmit` (arguments and chain version), `LookupDuplicate`, `ReadStatus` and `ReadClock` (`_expire_if_due`), `Admit` (stage and authority), `Seal` (the last entry's digest), `AppendEntry` |
| `_maybe_resolve`, `_resolve` | `CheckResolution`, `Tally`, `SaveResolution`, `SetStatus` |
| `validate_for_execution` | `BeginValidate`, `Fetch`, `CheckStatus`, `CheckWindow`, `Verify`, `Consume` |
| a worker that dies in a call | `Fail` |
| time | `Tick` |

A digest is the place of the entry it identifies. The canonical serialisation
behind it is taken to be free of collisions. Votes carry stage, principal, kind
and decision; a service approver is treated by the code exactly as a human one.

`ApprovalContract` has no statuses, entries or resolutions: votes are cast, a
worker is *cleared* while the votes cast approve, only a cleared worker
releases, and only the action under review. The refinement mapping sends the
stored authoritative entries to votes and the workers that stand before
`consume` to the cleared ones.

### SagaOrchestrator

One saga. The orchestrator is asyncio code without locks, so what stands
between two awaits is one action: `Attempt` is a turn of the retry loop up to
the await on the executor (`Execute` begins a call, `Wake` continues one after
its delay), `Commit` and `Fail` follow the executor, `Compensate` begins the
rollback with the list of committed steps, `Undone` and `UndoFailed` follow a
compensator and go on to the next one, `Cancel` and `CancelCompensate` are
cancellations of the awaiting task. `AddStep` asks nothing of the saga's state,
nor does `Execute`: the code does not.

### RelayServer and Mailbox

One mailbox: the sockets its agent opens, its inbox, and the senders of
messages to it. Again one action per stretch between awaits. `Connect` and
`Replace`/`Register` are the connect path without and with a socket to close
first; `Push` and `PushFails` are turns of `_deliver_pending`; `Ack`,
`Heartbeat`, `Disconnect` and `DisconnectRaises` are the frames; `End` is every
way out of the message loop, with the `finally`; `Send`, `Routed` and `Broken`
are `_handle_message` before and after its await. The transport and the agent
are the environment: `Drop` loses a link with what is on the way, silently, as
TCP does; `Receive` is the agent's end; only what was received is acknowledged.
`routed` and `received` record history. `Mailbox` knows only sets of messages:
those taken (`Handled`, those a sender's handler is done with), stored (the
inbox), routed and received; there are no sockets in it. The time to live is left out, and
identity checks take place before the modelled part begins.

### DoubleRatchet and SecureDelivery

Both ends of one session, an initiator and a responder, from the shared secret
on. Keys are terms: a Diffie-Hellman output is the set of its two public keys, a
root key the sequence of the outputs that went into it, a message key a chain
and a number. A ciphertext opens with the key it was made with and no other, so
"decrypts" means that the receiver derives the term the sender used.

| code | actions |
|---|---|
| `encrypt`, `SecureChannel.send` | `Send` |
| `decrypt`, `SecureChannel.receive` | `OpenSkipped` (the key was cached), `OpenNext` (perhaps after a ratchet step and skipping; it may authenticate or not), `TooManySkipped` (refused before or after the ratchet step) |
| `SecureChannel.close` | `Close` |

Each call is one action, because a session is used by one thread. `sent` is the
transport: what was sent may be delivered at any time, in any order, never, or
again. `SecureDelivery` is a channel that only knows sets of messages: it hands
over what the peer sent, at most once, to an end that is open, and counts.

### AgentLifecycle

A manager with its rotator and detector over one JSON file. There is one thread,
so no two calls interleave; what interleaves is the crash. `_save` is
`Path.write_text`, which empties the file before it writes: `Save` changes
memory and empties the file, `Write` fills it, and `Restart`, possible between
any two steps, loads what is there (nothing at all from a file that does not
parse). A call with several saves leaves the rest of its work in `todo`:
`Activate` then `IssueCredential`; `Decommission`, `FinishDecommission`,
`ReturnDecommissioned`; `CheckAndRotate` and one `CheckAgent` per agent. The
other methods are one action each, plus the save. Ages of credentials and
silences grow with `Tick` and stop one past the limit they are compared with.
`past` is history: what was asked for, approved and retired.

### CircuitBreaker

Each method holds the breaker's lock and is one action: `PrepareCall`,
`RecordSuccess`, `RecordFailure`, `GetState`, `Reset`. Between the first and
the next two the caller's function runs for any time, so a result may be
recorded when the breaker has opened, closed and half opened again meanwhile.
`Abandon` is the call that records nothing: `call` catches `Exception`, which
neither a cancelled task nor a coroutine nobody awaits raises. `healthy` is the
agent behind the breaker: unhealthy it may succeed or fail, and it may recover
for good. `probes`, `leaked` and `isolated` are history.

### EscalationHandler

The requests of one agent, its approvers and the host threads. The backend's
lock makes `Vote` and the reading of a decision atomic; setting the event
(`SetEvent`), waking up or timing out (`Wake`, `TimeOut`), counting approvals
and then denials (`CountApprovals`, `CountDenials`) and the three steps of
`_check_fatigue` and `escalate` (`ReadTimes`, `SaveTimes`, `AutoDeny` or
`RecordTime`, `Submit`) are steps between which other threads run. The detector
stores the list it has filtered and goes on to use it, so that two threads may
hold the same list: `listed` says whose local is the list that is stored. The
configuration (quorum or not, default on time-out, a backend that waits or one
that is polled) is chosen initially, so one run covers all eight.

## 3. Properties

Approval protocol:

- `ReleasedOnApproval`: every execution released is of the action, policy and
  chain version the request is bound to, and over linked entries that approve
  it (every required stage allowed by somebody it permits, no deny).
- `AllowIsEndorsed`: an allow is only ever stored over such entries.
- `ImplementsContract`: the refinement. In particular a deny appended after
  the resolution stops everybody who is not past the chain check.
- `ConsumedAtMostOnce`: with one submitter and any racing validators.
- `AllowedIsReleasable`, `StatusIsSettled`: with one call at a time (and one
  that dies): status, resolution and chain agree, and an approval is usable.
- `TimeoutSettles`: a request that is asked about after its window leaves
  "pending" for good. Expiry is lazy, hence the condition.

Saga: `OneExecution` (executors of one step exclude each other),
`RollbackOrder` (the rollback finds each step of its plan still committed and
goes from the last to the first), `OutcomeTold` (COMPLETED and ESCALATED tell
the truth about the plan), `LegalMoves` (no step leaves the transition table),
`CompensationEnds`, `CallsEnd`.

Relay: `ImplementsMailbox` (a message is taken once, and stored or handed to a
live socket; only what was taken is received; what is stored is given up only
after it was received), `LiveSocketKeepsEntry` (no handler takes the entry of a
socket that stays open, in any order of replacements and ends, but for a send
that failed and whose message is stored),
`PendingArrives` (what is pushed arrives unless the socket breaks).

Double Ratchet:

- `KeysAreForgotten`: forward secrecy. What an end holds yields no key of a
  message it has sent or decrypted, whatever was lost, reordered, redelivered or
  refused; in particular a redelivered message of an earlier chain, which turns
  the state back to that chain's public key, does not bring its keys back.
- `AnyOrderDecrypts`: without redelivery and eviction no message fails to
  decrypt, over any number of turns and also after a message that was refused.
- `SkippedIsCapped`: the aggregate cap holds over the bursts of several turns.
- `ImplementsChannel`: the refinement; nothing is handed over twice or invented.

Lifecycle:

- `FileAgrees`: between saves the file has of each agent what memory has, but
  for the credential.
- `DecommissionIsFinal`: once `decommission` has returned, neither a call nor a
  restart brings the agent, or its credential, back.
- `ApprovedBeforeService`: where approval is required, nobody serves or holds
  a credential without one, by whichever chain of calls and restarts.
- `CredentialRenewed`, `SilentIsOrphaned`: the rotator and the detector get to
  every agent that needs them.

Circuit breaker: `ProbesBounded` (the slots of a half-open period belong to
calls of that period, whatever earlier calls record), `ClosedIsBelowThreshold`,
`QuietPeriod` (from opening to the end of the recovery time-out no call is let
through), `Recovers` (with a healthy agent the breaker closes, if fewer calls
than slots end without a result).

Escalation:

- `AllowIsBacked`: where silence means no, an ALLOW has as many approvals as
  asked for.
- `DenialPrevails`: a quorum of denials stands against later votes, time-outs
  and an allowing default.
- `VotesAreHonoured`: a decision or a quorum of approvals that stood when the
  host asked is what the host is told, wherever the event and the time-out fall.
- `FatigueBounded`: one escalating thread keeps to the threshold per window.

Each module has one type invariant, which also says what a process at a given
step holds.

## 4. Runs

| run | instance | question | states |
|---|---|---|---|
| `approval_concurrent` | 2 workers, 2 stages, 4 votes (a deny and an advisory one among them), 3 entries, 2 bindings, 1 failure | safety and refinement when everything races | 1.4 million |
| `approval_serial` | 1 worker, 6 votes, repeated ids, 3 entries, 1 failure | agreement of status, resolution and chain between calls | 95 thousand |
| `approval_one_submitter` | 1 submitter, 2 validators, 2 votes, 2 entries, 1 failure, fairness | one consumption; expiry settles | 370 thousand |
| `saga` | 2 callers, 3 steps, 0 or 1 retries, 1 cancellation, fairness | all saga properties | 286 thousand |
| `relay` | 2 senders, 2 sockets, 1 message each, 1 lost link, fairness | all relay properties | 42 thousand |
| `ratchet` | 7 messages, 1 redelivery, `MAX_SKIP` 2, total 2 | all session properties | 321 thousand |
| `lifecycle` | 2 agents, the default policy and a lenient one, TTL 1, 1 crash, fairness | all lifecycle properties | 412 thousand |
| `breaker` | 3 callers, threshold 2, time-out 2, 2 slots, 1 call abandoned, 1 reset, fairness | all breaker properties | 4 thousand |
| `escalation` | 3 approvers, 2 requests, 1 host, quorum 2 to 1, threshold 1, window 1, all 8 configurations | all escalation properties | 808 thousand |

Why these bounds suffice to make the interesting cases happen. Approval: two
stages are the least for which a chain can be partly approved; three entries
allow an allow for each and a third that contradicts or comes late; two workers
are the least that race, and each check in the code compares what one other
call did; two bindings tell the right action from a wrong one. Saga: three steps
give a first, a middle and a last one to the rollback; two callers race for one
step; one retry makes the delay in which a step can be taken over. Relay: one
socket replaces the other while the other's handler pushes, sends or ends; two
messages make a push that fails half-way. Ratchet: seven messages make turns
of both ends with gaps before and after them; caps of two are reached and
exceeded within one burst and over two. Lifecycle: a second agent is what a
save or a sweep must leave alone; one crash falls between any two writes; a TTL
of one has a credential that is fresh, expiring and expired. Breaker: three
callers are one late result more than there are slots. Escalation: a quorum of
two of three leaves one vote to contradict it; two requests are one more than
the threshold.

`MaxEntries`, `MaxFailures`, `MaxSteps`, `MaxCancels`, `MaxSent`, `MaxDrops`,
`MaxRedeliveries`, `MaxCrashes`, `MaxAbandoned`, `MaxResets` and the size of
`Requests` are the only bounds that are not in the code; the proofs hold for
each value of them.

Symmetry is used only in runs without liveness properties. Deadlock is not
checked outside the approval runs: a saga that is over, a relay whose agent
will not connect again, a session whose ends are closed, a handler all of whose
requests were voted on may stop.

### Runs that refute a claim

Each checks one statement made by the repository's documents or comments, and
TLC finds a behaviour of the code that contradicts it.

- `approval_two_submitters`, `ConsumedAtMostOnce`. `store.consume` "returns
  `True` exactly once". Two submissions that complete the chain both pass the
  check for an existing resolution; the slower one's `set_status(allowed)`
  comes after the first consumption and makes a second possible.
- `approval_resume`, `DecidedIsResolved`. A worker dies after `append_entry`; the
  retry finds its `chain_entry_id` and returns, and nothing resolves the request.
- `ratchet_redelivered`, `OnlyRepeatsFail`. "Messages delivered out of order are
  decrypted correctly", over a relay that redelivers until it has an ack. A
  redelivered message fails, but `decrypt` has advanced the chain by then: the
  next new message fails too, although it arrives once and in order.

### Further divergences, without a run

Met while modelling; the models contain the behaviour, and the properties above
are stated so that they hold of it.

- Approval. A late allow overwrites `expired` (ADR-0030: "never allow"; the
  execution is still refused, since validation reads the clock again). Two
  concurrent deliveries of one `chain_entry_id` are both stored. An approver's
  contradicting second vote on a stage is stored, where the ADR says it is
  rejected (the deny prevails).
- Saga. A step in flight while the saga is compensated commits after COMPLETED
  (`agent-hypervisor/README.md`: "all committed steps are undone").
- Relay. A connect overwrites what was registered while it awaited the close of
  the socket it had found: that socket is never closed (the "ghost" of the
  comment in `app.py`; its tests: "the previous socket is closed eagerly"). A
  send that fails to a replaced socket removes its successor's entry. A live
  message overtakes stored ones of its sender (the wire specification: "in
  send-order per sender").
- Ratchet. The wire specification says "Maximum skipped keys per session: 100";
  the code allows 100 per call and 2000 per session.
- Lifecycle. A crash inside a save loses every agent, although tutorial 30 offers
  the file as persistent storage. A `decommission` cut short leaves the agent
  DECOMMISSIONING with its credential, and only `reject` still moves it.
  `revoke_all` is not saved, and the rotator issues a new credential to what
  it revoked. `decommissioned_at` is set after the last save. `change_owner` and
  `reclaim` accept an empty owner despite `require_owner`. `reclaim` leaves the
  heartbeat, so a reclaimed agent is at once silent again.
- Breaker. With one slot and one abandoned probe the breaker stays half open
  and refuses everybody until a reset ("Lets a test call through after 30s to
  check recovery").
- Escalation. The first vote ends the wait also with a quorum; the second one is
  not waited for, and with a default of ALLOW an unmet quorum allows (the
  docstring: "requires at least `required_approvals`"). To `resolve`, a request
  that the fatigue detector denied is one nobody has answered: with a default of
  ALLOW it is allowed. Two escalating threads lose each other's times, so more
  than the threshold get through (tutorial 9: "max 5 escalations per minute").
  A polled backend whose request is pending is answered with the default, not
  "the current state".

Hazards of the code that no property covers, because nothing in the modelled
code acts on them: the approval window is read two store calls before the
consumption; a cancelled `compensate` leaves its saga COMPENSATING; an executor
that took effect and timed out is executed again; a refused second call
overwrites `retry_count`; a message routed live is lost when the link breaks
after the send; an agent that sends frames but no heartbeats counts as stale;
`cleanup_expired` has no caller; `check_cascade` reads the breakers one by one.

## 5. Fairness

- `ApprovalCoordinator!FairSpec`: a worker inside a call takes its next step.
  Threads are scheduled and store calls return. Nobody is obliged to submit or
  validate, and `Fail` is not fair. `RetrySpec` adds that approvers' channels
  retry, which ADR-0030 asks of them; it is used only in the run that shows that
  retrying does not help.
- `SagaOrchestrator!FairSpec`: `asyncio.wait_for` ends every await on a
  cooperative executor or compensator, `asyncio.sleep` ends. Nobody has to add,
  execute, compensate or cancel anything.
- `RelayServer!FairSpec`: a handler that has closed the replaced socket goes on,
  a push makes progress (the send returns or raises), and a link that is up
  delivers. Nothing obliges the agent to connect, acknowledge or keep its link.
- `AgentLifecycle!FairSpec`: a call that has begun goes on, crashes apart; the
  operator's loop of tutorial 30 (steps 6 and 7) calls the rotator again and
  again and marks what the detector reports. Other calls come in between and
  disable these for a while, hence strong fairness. No other call is obliged.
- `CircuitBreaker!FairSpec`: time passes, callers keep calling, a function of a
  healthy agent returns. Recovery, failure and reset are not obliged.
- `DoubleRatchet` and `EscalationHandler` state none: a transport may lose
  everything, and approvers need not vote. Their properties are safety.

## 6. Proofs

All theorems hold for arbitrary constants that satisfy the modules' named
assumptions. These are types (`VotesAssumption`, `RetriesAssumption`,
`BoundsAssumption`, `NoneAssumption`, `ConstantsAssumption`,
`FatigueAssumption`), that required stages are stages (`ChainAssumption`), that
approvers and requests are finite sets (`SetsAssumption`), and what
`QuorumConfig` refuses (`QuorumAssumption`).

**Approval** (`ApprovalCoordinatorProofs`). `TypeCorrect`; `ReleaseIsSafe` and
`AllowIsSafe` are `ReleasedOnApproval` and `AllowIsEndorsed`;
`CoordinatorImplementsContract` is the refinement. Neither safety property is
inductive: a call that holds an allow is about to store it, and a call past a
check is about to act on it. `IInv` adds that every stored entry passed its
stage's authority check (`EntriesPermitted`), and, for every worker, what its
call has established at its step (`CallInv`): a held allow is endorsed, a
fetched resolution is an allow from `status` on, the claim matches from
`window` on, the links up to the final entry hold from `consume` on. Other
workers' steps keep that because the chain only grows at its end
(`ChainGrows`). The verdict's soundness is `VerdictSound`. For the refinement,
`WholeChainApproves` shows that a call that passes the chain check finds all
stored votes approving: the final entry is the last one.
`OneSubmitterConsumesOnce` proves `ConsumedAtMostOnce` for at most one submitter
and any number of validators. `OnceInv` says that the status becomes "allowed"
only while nothing was executed: a submitter that found no resolution finds the
request `Fresh` until it has itself set the status, since validators store
nothing but expiries, and a resolution, once stored, turns away every later
submission.

Two theorems are about calls that follow one another (at most one worker), which
is what a deployment with one serving thread has.
`SerialApprovalIsReleasable` proves `AllowedIsReleasable`, with calls cut short
at any step: `SerialInv` says that the chain has no branches, that an allow held
or in force is of the whole chain, and that no call that has passed its first
status check finds the request allowed (`AloneInv`). A verdict covers the whole
chain because the entry whose submission computes it is the last and
authoritative (`VerdictCoversChain`). `SerialStatusIsSettled` proves
`StatusIsSettled` when some stage is required: `SettledInv` says that what is
not settled between two calls is accounted for by the call under way, and
`AdvisoryDecidesNothing` that an advisory entry, after which nothing is tallied,
leaves the verdict as it was. The hypothesis is needed: a chain without required
stages decides a denial while it is still empty, and the code applies that only
at the first authoritative entry. With two workers both properties fail by a
crossing of steps, see the findings and hazards.

**Saga** (`SagaOrchestratorProofs`). `TypeCorrect`, `ExecutionIsExclusive`,
`RollbackIsOrdered`, `OutcomeIsTrue`, `StepsKeepToTheTable`. The invariant adds
to the properties only `PlanInv`: before a rollback its locals are empty, and
during one the list of failures is that of the steps of the plan that are
COMPENSATION_FAILED. The argument is that execution and rollback work on
disjoint sets of steps: an executor can only run on an EXECUTING step, the plan
has none, and no transition leads from a state after COMMITTED back to PENDING.
`StepsKeepToTheTable` is the action property `LegalMoves`, from the same
invariant: a call's executor waits on a step that is still EXECUTING.

**Relay** (`RelayServerProofs`). `TypeCorrect`, `EntriesAreServed`,
`LiveEntriesStay`, `RelayIsMailbox`, `StoredIsKept`. `RegisteredIsServed` (no
handler ends and leaves its own entry; a theorem only, without a run) is
inductive once the types are known; it rests on the comparison in the `finally`
and on the registration of a socket only by its own handler. The refinement needs an
invariant about everything between the inbox and the agent, `OnlyHandled`: what
a push still holds, a link carries and the agent has received are messages that
some handler is done with, because a push is a copy of the inbox and a message
is put on a link in the step in which its handler lets go of it. Then every step
takes, delivers or releases one message, or none (`StepKinds`): the inbox gives
up a message only for an ack, and a sender's handler lets go of one only to the
inbox or to a socket that took it. `StoredIsKept` says the same of states: a
message taken is stored, was received, or was handed to a live socket.
`LiveEntriesStay`, the action property, needs the invariant for its exception: a
message whose send failed is new to the inbox, so it is stored in the very step
that removes the entry.

**Double Ratchet** (`DoubleRatchetProofs`). `TypeCorrect`, `ForwardSecrecy`,
`SessionImplementsChannel`, `CacheIsCapped`, `AnyOrderIsDecrypted`. The argument for forgetting is an
order: roots only grow, so the length of a chain says when it was made, and its
parity for which direction. `EndInv` bounds the chains of what an end holds, sent
and opened by its root; `CacheInv` says that a cached key is of a receiving
chain, below the number reached in it, and was never opened. A message that
turns the state, even back to an old public key, derives longer chains than any
before, whose keys nobody has used. The refinement follows: a message opens only
with its own key, and a key that was used is gone. For the cap, every cached key
has a place of its own in the order of insertion (`SkipKeepsPlaces`,
`RatchetStepKeepsPlaces`, `PlacesAreKept`); the oldest key that survives an
eviction is followed by all other survivors, and has fewer than
`MAX_SKIPPED_KEYS_TOTAL` after it (`EvictCaps`).

`AnyOrderIsDecrypted` proves `AnyOrderDecrypts` over any number of turns. While
nothing was delivered twice and nothing evicted (`Calm`), both ends take the
same turns: the roots are prefixes of one sequence (`Canon`, `OnTrack`), an end
knows the last or last but one key pair of its peer (`InStep`), and what it is
beyond and has not received is in its cache (`Caught`). So a message handed over
whose key is not cached is of the turn the end is in, at or after the next
number, or of the peer's next turn (`ComesNext`); the key derived for it is its
own (`TurnedStaysOnTrack`), and the keys passed over on the way are cached, those
of the turn left behind as far as the message's `pn` says, which is all that was
sent in it (`Counted`, `TurnedCatches`). `TrackInv` joins these; it is false
once a message of an older turn comes again, since that turns the state away
from the peer's, which is why the property is conditional.

**Lifecycle** (`AgentLifecycleProofs`). `TypeCorrect`,
`RestartForgetsCredentialsOnly`, `NoReturnFromDecommission`,
`ServiceIsApproved`. `IInv` holds both copies of every agent to the same
conditions (`Sound`, over memory and file), adds that the file is empty while
it is being saved, and what the rest of a call counts on (`Kept`): the agent is
active still when its credential is issued, and decommissioned in memory and
file when `decommission` returns. A torn file is sound, since it has no agents.

**Circuit breaker** (`CircuitBreakerProofs`). `TypeCorrect`,
`SlotsAreAccountedFor`, `ThresholdOpens`, `QuietPeriodIsKept`. The invariant
adds that the breaker's clock, which every late failure sets back, never runs
ahead of the time since it opened.

**Escalation** (`EscalationHandlerProofs`). `TypeCorrect`, `AllowsAreBacked`,
`DenialsPrevail`, `VotesCount`, and `OneEscalatorIsBounded` for one escalating
thread. Votes are never withdrawn: what a host has counted, or found when it
asked, still stands when it answers. The invariant says so for each position of
a host. The fatigue bound needs that the stored list of a single escalator has every
submitted request that the window covers, and is its own when it is measured.

Model-checked only: the liveness properties (`TimeoutSettles`,
`CompensationEnds`, `CallsEnd`, `PendingArrives`, `CredentialRenewed`,
`SilentIsOrphaned`, `Recovers`), since fairness and ENABLED are out of the
prover's reach. Every safety property, action property and refinement that a
passing run checks is proved. The strengthenings were checked by TLC as
invariants of the same runs before they were proved.

## 7. What is not modelled, and why

- `mesh/governance/approval_protocol/models.py`: field by field validation and
  canonical digests; the model keeps what the checks compare.
- Relay: proof of possession, Entra and static tokens (cryptography, before the
  modelled part), the health route, the 72 hour TTL. `cleanup_expired` has no
  caller in the relay.
- Ratchet: the primitives, associated data, and the serialization of headers and
  of the state. Key agreement and the bridge are planned.
- Lifecycle: event texts, and the inactivity reason of `detect`, which only
  lengthens the list it returns.
- Escalation: the webhook call and the callback, which change no state.
- Trust handshake: cryptographic checks around one await, which the default
  handshake never suspends at. What interleaving and caching could break, a
  result cached under the peer alone, is recorded by the repository itself
  (`docs/security/audits/2026-06-25-falsy-default-thresholds.md`).
- Policy engines, conflict resolution, OPA, Cedar, the Rust engine: functions of
  their inputs over strings and patterns.
- Audit logs, transaction history, reversibility registry: append-only and
  sequential.
- External identity providers, transports, storage, servers, CLIs, framework
  integrations, SDKs in other languages, CLI extensions: I/O and wiring, or
  ports of what is modelled.
- The rest of Agent OS and SRE, runtime, marketplace, sandbox, compliance,
  discovery and the smaller Python packages: outside the core chosen here.

The modules cover a small share of the repository's lines: most of them are
adapters, rules, servers and command lines. What they cover is where the order
of events decides whether the result is correct.

## 8. Plan

Each gets an MC module, one run for what holds, and proofs of its type and main
invariants.

1. `KeyAgreement`: pre-key bundles of the registry, one-time keys used once,
   two ends that open to each other at the same time.
2. `SessionLifecycle` with snapshots against later permissions; `RingElevation`
   with lazy expiry; `KillSwitch` against registrations.
3. `CredentialLifecycle` and `CapabilityDelegation` (operators against a
   reference definition).
4. `RelayServer`, by way of `Mailbox`, composed with two `DoubleRatchet` ends.
5. More proofs: none of the passing runs' safety properties is left; the new
   modules bring their own.
