-------------------------- MODULE SagaOrchestrator --------------------------
(***************************************************************************)
(* One saga of the agent hypervisor: saga/orchestrator.py over the states  *)
(* of saga/state_machine.py.                                               *)
(*                                                                         *)
(* The orchestrator runs on an asyncio loop and takes no lock: what stands *)
(* between two awaits is one action, and tasks interleave where they wait  *)
(* for an executor, for the delay before a retry, or for a compensator. An *)
(* executor or compensator that raises or returns without suspending is    *)
(* one that is resumed at once.                                            *)
(*                                                                         *)
(* Data abstracted: a step is its place in saga.steps, undo_api is whether *)
(* there is one; results, error texts, timestamps and retry_count, which   *)
(* nothing reads, are left out. A timeout and an exception of an executor  *)
(* have the same effect.                                                   *)
(***************************************************************************)
EXTENDS Integers, Sequences, FiniteSetsExt

CONSTANTS
    Callers,     \* tasks that call execute_step
    Retries,     \* the values of max_retries that steps are added with
    MaxSteps,    \* bound: how many steps are added
    MaxCancels   \* bound: how many tasks are cancelled

ASSUME RetriesAssumption == Retries \subseteq Nat
ASSUME BoundsAssumption  == MaxSteps \in Nat /\ MaxCancels \in Nat

STEP_TRANSITIONS ==
    [pending      |-> {"executing"},
     executing    |-> {"committed", "failed"},
     committed    |-> {"compensating"},
     compensating |-> {"compensated", "compensation_failed"},
     failed       |-> {"pending"},
     compensated  |-> {},
     compensation_failed |-> {}]

StepState == DOMAIN STEP_TRANSITIONS

SagaStep == [state : StepState, undo : BOOLEAN, max_retries : Retries]

\* A call of execute_step: the loop's attempt, and what it waits for.
Call == [step : Nat, attempt : Nat, waits : {"executor", "delay"}]

Idle == [step |-> 0, attempt |-> 0, waits |-> "nothing"]

VARIABLES
    saga,     \* saga.state
    steps,    \* saga.steps
    calls,    \* where each caller's execute_step stands
    plan,     \* compensate: the steps it found committed when it began
    at,       \* compensate: the step whose compensator it waits for, or 0
    failed,   \* compensate: failed_compensations
    cancels   \* history: how many tasks were cancelled

rollback == <<saga, plan, at, failed>>
vars == <<saga, steps, calls, plan, at, failed, cancels>>

Init ==
    /\ saga = "running"
    /\ steps = <<>>
    /\ calls = [c \in Callers |-> Idle]
    /\ plan = {}
    /\ at = 0
    /\ failed = {}
    /\ cancels = 0

-----------------------------------------------------------------------------
(* add_step asks nothing of the saga's state. *)

AddStep(undo, retries) ==
    /\ Len(steps) < MaxSteps
    /\ steps' = Append(steps, [state |-> "pending", undo |-> undo,
                               max_retries |-> retries])
    /\ UNCHANGED <<calls, rollback, cancels>>

-----------------------------------------------------------------------------
(* execute_step. Neither does it ask anything of the saga's state. *)

\* Mutant: any step that has not been committed may be executed.
MayExecuteUncommitted(i) == steps[i].state \in {"pending", "executing", "failed"}

MayExecute(i) == "executing" \in STEP_TRANSITIONS[steps[i].state]

\* A turn of the loop, up to the await on the executor. The transition raises
\* SagaStateError unless the step is pending; an executor that returns
\* something other than an awaitable fails the step, and is not retried.
Attempt(c, i, k) ==
    /\ \/ /\ ~MayExecute(i)
          /\ calls' = [calls EXCEPT ![c] = Idle]
          /\ UNCHANGED steps
       \/ /\ MayExecute(i)
          /\ calls' = [calls EXCEPT ![c] = Idle]
          /\ steps' = [steps EXCEPT ![i].state = "failed"]
       \/ /\ MayExecute(i)
          /\ calls' = [calls EXCEPT ![c] = [step |-> i, attempt |-> k,
                                            waits |-> "executor"]]
          /\ steps' = [steps EXCEPT ![i].state = "executing"]
    /\ UNCHANGED <<rollback, cancels>>

Execute(c, i) ==
    /\ calls[c] = Idle
    /\ Attempt(c, i, 0)

\* Mutant: the attempt is not counted.
WakeUncounted(c) ==
    /\ calls[c].waits = "delay"
    /\ Attempt(c, calls[c].step, calls[c].attempt)

Wake(c) ==
    /\ calls[c].waits = "delay"
    /\ Attempt(c, calls[c].step, calls[c].attempt + 1)

Commit(c) ==
    /\ calls[c].waits = "executor"
    /\ steps' = [steps EXCEPT ![calls[c].step].state = "committed"]
    /\ calls' = [calls EXCEPT ![c] = Idle]
    /\ UNCHANGED <<rollback, cancels>>

\* Mutant: one attempt too many.
RetriesLeftOneMore(c) == calls[c].attempt <= steps[calls[c].step].max_retries

RetriesLeft(c) == calls[c].attempt < steps[calls[c].step].max_retries

Delay(c) == [calls[c] EXCEPT !.waits = "delay"]

\* The executor raised or timed out. While attempts are left, the step goes
\* through FAILED back to PENDING and the call sleeps.
Fail(c) ==
    /\ calls[c].waits = "executor"
    /\ IF RetriesLeft(c)
       THEN /\ steps' = [steps EXCEPT ![calls[c].step].state = "pending"]
            /\ calls' = [calls EXCEPT ![c] = Delay(c)]
       ELSE /\ steps' = [steps EXCEPT ![calls[c].step].state = "failed"]
            /\ calls' = [calls EXCEPT ![c] = Idle]
    /\ UNCHANGED <<rollback, cancels>>

\* CancelledError is no Exception: no handler runs, the step stays as it is.
Cancel(c) ==
    /\ calls[c] # Idle
    /\ cancels < MaxCancels
    /\ calls' = [calls EXCEPT ![c] = Idle]
    /\ cancels' = cancels + 1
    /\ UNCHANGED <<steps, rollback>>

-----------------------------------------------------------------------------
(* compensate. *)

\* Mutant: steps that still execute are rolled back with the others.
CommittedAlsoExecuting == {i \in DOMAIN steps : steps[i].state \in {"executing", "committed"}}

\* saga.committed_steps
Committed == {i \in DOMAIN steps : steps[i].state = "committed"}

\* The next step whose compensator is called: the last of those to do with an
\* undo_api, 0 if there is none.
NextUndo(todo) == Max({i \in todo : steps[i].undo} \cup {0})

\* Mutant: the last failure alone decides.
OutcomeOfLast(fails) == IF 1 \in fails THEN "escalated" ELSE "completed"

Outcome(fails) == IF fails # {} THEN "escalated" ELSE "completed"

\* The loop over the steps still to do, up to its next await or to the end.
\* ended is the state in which it leaves the step it waited for, if any.
\* Steps without undo_api on the way are marked failed.
Continue(todo, ended, fails) ==
    LET next  == NextUndo(todo)
        dead  == {i \in todo : i > next}
    IN  /\ steps' = [i \in DOMAIN steps |->
                        CASE i = at   -> [steps[i] EXCEPT !.state = ended]
                          [] i = next -> [steps[i] EXCEPT !.state = "compensating"]
                          [] i \in dead -> [steps[i] EXCEPT !.state = "compensation_failed"]
                          [] OTHER -> steps[i]]
        /\ failed' = fails \cup dead
        /\ at' = next
        /\ saga' = IF next = 0 THEN Outcome(fails \cup dead) ELSE "compensating"
        /\ UNCHANGED <<calls, cancels>>

\* The transition to COMPENSATING raises in any other state of the saga.
Compensate ==
    /\ saga = "running"
    /\ plan' = Committed
    /\ Continue(Committed, "committed", {})

\* Mutant: the loop does not move on from the step it has dealt with.
TodoAndCurrent == {i \in plan : i <= at}

\* The steps of the plan that the loop has not come to.
Todo == {i \in plan : i < at}

Undone ==
    /\ at # 0
    /\ Continue(Todo, "compensated", failed)
    /\ UNCHANGED plan

\* The compensator raised, timed out, or returned no awaitable.
UndoFailed ==
    /\ at # 0
    /\ Continue(Todo, "compensation_failed", failed \cup {at})
    /\ UNCHANGED plan

\* Cancelled: the saga and the step stay COMPENSATING.
CancelCompensate ==
    /\ at # 0
    /\ cancels < MaxCancels
    /\ at' = 0
    /\ cancels' = cancels + 1
    /\ UNCHANGED <<saga, steps, calls, plan, failed>>

-----------------------------------------------------------------------------
Next ==
    \/ \E undo \in BOOLEAN, retries \in Retries : AddStep(undo, retries)
    \/ \E c \in Callers :
          \/ \E i \in DOMAIN steps : Execute(c, i)
          \/ Wake(c)
          \/ Commit(c)
          \/ Fail(c)
          \/ Cancel(c)
    \/ Compensate
    \/ Undone
    \/ UndoFailed
    \/ CancelCompensate

Spec == Init /\ [][Next]_vars

\* wait_for ends every wait on a cooperative executor or compensator, and a
\* sleep ends. Nobody has to add a step, call the orchestrator or cancel.
FairSpec ==
    /\ Spec
    /\ \A c \in Callers : WF_vars(Wake(c)) /\ WF_vars(Commit(c) \/ Fail(c))
    /\ WF_vars(Undone \/ UndoFailed)

-----------------------------------------------------------------------------
(* Properties. *)

SagaState == {"running", "compensating", "completed", "escalated"}

\* Every variable has its type; a call stands at one of its step's attempts.
TypeOK ==
    /\ saga \in SagaState
    /\ steps \in Seq(SagaStep)
    /\ calls \in [Callers -> Call \cup {Idle}]
    /\ \A c \in Callers : calls[c] # Idle =>
          /\ calls[c].step \in DOMAIN steps
          /\ calls[c].attempt <= steps[calls[c].step].max_retries
          /\ calls[c].waits = "delay" => RetriesLeft(c)
    /\ plan \subseteq DOMAIN steps
    /\ at \in plan \cup {0}
    /\ failed \subseteq plan
    /\ cancels \in 0..MaxCancels

\* Two calls of execute_step never run the same step's executor at once, and
\* while one does the step is EXECUTING: only the call that runs it can end it,
\* so the transitions of lines 132 to 171 never raise.
OneExecution ==
    \A c \in Callers : calls[c].waits = "executor" =>
        /\ steps[calls[c].step].state = "executing"
        /\ \A d \in Callers \ {c} :
              calls[d].waits = "executor" => calls[d].step # calls[c].step

\* Compensation runs in reverse order of the steps: while the loop waits for
\* one step's compensator, every step of its plan that comes later has been
\* dealt with, and every earlier one is committed still, whatever execute_step
\* did meanwhile (so the transition of line 210 never raises).
RollbackOrder ==
    at # 0 =>
        /\ saga = "compensating"
        /\ steps[at].state = "compensating"
        /\ \A i \in plan :
              /\ i < at => steps[i].state = "committed"
              /\ i > at => steps[i].state \in {"compensated", "compensation_failed"}

\* A saga that compensate closed tells the truth about its plan: COMPLETED
\* means that each step of the plan was undone, ESCALATED that each was dealt
\* with and at least one could not be undone.
OutcomeTold ==
    /\ saga = "completed" => \A i \in plan : steps[i].state = "compensated"
    /\ saga = "escalated" =>
          /\ \A i \in plan : steps[i].state \in {"compensated", "compensation_failed"}
          /\ \E i \in plan : steps[i].state = "compensation_failed"

\* The moves one action may make with step i: along STEP_TRANSITIONS (a retry
\* passes FAILED on the way to PENDING, an executor that returns no awaitable
\* EXECUTING on the way to FAILED), and from COMMITTED to COMPENSATION_FAILED
\* directly when it has no undo_api.
LegalMove(i) ==
    LET was == steps[i].state
        is  == steps'[i].state
    IN  \/ is = was
        \/ is \in STEP_TRANSITIONS[was]
        \/ is \in {"pending", "failed"} /\ was \in {"pending", "executing"}
        \/ was = "committed" /\ is = "compensation_failed" /\ ~steps[i].undo

\* Nothing is undone that was not committed, and nothing committed is executed
\* again: a step moves along its table only, whatever calls interleave.
LegalMoves == [][\A i \in DOMAIN steps : LegalMove(i)]_vars

\* compensate ends, unless its task is cancelled, and closes the saga.
CompensationEnds ==
    saga = "compensating" ~> saga \in {"completed", "escalated"} \/ at = 0

\* Every call of execute_step ends: the attempts are bounded.
CallsEnd == \A c \in Callers : calls[c] # Idle ~> calls[c] = Idle

=============================================================================
