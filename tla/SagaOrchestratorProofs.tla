----------------------- MODULE SagaOrchestratorProofs -----------------------
(***************************************************************************)
(* Proofs about SagaOrchestrator, for every number of callers, steps,      *)
(* retries and cancellations.                                              *)
(***************************************************************************)
EXTENDS SagaOrchestrator, ExtremeElements, SequenceTheorems, TLAPS

\* What compensate's locals amount to: none before it begins, and the list of
\* failures is that of the steps that failed.
PlanInv ==
    /\ saga = "running" => at = 0
    /\ at # 0 => failed = {i \in plan : steps[i].state = "compensation_failed"}

IInv == TypeOK /\ OneExecution /\ RollbackOrder /\ OutcomeTold /\ PlanInv

\* The states of a step, and where each may go.
LEMMA StepStates ==
    /\ StepState = {"pending", "executing", "committed", "compensating", "failed",
                    "compensated", "compensation_failed"}
    /\ \A s \in StepState : "executing" \in STEP_TRANSITIONS[s] => s = "pending"
<1>1. StepState = {"pending", "executing", "committed", "compensating", "failed",
                   "compensated", "compensation_failed"}
  BY DEF StepState, STEP_TRANSITIONS
<1>2. /\ STEP_TRANSITIONS["executing"] = {"committed", "failed"}
      /\ STEP_TRANSITIONS["committed"] = {"compensating"}
      /\ STEP_TRANSITIONS["compensating"] = {"compensated", "compensation_failed"}
      /\ STEP_TRANSITIONS["failed"] = {"pending"}
      /\ STEP_TRANSITIONS["compensated"] = {}
      /\ STEP_TRANSITIONS["compensation_failed"] = {}
  BY DEF STEP_TRANSITIONS
<1> QED BY <1>1, <1>2

\* The initial states satisfy the inductive invariant.
LEMMA InitIInv == Init => IInv
<1> SUFFICES ASSUME Init PROVE IInv
  OBVIOUS
<1>1. steps \in Seq(SagaStep) /\ DOMAIN steps = {}
  BY DEF Init
<1>2. TypeOK
  BY <1>1, BoundsAssumption DEF Init, TypeOK, SagaState
<1>3. \A c \in Callers : calls[c].waits = "nothing"
  BY DEF Init, Idle
<1> QED BY <1>2, <1>3 DEF Init, IInv, OneExecution, RollbackOrder, OutcomeTold, PlanInv

\* Giving one step another state keeps the steps' type and all else of them.
LEMMA OneStepMoves ==
    ASSUME TypeOK, NEW i \in DOMAIN steps, NEW s \in StepState,
           steps' = [steps EXCEPT ![i].state = s]
    PROVE  /\ steps' \in Seq(SagaStep)
           /\ DOMAIN steps' = DOMAIN steps
           /\ steps'[i].state = s
           /\ \A j \in DOMAIN steps :
                 /\ steps'[j].max_retries = steps[j].max_retries
                 /\ j # i => steps'[j] = steps[j]
<1>1. steps \in Seq(SagaStep) /\ \A j \in DOMAIN steps : steps[j] \in SagaStep
  BY DEF TypeOK
<1>2. [steps[i] EXCEPT !.state = s] \in SagaStep
  BY <1>1 DEF SagaStep
<1>3. steps' \in Seq(SagaStep)
  BY <1>1, <1>2
<1>4. steps'[i].state = s /\ steps'[i].max_retries = steps[i].max_retries
  BY <1>1, <1>2 DEF SagaStep
<1> QED BY <1>1, <1>3, <1>4

\* A step that execute_step may touch is not one that compensate deals with or
\* has dealt with: while such steps move and compensate's locals do not, what
\* is known of the rollback stays known.
LEMMA ExecutionSparesRollback ==
    ASSUME IInv, UNCHANGED rollback, DOMAIN steps \subseteq DOMAIN steps',
           \A i \in DOMAIN steps :
              \/ steps'[i].state = steps[i].state
              \/ steps[i].state \in {"pending", "executing"}
                 /\ steps'[i].state \in {"pending", "executing", "committed", "failed"}
    PROVE  RollbackOrder' /\ OutcomeTold' /\ PlanInv'
<1>1. /\ plan \subseteq DOMAIN steps /\ at \in plan \cup {0}
      /\ UNCHANGED <<saga, plan, at, failed>>
  BY DEF IInv, TypeOK, rollback
<1>2. \A i \in DOMAIN steps :
        /\ steps[i].state \in {"committed", "compensating", "compensated",
                               "compensation_failed"}
              => steps'[i].state = steps[i].state
        /\ steps'[i].state = "compensation_failed" => steps[i].state = "compensation_failed"
  OBVIOUS
<1>3. RollbackOrder'
  BY <1>1, <1>2 DEF IInv, RollbackOrder
<1>4. OutcomeTold'
  BY <1>1, <1>2 DEF IInv, OutcomeTold
<1>5. PlanInv'
  BY <1>1, <1>2 DEF IInv, PlanInv
<1> QED BY <1>3, <1>4, <1>5

\* One call moves the step it runs and nothing else: it comes to wait for an
\* executor only by moving a step that was pending to EXECUTING.
LEMMA CallStep ==
    ASSUME IInv, NEW c \in Callers, NEW i \in DOMAIN steps, NEW s \in StepState,
           NEW call \in Call \cup {Idle},
           \/ steps' = steps
           \/ steps' = [steps EXCEPT ![i].state = s]
              /\ \/ steps[i].state = "pending"
                 \/ calls[c].waits = "executor" /\ calls[c].step = i
              /\ s \in {"pending", "executing", "committed", "failed"},
           calls' = [calls EXCEPT ![c] = call],
           call # Idle => /\ call.step = i
                          /\ call.attempt <= steps[i].max_retries
                          /\ call.waits = "delay" => call.attempt < steps[i].max_retries,
           call.waits = "executor" =>
              /\ steps[i].state = "pending"
              /\ steps' = [steps EXCEPT ![i].state = s] /\ s = "executing",
           UNCHANGED rollback, cancels' \in 0..MaxCancels
    PROVE  IInv'
<1>1. /\ TypeOK
      /\ calls \in [Callers -> Call \cup {Idle}]
      /\ calls'[c] = call
      /\ \A d \in Callers \ {c} : calls'[d] = calls[d]
  BY DEF IInv, TypeOK
<1>2. /\ steps' \in Seq(SagaStep)
      /\ DOMAIN steps' = DOMAIN steps
      /\ \A j \in DOMAIN steps :
            /\ steps'[j].max_retries = steps[j].max_retries
            /\ j # i => steps'[j] = steps[j]
  BY <1>1, OneStepMoves DEF TypeOK
<1>3. steps' # steps => steps'[i].state = s
  BY <1>1, OneStepMoves
<1>4. TypeOK'
  <2>1. \A d \in Callers : calls'[d] # Idle =>
          /\ calls'[d].step \in DOMAIN steps'
          /\ calls'[d].attempt <= steps'[calls'[d].step].max_retries
          /\ calls'[d].waits = "delay" =>
                calls'[d].attempt < steps'[calls'[d].step].max_retries
    BY <1>1, <1>2 DEF TypeOK, RetriesLeft
  <2>2. UNCHANGED <<saga, plan, at, failed>>
    BY DEF rollback
  <2> QED BY <1>1, <1>2, <2>1, <2>2 DEF TypeOK, RetriesLeft
<1>5. steps' # steps => steps[i].state \in {"pending", "executing"}
  BY DEF IInv, OneExecution
<1>6. OneExecution'
  <2>1. ASSUME NEW d \in Callers, calls'[d].waits = "executor", d # c
        PROVE  steps'[calls[d].step].state = "executing" /\ calls[d].step \in DOMAIN steps
    <3>1. /\ calls[d].waits = "executor" /\ calls[d] # Idle
          /\ steps[calls[d].step].state = "executing"
      BY <1>1, <2>1 DEF IInv, OneExecution, Idle
    <3>2. calls[d].step \in DOMAIN steps
      BY <1>1, <3>1 DEF TypeOK
    <3>3. steps' # steps => calls[d].step # i
      BY <2>1, <3>1 DEF IInv, OneExecution
    <3> QED BY <1>2, <3>1, <3>2, <3>3
  <2>2. calls'[c].waits = "executor" => calls'[c].step = i /\ steps'[i].state = "executing"
    <3>1. Idle.waits = "nothing"
      BY DEF Idle
    <3> QED BY <1>1, <3>1, OneStepMoves
  <2>3. ASSUME calls'[c].waits = "executor", NEW d \in Callers \ {c},
               calls'[d].waits = "executor"
        PROVE  calls'[d].step # i
    <3>1. steps[calls[d].step].state = "executing"
      BY <1>1, <2>3 DEF IInv, OneExecution
    <3> QED BY <1>1, <2>3, <3>1
  <2>4. ASSUME NEW d \in Callers \ {c}, NEW e \in Callers \ {c}, e # d,
               calls'[d].waits = "executor", calls'[e].waits = "executor"
        PROVE  calls'[e].step # calls'[d].step
    <3>1. calls'[d] = calls[d] /\ calls'[e] = calls[e]
      BY <1>1, <2>4
    <3> QED BY <2>4, <3>1 DEF IInv, OneExecution
  <2> QED BY <1>1, <2>1, <2>2, <2>3, <2>4 DEF OneExecution
<1>7. RollbackOrder' /\ OutcomeTold' /\ PlanInv'
  BY <1>2, <1>3, <1>5, ExecutionSparesRollback
<1> QED BY <1>4, <1>6, <1>7 DEF IInv


\* execute_step keeps the inductive invariant.
LEMMA ExecuteKeeps ==
    ASSUME IInv, NEW c \in Callers,
           \/ \E i \in DOMAIN steps : Execute(c, i)
           \/ Wake(c) \/ Commit(c) \/ Fail(c) \/ Cancel(c)
    PROVE  IInv'
<1>1. /\ TypeOK
      /\ Idle.waits = "nothing" /\ Idle \in Call \cup {Idle}
      /\ calls[c] \in Call \cup {Idle}
      /\ cancels \in 0..MaxCancels
  BY DEF IInv, TypeOK, Idle
<1>2. \A i \in DOMAIN steps :
        /\ steps[i] \in SagaStep
        /\ steps[i].max_retries \in Nat
        /\ MayExecute(i) => steps[i].state = "pending"
  <2>1. \A i \in DOMAIN steps : steps[i] \in SagaStep
    BY <1>1 DEF TypeOK
  <2>2. \A s \in StepState : "executing" \in STEP_TRANSITIONS[s] => s = "pending"
    BY StepStates
  <2> QED BY <2>1, <2>2, RetriesAssumption DEF SagaStep, MayExecute
<1>3. {"pending", "executing", "committed", "failed"} \subseteq StepState
  BY DEF StepState, STEP_TRANSITIONS
<1>4. ASSUME NEW i \in DOMAIN steps, NEW k \in Nat, k <= steps[i].max_retries,
             Attempt(c, i, k)
      PROVE  IInv'
  <2>1. UNCHANGED rollback /\ cancels' \in 0..MaxCancels
    BY <1>1, <1>4 DEF Attempt
  <2>2. CASE steps' = steps /\ calls' = [calls EXCEPT ![c] = Idle]
    BY <1>1, <1>3, <2>1, <2>2, CallStep
  <2>3. CASE /\ MayExecute(i) /\ calls' = [calls EXCEPT ![c] = Idle]
             /\ steps' = [steps EXCEPT ![i].state = "failed"]
    BY <1>1, <1>2, <1>3, <2>1, <2>3, CallStep
  <2>4. CASE /\ MayExecute(i)
             /\ calls' = [calls EXCEPT ![c] = [step |-> i, attempt |-> k,
                                              waits |-> "executor"]]
             /\ steps' = [steps EXCEPT ![i].state = "executing"]
    <3> DEFINE call == [step |-> i, attempt |-> k, waits |-> "executor"]
    <3>1. i \in Nat
      BY <1>1 DEF TypeOK
    <3>2. call \in Call \cup {Idle}
      BY <3>1, <1>4 DEF Call
    <3>3. call.step = i /\ call.attempt = k /\ call.waits = "executor"
      OBVIOUS
    <3> HIDE DEF call
    <3> QED BY <1>1, <1>2, <1>3, <1>4, <2>1, <2>4, <3>2, <3>3, CallStep DEF call
  <2> QED BY <1>4, <2>2, <2>3, <2>4 DEF Attempt
<1>5. ASSUME calls[c].waits # "nothing"
      PROVE  /\ calls[c] # Idle
             /\ calls[c] \in Call
             /\ calls[c].step \in DOMAIN steps
             /\ calls[c].waits = "delay" =>
                   calls[c].attempt < steps[calls[c].step].max_retries
  BY <1>1, <1>5 DEF TypeOK, RetriesLeft
<1>6. CASE \E i \in DOMAIN steps : Execute(c, i)
  <2>1. PICK i \in DOMAIN steps : Execute(c, i)
    BY <1>6
  <2> QED BY <1>2, <1>4, <2>1 DEF Execute
<1>7. CASE Wake(c)
  <2>1. /\ calls[c].step \in DOMAIN steps
        /\ calls[c].attempt \in Nat
        /\ calls[c].attempt < steps[calls[c].step].max_retries
    BY <1>5, <1>7 DEF Wake, Call
  <2>2. /\ calls[c].attempt + 1 \in Nat
        /\ calls[c].attempt + 1 <= steps[calls[c].step].max_retries
    BY <1>2, <2>1
  <2> QED BY <1>4, <1>7, <2>1, <2>2 DEF Wake
<1>8. CASE Commit(c)
  <2>1. /\ calls[c].step \in DOMAIN steps
        /\ UNCHANGED rollback /\ cancels' \in 0..MaxCancels
    BY <1>1, <1>5, <1>8 DEF Commit
  <2> QED BY <1>1, <1>3, <1>8, <2>1, CallStep DEF Commit
<1>9. CASE Fail(c)
  <2> DEFINE i == calls[c].step
             call == [calls[c] EXCEPT !.waits = "delay"]
  <2>1. /\ i \in DOMAIN steps
        /\ calls[c] \in Call
        /\ UNCHANGED rollback /\ cancels' \in 0..MaxCancels
    BY <1>1, <1>5, <1>9 DEF Fail
  <2>2. CASE ~RetriesLeft(c)
    BY <1>1, <1>3, <1>9, <2>1, <2>2, CallStep DEF Fail
  <2>3. CASE RetriesLeft(c)
    <3>1. /\ call \in Call \cup {Idle} /\ call.waits = "delay"
          /\ call.step = i /\ call.attempt = calls[c].attempt
          /\ calls[c].attempt \in Nat
      BY <2>1 DEF Call
    <3>2. call.attempt < steps[i].max_retries /\ steps[i].max_retries \in Nat
      BY <1>2, <2>1, <2>3, <3>1 DEF RetriesLeft
    <3>3. /\ steps' = [steps EXCEPT ![i].state = "pending"]
          /\ calls' = [calls EXCEPT ![c] = call]
          /\ calls[c].waits = "executor"
      BY <1>9, <2>3 DEF Fail, Delay
    <3> HIDE DEF call
    <3>4. call.attempt <= steps[i].max_retries
      BY <3>1, <3>2
    <3> QED BY <1>1, <1>3, <2>1, <3>1, <3>2, <3>3, <3>4, CallStep
  <2> QED BY <2>2, <2>3
<1>10. CASE Cancel(c)
  <2>1. /\ calls[c].step \in DOMAIN steps
        /\ UNCHANGED <<rollback, steps>> /\ cancels' \in 0..MaxCancels
    BY <1>1, <1>5, <1>10, BoundsAssumption DEF Cancel, TypeOK
  <2> QED BY <1>1, <1>3, <1>10, <2>1, CallStep DEF Cancel
<1> QED BY <1>6, <1>7, <1>8, <1>9, <1>10

\* A step that is added is in no plan and in no call.
LEMMA AddStepKeeps ==
    ASSUME IInv, NEW undo \in BOOLEAN, NEW retries \in Retries, AddStep(undo, retries)
    PROVE  IInv'
<1> DEFINE new == [state |-> "pending", undo |-> undo, max_retries |-> retries]
<1>1. steps \in Seq(SagaStep) /\ new \in SagaStep
  BY StepStates DEF IInv, TypeOK, SagaStep
<1>2. /\ steps' \in Seq(SagaStep)
      /\ DOMAIN steps \subseteq DOMAIN steps'
      /\ \A i \in DOMAIN steps : steps'[i] = steps[i]
  <2> HIDE DEF new
  <2>1. steps' = Append(steps, new)
    BY DEF AddStep, new
  <2> QED BY <1>1, <2>1
<1>3. UNCHANGED <<calls, rollback, cancels>>
  BY DEF AddStep
<1>4. UNCHANGED <<saga, plan, at, failed>>
  BY <1>3 DEF rollback
<1>5. TypeOK'
  <2>1. \A c \in Callers : calls[c] # Idle => steps'[calls[c].step] = steps[calls[c].step]
    BY <1>2 DEF IInv, TypeOK
  <2> QED BY <1>2, <1>3, <1>4, <2>1 DEF IInv, TypeOK, RetriesLeft
<1>6. OneExecution'
  <2>1. \A c \in Callers : calls[c].waits = "executor" =>
           steps'[calls[c].step] = steps[calls[c].step]
    BY <1>2 DEF IInv, TypeOK, Idle
  <2> QED BY <1>3, <2>1 DEF IInv, OneExecution
<1>7. RollbackOrder' /\ OutcomeTold' /\ PlanInv'
  BY <1>2, <1>3, ExecutionSparesRollback
<1> QED BY <1>5, <1>6, <1>7 DEF IInv

\* compensate, from one await to the next: done are the steps of the plan that
\* it has dealt with, of which fails could not be undone; those still to do are
\* committed and come earlier.
LEMMA ContinueKeeps ==
    ASSUME IInv, NEW todo, NEW done, NEW ended \in StepState, NEW fails,
           plan' = done \cup todo, plan' \subseteq DOMAIN steps,
           \A i \in todo : i # at /\ steps[i].state = "committed",
           \A i \in done, j \in todo : j < i,
           \A i \in done \ {at} : steps[i].state \in {"compensated", "compensation_failed"},
           at # 0 => at \in done /\ ended \in {"compensated", "compensation_failed"},
           fails = {i \in done : IF i = at THEN ended = "compensation_failed"
                                 ELSE steps[i].state = "compensation_failed"},
           Continue(todo, ended, fails)
    PROVE  IInv'
<1> DEFINE next == NextUndo(todo)
           dead == {i \in todo : i > next}
           undoable == {i \in todo : steps[i].undo} \cup {0}
           state(i) == CASE i = at   -> ended
                         [] i = next -> "compensating"
                         [] i \in dead -> "compensation_failed"
                         [] OTHER -> steps[i].state
<1>1. /\ steps \in Seq(SagaStep)
      /\ DOMAIN steps = 1..Len(steps) /\ Len(steps) \in Nat
      /\ at \in Nat /\ at \in DOMAIN steps \cup {0}
      /\ UNCHANGED <<calls, cancels>>
  BY DEF IInv, TypeOK, Continue
<1>2. /\ todo \subseteq DOMAIN steps /\ done \subseteq DOMAIN steps
      /\ 0 \notin todo /\ 0 \notin DOMAIN steps
  BY <1>1
<1>3. next \in undoable /\ \A i \in undoable : next >= i
  <2>1. undoable \subseteq 0..Len(steps) /\ undoable # {}
    BY <1>1, <1>2
  <2> HIDE DEF undoable
  <2>2. Max(undoable) \in undoable /\ \A y \in undoable : Max(undoable) >= y
    BY <1>1, <2>1, MaxIsGreatest
  <2> QED BY <2>2 DEF NextUndo, undoable
<1>4. /\ next \in todo \cup {0} /\ next \in Nat
      /\ next # 0 => steps[next].undo
  BY <1>1, <1>2, <1>3
<1> HIDE DEF next
<1>5. /\ DOMAIN steps' = DOMAIN steps
      /\ steps' \in Seq(SagaStep)
      /\ \A i \in DOMAIN steps : /\ steps'[i].state = state(i)
                                /\ steps'[i].max_retries = steps[i].max_retries
  <2> DEFINE new(i) == CASE i = at   -> [steps[i] EXCEPT !.state = ended]
                         [] i = next -> [steps[i] EXCEPT !.state = "compensating"]
                         [] i \in dead -> [steps[i] EXCEPT !.state = "compensation_failed"]
                         [] OTHER -> steps[i]
  <2>1. steps' = [i \in DOMAIN steps |-> new(i)]
    BY DEF Continue, next
  <2>2. ASSUME NEW i \in DOMAIN steps
        PROVE  /\ new(i) \in SagaStep /\ new(i).state = state(i)
               /\ new(i).max_retries = steps[i].max_retries
    <3>1. steps[i] \in SagaStep
      BY <1>1
    <3>2. \A s \in StepState : /\ [steps[i] EXCEPT !.state = s] \in SagaStep
                               /\ [steps[i] EXCEPT !.state = s].state = s
                               /\ [steps[i] EXCEPT !.state = s].max_retries = steps[i].max_retries
      BY <3>1 DEF SagaStep
    <3>3. "compensating" \in StepState /\ "compensation_failed" \in StepState
      BY StepStates
    <3>4. i = at => i # next /\ i \notin dead
      BY <1>2, <1>4
    <3>5. i \in dead => i # next
      BY <1>1, <1>2, <1>4
    <3> HIDE DEF dead
    <3>6. CASE i = at
      BY <3>2, <3>6, <3>4
    <3>7. CASE i # at /\ i = next
      BY <3>2, <3>3, <3>7, <3>5
    <3>8. CASE i # at /\ i # next /\ i \in dead
      BY <3>2, <3>3, <3>8, <3>5
    <3>9. CASE i # at /\ i # next /\ i \notin dead
      BY <3>1, <3>9
    <3> QED BY <3>6, <3>7, <3>8, <3>9
  <2> HIDE DEF new
  <2>3. steps' \in [1..Len(steps) -> SagaStep]
    BY <1>1, <2>1, <2>2
  <2>4. DOMAIN steps' = DOMAIN steps /\ steps' \in Seq(SagaStep)
    BY <1>1, <2>1, <2>3
  <2> QED BY <2>1, <2>2, <2>4
<1>6. /\ failed' = fails \cup dead
      /\ at' = next
      /\ saga' = IF next = 0 THEN Outcome(fails \cup dead) ELSE "compensating"
  BY DEF Continue, next
\* How the steps of the plan stand afterwards.
<1>7. \A i \in done : /\ state(i) \in {"compensated", "compensation_failed"}
                      /\ state(i) = "compensation_failed" <=> i \in fails
                      /\ i \notin todo /\ i # next
  <2> SUFFICES ASSUME NEW i \in done
               PROVE  /\ state(i) \in {"compensated", "compensation_failed"}
                      /\ state(i) = "compensation_failed" <=> i \in fails
                      /\ i \notin todo /\ i # next
    OBVIOUS
  <2>1. i \in Nat /\ i # 0
    BY <1>1, <1>2
  <2>2. i \notin todo /\ i # next
    BY <1>4, <2>1
  <2> QED BY <2>1, <2>2
<1>8. \A i \in todo : /\ i > next => state(i) = "compensation_failed" /\ i \in dead
                      /\ i = next => state(i) = "compensating"
                      /\ i < next => state(i) = "committed"
                      /\ i \notin done /\ i \in Nat /\ i # 0
  BY <1>1, <1>2, <1>4
<1>9. \A i \in plan' : steps'[i].state = state(i) /\ i \in Nat
  BY <1>1, <1>5
<1> HIDE DEF state
<1>10. \A i \in done : next # 0 => i > next
  BY <1>1, <1>2, <1>4
<1>11. TypeOK'
  <2>1. at' \in plan' \cup {0} /\ failed' \subseteq plan' /\ saga' \in SagaState
    BY <1>4, <1>6 DEF SagaState, Outcome
  <2>2. \A c \in Callers : calls'[c] # Idle =>
          /\ calls'[c].step \in DOMAIN steps'
          /\ calls'[c].attempt <= steps'[calls'[c].step].max_retries
          /\ calls'[c].waits = "delay" =>
                calls'[c].attempt < steps'[calls'[c].step].max_retries
    BY <1>1, <1>5 DEF IInv, TypeOK, RetriesLeft
  <2> QED BY <1>1, <1>5, <2>1, <2>2 DEF IInv, TypeOK, RetriesLeft
<1>12. OneExecution'
  <2>1. ASSUME NEW i \in DOMAIN steps, steps[i].state = "executing"
        PROVE  steps'[i].state = "executing"
    <3>1. at # 0 => steps[at].state = "compensating"
      BY DEF IInv, RollbackOrder
    <3>2. i # at
      BY <1>2, <2>1, <3>1
    <3>3. i \notin todo /\ i # next
      BY <1>2, <1>4, <2>1
    <3> QED BY <1>5, <2>1, <3>2, <3>3 DEF state
  <2>2. \A c \in Callers : calls[c].waits = "executor" => calls[c].step \in DOMAIN steps
    BY DEF IInv, TypeOK, Idle
  <2> QED BY <1>1, <2>1, <2>2 DEF IInv, OneExecution
<1>13. RollbackOrder'
  BY <1>1, <1>2, <1>4, <1>6, <1>7, <1>8, <1>9, <1>10 DEF RollbackOrder
<1>14. next = 0 => \A i \in plan' : /\ state(i) \in {"compensated", "compensation_failed"}
                                    /\ state(i) = "compensation_failed" <=> i \in failed'
  <2>1. next = 0 => \A i \in todo : i > next
    BY <1>1, <1>2
  <2> QED BY <1>6, <1>7, <1>8, <2>1
<1>15. OutcomeTold'
  <2>1. failed' \subseteq plan'
    BY <1>6
  <2> QED BY <1>6, <1>9, <1>14, <2>1 DEF OutcomeTold, Outcome
<1>16. PlanInv'
  <2>1. saga' # "running"
    BY <1>6 DEF Outcome
  <2>2. next # 0 => failed' = {i \in plan' : steps'[i].state = "compensation_failed"}
    <3>1. \A i \in plan' : steps'[i].state = "compensation_failed" <=> i \in failed'
      BY <1>2, <1>4, <1>6, <1>7, <1>8, <1>9
    <3> QED BY <1>6, <3>1
  <2> QED BY <1>6, <2>1, <2>2 DEF PlanInv
<1> QED BY <1>11, <1>12, <1>13, <1>15, <1>16 DEF IInv

\* compensate keeps the inductive invariant.
LEMMA CompensateKeeps ==
    ASSUME IInv, Compensate \/ Undone \/ UndoFailed \/ CancelCompensate
    PROVE  IInv'
<1>1. /\ {"committed", "compensated", "compensation_failed"} \subseteq StepState
      /\ plan \subseteq DOMAIN steps /\ DOMAIN steps \subseteq Nat \ {0}
      /\ at \in plan \cup {0} /\ failed \subseteq plan
  BY StepStates DEF IInv, TypeOK
<1>2. CASE Compensate
  <2>1. /\ at = 0 /\ plan' = {} \cup Committed /\ plan' \subseteq DOMAIN steps
        /\ Continue(Committed, "committed", {})
    BY <1>2 DEF Compensate, IInv, PlanInv, Committed
  <2>2. \A i \in Committed : i # at /\ steps[i].state = "committed"
    BY <1>1, <2>1 DEF Committed
  <2>3. /\ \A i \in {}, j \in Committed : j < i
        /\ \A i \in {} \ {at} : steps[i].state \in {"compensated", "compensation_failed"}
        /\ {} = {i \in {} : IF i = at THEN "committed" = "compensation_failed"
                            ELSE steps[i].state = "compensation_failed"}
    OBVIOUS
  <2>4. at # 0 => at \in {} /\ "committed" \in {"compensated", "compensation_failed"}
    BY <2>1
  <2> QED BY <1>1, <2>1, <2>2, <2>3, <2>4, ContinueKeeps
<1> DEFINE done == {i \in plan : i >= at}
<1>3. at # 0 =>
        /\ plan = done \cup Todo
        /\ \A i \in Todo : i # at /\ steps[i].state = "committed"
        /\ \A i \in done, j \in Todo : j < i
        /\ \A i \in done \ {at} : steps[i].state \in {"compensated", "compensation_failed"}
        /\ at \in done
  BY <1>1 DEF IInv, RollbackOrder, Todo
<1>4. at # 0 => failed = {i \in done \ {at} : steps[i].state = "compensation_failed"}
  BY <1>1, <1>3 DEF IInv, PlanInv, RollbackOrder
<1>5. CASE Undone
  <2>1. at # 0 /\ plan' = plan /\ Continue(Todo, "compensated", failed)
    BY <1>5 DEF Undone
  <2>2. failed = {i \in done : IF i = at THEN "compensated" = "compensation_failed"
                               ELSE steps[i].state = "compensation_failed"}
    BY <1>4, <2>1
  <2> HIDE DEF done
  <2> QED BY <1>1, <1>3, <2>1, <2>2, ContinueKeeps
<1>6. CASE UndoFailed
  <2>1. at # 0 /\ plan' = plan /\ Continue(Todo, "compensation_failed", failed \cup {at})
    BY <1>6 DEF UndoFailed
  <2>2. failed \cup {at} =
          {i \in done : IF i = at THEN "compensation_failed" = "compensation_failed"
                        ELSE steps[i].state = "compensation_failed"}
    BY <1>3, <1>4, <2>1
  <2> HIDE DEF done
  <2> QED BY <1>1, <1>3, <2>1, <2>2, ContinueKeeps
<1>7. CASE CancelCompensate
  <2>1. /\ saga' = saga /\ steps' = steps /\ calls' = calls
        /\ plan' = plan /\ failed' = failed /\ at' = 0
        /\ cancels' \in 0..MaxCancels /\ saga = "compensating"
    BY <1>7, BoundsAssumption DEF CancelCompensate, IInv, TypeOK, RollbackOrder
  <2> QED BY <2>1 DEF IInv, TypeOK, OneExecution, RollbackOrder, OutcomeTold, PlanInv, RetriesLeft
<1> QED BY <1>2, <1>5, <1>6, <1>7

\* Every step keeps the inductive invariant.
LEMMA IInvStep == IInv /\ [Next]_vars => IInv'
<1> SUFFICES ASSUME IInv, [Next]_vars PROVE IInv'
  OBVIOUS
<1>1. CASE UNCHANGED vars
  BY <1>1 DEF vars, IInv, TypeOK, OneExecution, RollbackOrder, OutcomeTold, PlanInv, RetriesLeft
<1>2. CASE Next
  BY <1>2, AddStepKeeps, ExecuteKeeps, CompensateKeeps DEF Next
<1> QED BY <1>1, <1>2

\* Where the table lets a step go.
LEMMA Moves ==
    /\ STEP_TRANSITIONS["pending"] = {"executing"}
    /\ STEP_TRANSITIONS["executing"] = {"committed", "failed"}
    /\ STEP_TRANSITIONS["committed"] = {"compensating"}
    /\ STEP_TRANSITIONS["compensating"] = {"compensated", "compensation_failed"}
BY DEF STEP_TRANSITIONS

\* A call moves the one step it runs, and that one legally.
LEMMA ExecuteMovesLegally ==
    ASSUME IInv, NEW c \in Callers,
           \/ \E i \in DOMAIN steps : Execute(c, i)
           \/ Wake(c) \/ Commit(c) \/ Fail(c) \/ Cancel(c),
           NEW j \in DOMAIN steps
    PROVE  LegalMove(j)
<1>1. /\ TypeOK
      /\ {"pending", "executing", "committed", "failed"} \subseteq StepState
      /\ \A s \in StepState : "executing" \in STEP_TRANSITIONS[s] => s = "pending"
  BY StepStates DEF IInv
<1>2. ASSUME NEW i \in DOMAIN steps, NEW s \in {"pending", "executing", "committed", "failed"},
             steps' = [steps EXCEPT ![i].state = s],
             \/ steps[i].state = "pending" /\ s \in {"executing", "failed"}
             \/ steps[i].state = "executing" /\ s \in {"committed", "failed", "pending"}
      PROVE  LegalMove(j)
  <2>1. /\ steps'[i].state = s
        /\ j # i => steps'[j] = steps[j]
    BY <1>1, <1>2, OneStepMoves
  <2> QED BY <1>2, <2>1, Moves DEF LegalMove
<1>3. ASSUME steps' = steps PROVE LegalMove(j)
  BY <1>3 DEF LegalMove
<1>4. ASSUME NEW i \in DOMAIN steps, NEW k, Attempt(c, i, k) PROVE LegalMove(j)
  <2>1. MayExecute(i) => steps[i].state = "pending"
    <3>1. steps[i] \in SagaStep
      BY <1>1 DEF TypeOK
    <3> QED BY <1>1, <3>1 DEF MayExecute, SagaStep
  <2> QED BY <1>2, <1>3, <1>4, <2>1 DEF Attempt
<1>5. ASSUME calls[c].waits # "nothing"
      PROVE  /\ calls[c].step \in DOMAIN steps
             /\ calls[c].waits = "executor" => steps[calls[c].step].state = "executing"
  <2>1. calls[c] # Idle
    BY <1>5 DEF Idle
  <2> QED BY <1>1, <2>1 DEF TypeOK, IInv, OneExecution
<1>6. CASE \E i \in DOMAIN steps : Execute(c, i)
  BY <1>4, <1>6 DEF Execute
<1>7. CASE Wake(c)
  BY <1>4, <1>5, <1>7 DEF Wake
<1>8. CASE Commit(c)
  BY <1>2, <1>5, <1>8 DEF Commit
<1>9. CASE Fail(c)
  BY <1>2, <1>5, <1>9 DEF Fail
<1>10. CASE Cancel(c)
  BY <1>3, <1>10 DEF Cancel
<1> QED BY <1>6, <1>7, <1>8, <1>9, <1>10

\* compensate moves the step it waited for, the one it comes to, and those on
\* the way that have no undo_api.
LEMMA ContinueMovesLegally ==
    ASSUME IInv, NEW todo, NEW ended, NEW fails,
           todo \subseteq Committed, Continue(todo, ended, fails),
           at # 0 => ended \in {"compensated", "compensation_failed"},
           NEW i \in DOMAIN steps
    PROVE  LegalMove(i)
<1> DEFINE next == NextUndo(todo)
           undoable == {k \in todo : steps[k].undo} \cup {0}
<1>1. /\ steps \in Seq(SagaStep) /\ i \in Nat /\ i # 0
      /\ DOMAIN steps = 1..Len(steps) /\ Len(steps) \in Nat
      /\ steps[i] \in SagaStep
  BY DEF IInv, TypeOK
<1>2. next \in undoable /\ \A k \in undoable : next >= k
  <2>1. undoable \subseteq 0..Len(steps) /\ undoable # {}
    BY <1>1 DEF Committed
  <2> HIDE DEF undoable
  <2>2. Max(undoable) \in undoable /\ \A y \in undoable : Max(undoable) >= y
    BY <1>1, <2>1, MaxIsGreatest
  <2> QED BY <2>2 DEF NextUndo, undoable
<1> HIDE DEF next
<1>3. next \in Nat /\ (next # 0 => next \in todo)
  BY <1>1, <1>2 DEF Committed
<1>4. \A s : [steps[i] EXCEPT !.state = s].state = s
  BY <1>1 DEF SagaStep
<1>5. steps'[i] = CASE i = at   -> [steps[i] EXCEPT !.state = ended]
                    [] i = next -> [steps[i] EXCEPT !.state = "compensating"]
                    [] i \in {k \in todo : k > next} ->
                          [steps[i] EXCEPT !.state = "compensation_failed"]
                    [] OTHER -> steps[i]
  BY DEF Continue, next
<1>6. \A k \in todo : steps[k].state = "committed"
  BY DEF Committed
<1>7. CASE i = at
  <2>1. steps[i].state = "compensating"
    BY <1>1, <1>7 DEF IInv, RollbackOrder
  <2>2. i # next /\ i \notin todo
    BY <1>1, <1>2, <1>6, <2>1
  <2>3. steps'[i].state = ended
    BY <1>4, <1>5, <1>7, <2>2
  <2> QED BY <1>1, <1>7, <2>1, <2>3, Moves DEF LegalMove
<1>8. CASE i # at /\ i = next
  <2>1. i \in todo /\ i \notin {k \in todo : k > next}
    BY <1>1, <1>2, <1>8
  <2>2. steps'[i].state = "compensating"
    BY <1>4, <1>5, <1>8, <2>1
  <2> QED BY <1>6, <2>1, <2>2, Moves DEF LegalMove
<1>9. CASE i # at /\ i \in {k \in todo : k > next}
  <2>1. i # next /\ i \in todo /\ ~steps[i].undo
    <3>1. i > next /\ i \in todo
      BY <1>9
    <3>2. i \notin undoable
      BY <1>1, <1>2, <1>3, <3>1
    <3> QED BY <1>1, <1>3, <3>1, <3>2
  <2>2. steps'[i].state = "compensation_failed"
    BY <1>4, <1>5, <1>9, <2>1
  <2> QED BY <1>6, <2>1, <2>2 DEF LegalMove
<1>10. CASE i # at /\ i # next /\ i \notin {k \in todo : k > next}
  BY <1>5, <1>10 DEF LegalMove
<1> QED BY <1>7, <1>8, <1>9, <1>10

\* Every step of the orchestrator moves the saga's steps legally.
LEMMA StepsMoveLegally == IInv /\ Next => \A i \in DOMAIN steps : LegalMove(i)
<1> SUFFICES ASSUME IInv, Next, NEW i \in DOMAIN steps PROVE LegalMove(i)
  OBVIOUS
<1>1. CASE \E undo \in BOOLEAN, retries \in Retries : AddStep(undo, retries)
  <2>1. PICK undo, retries : steps' = Append(steps, [state |-> "pending", undo |-> undo,
                                                    max_retries |-> retries])
    BY <1>1 DEF AddStep
  <2>2. steps' [i] = steps[i]
    <3> DEFINE new == [state |-> "pending", undo |-> undo, max_retries |-> retries]
    <3>1. steps \in Seq(SagaStep) /\ steps' = Append(steps, new)
      BY <2>1 DEF IInv, TypeOK
    <3> HIDE DEF new
    <3> QED BY <3>1
  <2> QED BY <2>2 DEF LegalMove
<1>2. CASE \E c \in Callers : \/ \E k \in DOMAIN steps : Execute(c, k)
                              \/ Wake(c) \/ Commit(c) \/ Fail(c) \/ Cancel(c)
  BY <1>2, ExecuteMovesLegally
<1>3. CASE Compensate
  <2>1. at = 0 /\ Continue(Committed, "committed", {})
    BY <1>3 DEF Compensate, IInv, PlanInv
  <2> QED BY <2>1, ContinueMovesLegally
<1>4. at # 0 => Todo \subseteq Committed
  BY DEF IInv, TypeOK, RollbackOrder, Todo, Committed
<1>5. CASE Undone
  BY <1>4, <1>5, ContinueMovesLegally DEF Undone
<1>6. CASE UndoFailed
  BY <1>4, <1>6, ContinueMovesLegally DEF UndoFailed
<1>7. CASE CancelCompensate
  BY <1>7 DEF CancelCompensate, LegalMove
<1> QED BY <1>1, <1>2, <1>3, <1>5, <1>6, <1>7 DEF Next

\* The type invariant holds of every saga; in particular, no call attempts a
\* step more often than its max_retries allow.
THEOREM TypeCorrect == Spec => []TypeOK
<1>1. IInv => TypeOK
  BY DEF IInv
<1> QED BY InitIInv, <1>1, IInvStep, PTL DEF Spec

\* However many tasks call execute_step, and however they are cancelled, no two
\* executors of one step are awaited at once.
THEOREM ExecutionIsExclusive == Spec => []OneExecution
<1>1. IInv => OneExecution
  BY DEF IInv
<1> QED BY InitIInv, <1>1, IInvStep, PTL DEF Spec

\* Compensation goes through its plan from the last step to the first, and
\* finds each step it comes to committed still.
THEOREM RollbackIsOrdered == Spec => []RollbackOrder
<1>1. IInv => RollbackOrder
  BY DEF IInv
<1> QED BY InitIInv, <1>1, IInvStep, PTL DEF Spec

\* A closed saga tells how its plan ended.
THEOREM OutcomeIsTrue == Spec => []OutcomeTold
<1>1. IInv => OutcomeTold
  BY DEF IInv
<1> QED BY InitIInv, <1>1, IInvStep, PTL DEF Spec

\* Whatever calls interleave, every step moves along the transition table.
THEOREM StepsKeepToTheTable == Spec => LegalMoves
<1>1. IInv /\ [Next]_vars => [\A i \in DOMAIN steps : LegalMove(i)]_vars
  BY StepsMoveLegally
<1> QED BY InitIInv, IInvStep, <1>1, PTL DEF Spec, LegalMoves

=============================================================================
