--------------------------- MODULE CircuitBreaker ---------------------------
(***************************************************************************)
(* The circuit breaker of one agent (agent_sre/cascade/circuit_breaker.py; *)
(* agent_os carries a copy): callers in threads and tasks run their        *)
(* functions through call().  Each method of the breaker holds its lock,   *)
(* so it is one action; between _prepare_call and the recording of the     *)
(* result the function runs without the lock, for any time.  The result of *)
(* a call is therefore recorded in whatever state the breaker is in by     *)
(* then.                                                                   *)
(*                                                                         *)
(* call() catches Exception: a function that ends by a BaseException, a    *)
(* task that is cancelled while it awaits the result, or a coroutine that  *)
(* is never awaited records nothing at all (Abandon).                      *)
(*                                                                         *)
(* Times are counted in units of Tick and stop at the recovery timeout;    *)
(* the failure count stops at the threshold.  Nothing compares them with   *)
(* anything larger.  Fallbacks and retry_after are what a refused caller   *)
(* is told; a refused call changes no state but for the move to HALF_OPEN. *)
(***************************************************************************)
EXTENDS Naturals, FiniteSets

CONSTANTS
    Callers,           \* who runs calls through the breaker
    FailureThreshold,  \* config.failure_threshold
    RecoveryTimeout,   \* config.recovery_timeout_seconds
    HalfOpenMax,       \* config.half_open_max_calls
    MaxAbandoned,      \* bound on the calls that record no result
    MaxResets          \* bound on the manual resets

ASSUME ConstantsAssumption ==
    /\ IsFiniteSet(Callers)
    /\ FailureThreshold \in Nat \ {0}
    /\ RecoveryTimeout \in Nat
    /\ HalfOpenMax \in Nat
    /\ MaxAbandoned \in Nat
    /\ MaxResets \in Nat

VARIABLES
    state,          \* _state
    failures,       \* _failure_count
    halfOpenCalls,  \* _half_open_calls
    elapsed,        \* time since _last_failure_time
    running,        \* the callers whose function runs
    healthy,        \* the agent has recovered: its calls succeed from now on
    probes,         \* history: callers admitted in this half-open period
    leaked,         \* history: probes of this period that recorded nothing
    isolated,       \* history: time since the breaker opened
    abandoned,      \* calls that recorded nothing
    resets          \* manual resets

breaker == <<state, failures, halfOpenCalls, elapsed>>
history == <<probes, leaked, isolated>>
vars == <<breaker, running, healthy, history, abandoned, resets>>

CircuitState == {"CLOSED", "OPEN", "HALF_OPEN"}

\* Time and failures stop at the limit.
Upto(n, limit) == IF n < limit THEN n ELSE limit

Init ==
    /\ state = "CLOSED"
    /\ failures = 0
    /\ halfOpenCalls = 0
    /\ elapsed = RecoveryTimeout
    /\ running = {}
    /\ healthy = FALSE
    /\ probes = {}
    /\ leaked = 0
    /\ isolated = RecoveryTimeout
    /\ abandoned = 0
    /\ resets = 0
-----------------------------------------------------------------------------
(* Asking                                                                  *)

\* _maybe_transition_to_half_open: an open breaker whose time has come.
Elapsed == state = "OPEN" /\ elapsed >= RecoveryTimeout

HalfOpen ==
    /\ Elapsed
    /\ state' = "HALF_OPEN"
    /\ leaked' = 0

\* get_state, by anyone: the detector of cascades, a dashboard, a caller that
\* is refused.
GetState ==
    /\ HalfOpen
    /\ halfOpenCalls' = 0
    /\ probes' = {}
    /\ UNCHANGED <<failures, elapsed, running, healthy, isolated, abandoned, resets>>

\* _prepare_call, for a call that is let through: the breaker is closed, its
\* time has come with this call, or it is half open with a slot left.
PrepareClosed(c) ==
    /\ state = "CLOSED"
    /\ UNCHANGED <<breaker, probes, leaked>>

PrepareElapsed(c) ==
    /\ HalfOpen
    /\ HalfOpenMax > 0
    /\ halfOpenCalls' = 1
    /\ probes' = {c}
    /\ UNCHANGED <<failures, elapsed>>

\* Mutant: one slot too many.
PrepareOneMore(c) ==
    /\ state = "HALF_OPEN"
    /\ halfOpenCalls <= HalfOpenMax
    /\ halfOpenCalls' = halfOpenCalls + 1
    /\ probes' = probes \cup {c}
    /\ UNCHANGED <<state, failures, elapsed, leaked>>

\* Mutant: only the call that finds the time elapsed is counted.
PrepareUncounted(c) ==
    /\ state = "HALF_OPEN"
    /\ halfOpenCalls < HalfOpenMax
    /\ probes' = probes \cup {c}
    /\ UNCHANGED <<breaker, leaked>>

\* Mutant: one slot too few.
PrepareOneLess(c) ==
    /\ state = "HALF_OPEN"
    /\ halfOpenCalls + 1 < HalfOpenMax
    /\ halfOpenCalls' = halfOpenCalls + 1
    /\ probes' = probes \cup {c}
    /\ UNCHANGED <<state, failures, elapsed, leaked>>

PrepareHalfOpen(c) ==
    /\ state = "HALF_OPEN"
    /\ halfOpenCalls < HalfOpenMax
    /\ halfOpenCalls' = halfOpenCalls + 1
    /\ probes' = probes \cup {c}
    /\ UNCHANGED <<state, failures, elapsed, leaked>>

PrepareCall(c) ==
    /\ c \notin running
    /\ running' = running \cup {c}
    /\ PrepareClosed(c) \/ PrepareElapsed(c) \/ PrepareHalfOpen(c)
    /\ UNCHANGED <<healthy, isolated, abandoned, resets>>
-----------------------------------------------------------------------------
(* Results                                                                 *)

\* The call of c is over.
Done(c) ==
    /\ c \in running
    /\ running' = running \ {c}
    /\ probes' = probes \ {c}

\* Mutant: a success closes the breaker whatever its state.
RecordSuccessCloses(c) ==
    /\ Done(c)
    /\ state' = "CLOSED"
    /\ failures' = 0
    /\ halfOpenCalls' = 0
    /\ UNCHANGED <<elapsed, healthy, leaked, isolated, abandoned, resets>>

\* Mutant: only a success of the closed breaker resets the failures.
RecordSuccessKeeps(c) ==
    /\ Done(c)
    /\ state' = IF state = "HALF_OPEN" THEN "CLOSED" ELSE state
    /\ failures' = IF state = "CLOSED" THEN 0 ELSE failures
    /\ halfOpenCalls' = 0
    /\ UNCHANGED <<elapsed, healthy, leaked, isolated, abandoned, resets>>

RecordSuccess(c) ==
    /\ Done(c)
    /\ state' = IF state = "HALF_OPEN" THEN "CLOSED" ELSE state
    /\ failures' = 0
    /\ halfOpenCalls' = 0
    /\ UNCHANGED <<elapsed, healthy, leaked, isolated, abandoned, resets>>

RecordFailure(c) ==
    /\ ~healthy
    /\ Done(c)
    /\ failures' = Upto(failures + 1, FailureThreshold)
    /\ elapsed' = 0
    /\ state' = IF state = "HALF_OPEN" \/ failures' >= FailureThreshold
                THEN "OPEN" ELSE state
    /\ halfOpenCalls' = IF state = "HALF_OPEN" THEN 0 ELSE halfOpenCalls
    /\ isolated' = IF state # "OPEN" /\ state' = "OPEN" THEN 0 ELSE isolated
    /\ UNCHANGED <<healthy, leaked, abandoned, resets>>

\* The call ends without a word to the breaker.
Abandon(c) ==
    /\ abandoned < MaxAbandoned
    /\ abandoned' = abandoned + 1
    /\ Done(c)
    /\ leaked' = leaked + (IF c \in probes THEN 1 ELSE 0)
    /\ UNCHANGED <<breaker, healthy, isolated, resets>>

Reset ==
    /\ resets < MaxResets
    /\ resets' = resets + 1
    /\ state' = "CLOSED"
    /\ failures' = 0
    /\ halfOpenCalls' = 0
    /\ elapsed' = RecoveryTimeout
    /\ isolated' = RecoveryTimeout
    /\ UNCHANGED <<running, healthy, probes, leaked, abandoned>>
-----------------------------------------------------------------------------
Tick ==
    /\ elapsed' = Upto(elapsed + 1, RecoveryTimeout)
    /\ isolated' = Upto(isolated + 1, RecoveryTimeout)
    /\ UNCHANGED <<state, failures, halfOpenCalls, running, healthy, probes,
                   leaked, abandoned, resets>>

Recover ==
    /\ ~healthy
    /\ healthy' = TRUE
    /\ UNCHANGED <<breaker, running, history, abandoned, resets>>

Next ==
    \/ \E c \in Callers :
          PrepareCall(c) \/ RecordSuccess(c) \/ RecordFailure(c) \/ Abandon(c)
    \/ GetState \/ Reset \/ Tick \/ Recover

Spec == Init /\ [][Next]_vars

(***************************************************************************)
(* Time passes, every caller calls again and again, and a function that    *)
(* runs ends.  Nothing makes an agent recover, fail or be reset.           *)
(***************************************************************************)
FairSpec ==
    /\ Spec
    /\ WF_vars(Tick)
    /\ \A c \in Callers : WF_vars(PrepareCall(c)) /\ WF_vars(RecordSuccess(c))
-----------------------------------------------------------------------------
\* The type invariant.
TypeOK ==
    /\ state \in CircuitState
    /\ failures \in 0 .. FailureThreshold
    /\ halfOpenCalls \in 0 .. HalfOpenMax
    /\ elapsed \in 0 .. RecoveryTimeout
    /\ running \subseteq Callers
    /\ probes \subseteq running
    /\ leaked \in 0 .. abandoned
    /\ isolated \in 0 .. RecoveryTimeout
    /\ abandoned \in 0 .. MaxAbandoned
    /\ resets \in 0 .. MaxResets
    /\ healthy \in BOOLEAN

\* While the breaker is half open, each of its slots that is taken belongs to a
\* call admitted in this period that still runs, or to one that ended without
\* a result; so no more than half_open_max_calls are tried at once, whatever
\* calls of earlier periods record meanwhile.
ProbesBounded ==
    state = "HALF_OPEN" => /\ halfOpenCalls = Cardinality(probes) + leaked
                           /\ Cardinality(probes) <= HalfOpenMax

\* From the moment it opens until the recovery timeout has passed, the breaker
\* lets no call through, whatever late successes and failures are recorded.
QuietPeriod ==
    [][\A c \in Callers : c \in running' \ running => isolated >= RecoveryTimeout]_vars

\* A closed breaker has not seen failure_threshold failures since the last
\* success: the last of them opened it, and what closed it started anew.
ClosedIsBelowThreshold == state = "CLOSED" => failures < FailureThreshold

\* Once the agent has recovered, the breaker closes, if fewer than
\* half_open_max_calls calls end without a result.
Recovers == healthy /\ state # "CLOSED" ~> state = "CLOSED"

=============================================================================
