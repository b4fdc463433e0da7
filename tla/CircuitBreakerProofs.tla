------------------------ MODULE CircuitBreakerProofs ------------------------
(***************************************************************************)
(* Proofs about CircuitBreaker, for any number of callers and any          *)
(* configuration.                                                          *)
(***************************************************************************)
EXTENDS CircuitBreaker, FiniteSetTheorems, TLAPS

\* The history of an opening: the breaker that is not open has been isolated
\* for the whole recovery timeout, and of an open one no failure is older than
\* its opening.
Isolation ==
    /\ state # "OPEN" => isolated = RecoveryTimeout
    /\ state = "OPEN" => elapsed <= isolated

IInv == TypeOK /\ ProbesBounded /\ ClosedIsBelowThreshold /\ Isolation

\* Counting up to a limit stays within it and keeps the order.
LEMMA UptoBounds ==
    ASSUME NEW limit \in Nat, NEW n \in Nat
    PROVE  /\ Upto(n, limit) \in 0 .. limit
           /\ n >= limit => Upto(n, limit) = limit
           /\ \A m \in Nat : n <= m => Upto(n, limit) <= Upto(m, limit)
BY DEF Upto

\* The probes are a finite set of callers.
LEMMA ProbesFinite ==
    ASSUME TypeOK
    PROVE  /\ IsFiniteSet(probes) /\ Cardinality(probes) \in Nat
           /\ \A c : /\ IsFiniteSet(probes \cup {c}) /\ IsFiniteSet(probes \ {c})
                     /\ Cardinality(probes \cup {c}) =
                          IF c \in probes THEN Cardinality(probes)
                                          ELSE Cardinality(probes) + 1
                     /\ Cardinality(probes \ {c}) =
                          IF c \in probes THEN Cardinality(probes) - 1
                                          ELSE Cardinality(probes)
<1>1. IsFiniteSet(probes)
  BY ConstantsAssumption, FS_Subset DEF TypeOK
<1>2. Cardinality(probes) \in Nat
  BY <1>1, FS_CardinalityType
<1>3. ASSUME NEW c
      PROVE  /\ IsFiniteSet(probes \cup {c}) /\ IsFiniteSet(probes \ {c})
             /\ Cardinality(probes \cup {c}) =
                  IF c \in probes THEN Cardinality(probes) ELSE Cardinality(probes) + 1
             /\ Cardinality(probes \ {c}) =
                  IF c \in probes THEN Cardinality(probes) - 1 ELSE Cardinality(probes)
  BY <1>1, FS_AddElement, FS_RemoveElement
<1>. QED BY <1>1, <1>2, <1>3

LEMMA Initially == Init => IInv
<1>. SUFFICES ASSUME Init PROVE IInv
  OBVIOUS
<1>1. TypeOK
  <2>1. /\ 0 \in 0 .. FailureThreshold /\ 0 \in 0 .. HalfOpenMax /\ 0 \in 0 .. 0
        /\ 0 \in 0 .. MaxAbandoned /\ 0 \in 0 .. MaxResets
        /\ RecoveryTimeout \in 0 .. RecoveryTimeout
    BY ConstantsAssumption
  <2>2. running \subseteq Callers /\ probes \subseteq running
    BY DEF Init
  <2>. QED BY <2>1, <2>2 DEF Init, TypeOK, CircuitState
<1>2. ProbesBounded /\ ClosedIsBelowThreshold /\ Isolation
  BY ConstantsAssumption DEF Init, ProbesBounded, ClosedIsBelowThreshold, Isolation
<1>. QED BY <1>1, <1>2 DEF IInv

\* When the breaker becomes half open it has been isolated long enough, and
\* its only probe is the call that found the time elapsed, if one did.
LEMMA HalfOpenStep ==
    ASSUME IInv, HalfOpen, UNCHANGED <<failures, elapsed, isolated, abandoned>>,
           halfOpenCalls' \in 0 .. HalfOpenMax, halfOpenCalls' = Cardinality(probes')
    PROVE  /\ ProbesBounded' /\ ClosedIsBelowThreshold' /\ Isolation'
           /\ isolated = RecoveryTimeout
<1>1. isolated = RecoveryTimeout
  BY ConstantsAssumption DEF IInv, TypeOK, Isolation, HalfOpen, Elapsed
<1>2. ProbesBounded'
  BY ConstantsAssumption DEF ProbesBounded, HalfOpen
<1>3. ClosedIsBelowThreshold' /\ Isolation'
  BY <1>1 DEF ClosedIsBelowThreshold, Isolation, HalfOpen
<1>. QED BY <1>1, <1>2, <1>3

LEMMA GetStateStep == ASSUME IInv, GetState PROVE IInv'
<1>1. halfOpenCalls' \in 0 .. HalfOpenMax /\ Cardinality(probes') = 0
  BY ConstantsAssumption, FS_EmptySet DEF GetState
<1>2. TypeOK'
  BY <1>1 DEF IInv, TypeOK, GetState, HalfOpen, CircuitState
<1>. QED BY <1>1, <1>2, HalfOpenStep DEF GetState, IInv

\* A call that is let through keeps the invariant, and comes after the quiet
\* period.
LEMMA PrepareStep ==
    ASSUME IInv, NEW c \in Callers, PrepareCall(c)
    PROVE  IInv' /\ isolated = RecoveryTimeout
<1>1. CASE PrepareClosed(c)
  <2>1. TypeOK'
    BY <1>1 DEF IInv, TypeOK, PrepareCall, PrepareClosed, breaker
  <2>2. ProbesBounded' /\ ClosedIsBelowThreshold' /\ Isolation' /\ isolated = RecoveryTimeout
    BY <1>1 DEF IInv, ProbesBounded, ClosedIsBelowThreshold, Isolation, PrepareCall,
        PrepareClosed, breaker
  <2>. QED BY <2>1, <2>2 DEF IInv
<1>2. CASE PrepareElapsed(c)
  <2>1. halfOpenCalls' \in 0 .. HalfOpenMax /\ halfOpenCalls' = Cardinality(probes')
    BY <1>2, ConstantsAssumption, FS_Singleton DEF PrepareElapsed
  <2>2. TypeOK'
    BY <1>2, <2>1 DEF IInv, TypeOK, PrepareCall, PrepareElapsed, HalfOpen, CircuitState
  <2>. QED BY <1>2, <2>1, <2>2, HalfOpenStep DEF PrepareCall, PrepareElapsed, IInv
<1>3. CASE PrepareHalfOpen(c)
  <2>1. c \notin probes
    BY DEF IInv, TypeOK, PrepareCall
  <2>2. Cardinality(probes') = Cardinality(probes) + 1
    BY <1>3, <2>1, ProbesFinite DEF IInv, PrepareHalfOpen
  <2>3. TypeOK'
    BY <1>3, ConstantsAssumption DEF IInv, TypeOK, PrepareCall, PrepareHalfOpen, CircuitState
  <2>4. ProbesBounded'
    BY <1>3, <2>2, ProbesFinite, ConstantsAssumption
    DEF IInv, TypeOK, ProbesBounded, PrepareCall, PrepareHalfOpen
  <2>5. ClosedIsBelowThreshold' /\ Isolation' /\ isolated = RecoveryTimeout
    BY <1>3 DEF IInv, ClosedIsBelowThreshold, Isolation, PrepareCall, PrepareHalfOpen
  <2>. QED BY <2>3, <2>4, <2>5 DEF IInv
<1>. QED BY <1>1, <1>2, <1>3 DEF PrepareCall

\* A success leaves no half-open period behind.
LEMMA SuccessStep == ASSUME IInv, NEW c \in Callers, RecordSuccess(c) PROVE IInv'
<1>1. TypeOK'
  BY ConstantsAssumption DEF IInv, TypeOK, RecordSuccess, Done, CircuitState
<1>2. ProbesBounded' /\ ClosedIsBelowThreshold' /\ Isolation'
  BY ConstantsAssumption DEF IInv, TypeOK, ProbesBounded, ClosedIsBelowThreshold, Isolation,
      RecordSuccess, CircuitState
<1>. QED BY <1>1, <1>2 DEF IInv

\* Nor does a failure: it opens the half-open breaker.
LEMMA FailureStep == ASSUME IInv, NEW c \in Callers, RecordFailure(c) PROVE IInv'
<1>1. /\ failures' \in 0 .. FailureThreshold
      /\ state' # "HALF_OPEN" /\ state' \in CircuitState
      /\ state' = "CLOSED" => failures' < FailureThreshold
      /\ state' # "OPEN" => state # "OPEN"
  BY ConstantsAssumption, UptoBounds DEF IInv, TypeOK, RecordFailure, CircuitState
<1>2. TypeOK'
  BY <1>1, ConstantsAssumption DEF IInv, TypeOK, RecordFailure, Done
<1>3. Isolation'
  BY <1>1, <1>2, ConstantsAssumption DEF IInv, Isolation, RecordFailure, TypeOK
<1>. QED BY <1>1, <1>2, <1>3 DEF IInv, ProbesBounded, ClosedIsBelowThreshold

\* A call without a result keeps its slot.
LEMMA AbandonStep == ASSUME IInv, NEW c \in Callers, Abandon(c) PROVE IInv'
<1>1. TypeOK'
  BY ConstantsAssumption DEF IInv, TypeOK, Abandon, Done, breaker
<1>2. ProbesBounded'
  BY ProbesFinite, ConstantsAssumption DEF IInv, TypeOK, ProbesBounded, Abandon, Done, breaker
<1>3. ClosedIsBelowThreshold' /\ Isolation'
  BY DEF IInv, ClosedIsBelowThreshold, Isolation, Abandon, breaker
<1>. QED BY <1>1, <1>2, <1>3 DEF IInv

LEMMA ResetStep == ASSUME IInv, Reset PROVE IInv'
<1>1. TypeOK'
  BY ConstantsAssumption DEF IInv, TypeOK, Reset, CircuitState
<1>2. ProbesBounded' /\ ClosedIsBelowThreshold' /\ Isolation'
  BY ConstantsAssumption DEF ProbesBounded, ClosedIsBelowThreshold, Isolation, Reset
<1>. QED BY <1>1, <1>2 DEF IInv

LEMMA TickStep == ASSUME IInv, Tick PROVE IInv'
<1>1. /\ elapsed' \in 0 .. RecoveryTimeout /\ isolated' \in 0 .. RecoveryTimeout
      /\ isolated = RecoveryTimeout => isolated' = RecoveryTimeout
      /\ elapsed <= isolated => elapsed' <= isolated'
  BY ConstantsAssumption DEF IInv, TypeOK, Tick, Upto
<1>2. TypeOK'
  BY <1>1 DEF IInv, TypeOK, Tick
<1>3. ProbesBounded' /\ ClosedIsBelowThreshold' /\ Isolation'
  BY <1>1 DEF IInv, ProbesBounded, ClosedIsBelowThreshold, Isolation, Tick
<1>. QED BY <1>2, <1>3 DEF IInv

\* Every step keeps the invariant.
LEMMA EveryStep == IInv /\ [Next]_vars => IInv'
<1>. SUFFICES ASSUME IInv, [Next]_vars PROVE IInv'
  OBVIOUS
<1>1. CASE Recover \/ UNCHANGED vars
  BY <1>1 DEF Recover, vars, breaker, history, IInv, TypeOK, ProbesBounded,
      ClosedIsBelowThreshold, Isolation
<1>2. ASSUME NEW c \in Callers,
             PrepareCall(c) \/ RecordSuccess(c) \/ RecordFailure(c) \/ Abandon(c)
      PROVE  IInv'
  BY <1>2, PrepareStep, SuccessStep, FailureStep, AbandonStep
<1>3. CASE GetState \/ Reset \/ Tick
  BY <1>3, GetStateStep, ResetStep, TickStep
<1>. QED BY <1>1, <1>2, <1>3 DEF Next

LEMMA Invariant == Spec => []IInv
BY Initially, EveryStep, PTL DEF Spec

\* TypeOK is an invariant.
THEOREM TypeCorrect == Spec => []TypeOK
<1>1. IInv => TypeOK
  BY DEF IInv
<1>. QED BY Invariant, <1>1, PTL

\* ProbesBounded is an invariant: the slots of a half-open period are exactly
\* the calls tried in it, and never more than configured.
THEOREM SlotsAreAccountedFor == Spec => []ProbesBounded
<1>1. IInv => ProbesBounded
  BY DEF IInv
<1>. QED BY Invariant, <1>1, PTL

\* ClosedIsBelowThreshold is an invariant.
THEOREM ThresholdOpens == Spec => []ClosedIsBelowThreshold
<1>1. IInv => ClosedIsBelowThreshold
  BY DEF IInv
<1>. QED BY Invariant, <1>1, PTL

\* QuietPeriod holds of every step: no call begins between an opening and the
\* end of the recovery timeout that follows it.
THEOREM QuietPeriodIsKept == Spec => QuietPeriod
<1>1. ASSUME IInv, [Next]_vars, NEW c \in Callers, c \in running' \ running
      PROVE  isolated >= RecoveryTimeout
  <2>1. PICK b \in Callers : PrepareCall(b)
    BY <1>1 DEF Next, vars, breaker, history, PrepareCall, RecordSuccess, RecordFailure,
        Abandon, Done, GetState, Reset, Tick, Recover
  <2>2. isolated = RecoveryTimeout
    BY <1>1, <2>1, PrepareStep
  <2>. QED BY <2>2, ConstantsAssumption
<1>2. IInv /\ [Next]_vars
        => [\A c \in Callers : c \in running' \ running => isolated >= RecoveryTimeout]_vars
  BY <1>1
<1>. QED BY Invariant, <1>2, PTL DEF Spec, QuietPeriod
=============================================================================
