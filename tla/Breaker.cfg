SPECIFICATION FairSpec
CONSTANTS
    c1 = c1
    c2 = c2
    c3 = c3
    Callers <- MCCallers
    FailureThreshold = 2
    RecoveryTimeout = 2
    HalfOpenMax = 2
    MaxAbandoned = 1
    MaxResets = 1
INVARIANTS
    TypeOK
    ProbesBounded
    ClosedIsBelowThreshold
PROPERTIES
    QuietPeriod
    Recovers
CHECK_DEADLOCK FALSE
