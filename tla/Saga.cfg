SPECIFICATION FairSpec
CONSTANTS
    c1 = c1
    c2 = c2
    Callers <- MCCallers
    Retries <- MCRetries
    MaxSteps = 3
    MaxCancels = 1
INVARIANTS
    TypeOK
    OneExecution
    RollbackOrder
    OutcomeTold
PROPERTIES
    LegalMoves
    CompensationEnds
    CallsEnd
CHECK_DEADLOCK FALSE
