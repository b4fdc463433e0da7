SPECIFICATION Spec
CONSTANTS
    None = None
    MAX_SKIP = 2
    MAX_SKIPPED_KEYS_TOTAL = 2
    MaxSent = 7
    MaxRedeliveries = 1
INVARIANTS
    TypeOK
    KeysAreForgotten
    AnyOrderDecrypts
    SkippedIsCapped
PROPERTY ImplementsChannel
CHECK_DEADLOCK FALSE
