SPECIFICATION Spec
CONSTANTS
    None = None
    MAX_SKIP = 2
    MAX_SKIPPED_KEYS_TOTAL = 2
    MaxSent = 3
    MaxRedeliveries = 1
INVARIANT OnlyRepeatsFail
CHECK_DEADLOCK FALSE
