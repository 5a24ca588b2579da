SPECIFICATION Spec
CONSTANTS
    MaxCalls = 2
    RETRY_TOTAL = 1
    UniqueNames = FALSE
INVARIANTS
    SafeToRetry
CHECK_DEADLOCK FALSE
