SPECIFICATION Spec
CONSTANTS
    Calls = {c1, c2, c3}
    Names = {n1, n2}
    Interruptible = FALSE
INVARIANTS
    CleanedUpOnlyIfNotCreated
CHECK_DEADLOCK FALSE
