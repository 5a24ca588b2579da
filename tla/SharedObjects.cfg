SPECIFICATION Spec
CONSTANTS
    Calls = {c1, c2, c3}
    Names = {n1, n2}
    Interruptible = TRUE
INVARIANTS
    TypeOK
    ReturnedKeepsItsSnapshot
    NoSilentLeak
CHECK_DEADLOCK FALSE
