\* Three calls, each attempted at most twice, on a row with a unique name.
SPECIFICATION FairSpec
CONSTANTS
    MaxCalls = 3
    RETRY_TOTAL = 1
    UniqueNames = TRUE
INVARIANTS
    TypeOK
    AckedWasApplied
    EffectsWithinBudget
    CleanRejectionHadNoEffect
    LastWriteWins
    ConnectedMeansValidated
PROPERTIES
    ImplementsContract
    CallsReturn
CHECK_DEADLOCK FALSE
