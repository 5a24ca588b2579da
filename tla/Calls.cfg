SPECIFICATION FairSpec
CONSTANTS
    Requests <- MCRequests
    Names = {"a", "b", "c"}
    FirstRows <- MCRows
    FirstParents <- MCParents
    FirstNew = 4
    LateChecks <- MCLateChecks
CHECK_DEADLOCK FALSE
INVARIANTS
    TypeOK
    WorksOnWhatWasMeant
    CreateReturnsItsRow
    BulkDeleteIsComplete
    ErrorsBeforeEffects
    
PROPERTIES
    GuardsHold
    CreatesOnlyIfMissing
    UpdatesMerge
    Ends
