\* Lists that filter by a parent whose name nothing has.
SPECIFICATION Spec
CONSTANTS
    Requests <- UnscopedRequests
    Names = {"a", "b", "c"}
    FirstRows <- MCRows
    FirstParents <- MCParents
    FirstNew = 4
    LateChecks <- MCLateChecks
CHECK_DEADLOCK FALSE
INVARIANT RowsAreOfThePlaceNamed
