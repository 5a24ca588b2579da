\* network.hosts.iter_all() on a table that does not change.
SPECIFICATION FairSpec
CONSTANTS
    Rows = {r1, r2, r3}
    Wanted = {r1, r2, r3}
    PageSize = 2
    Listing = "unpaged"
    MaxChanges = 0
PROPERTIES
    Ends
CHECK_DEADLOCK FALSE
