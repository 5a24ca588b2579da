\* Up to four rows in pages of two, one of them filtered out by the server, in any
\* order, with up to two changes between the pages.
SPECIFICATION FairSpec
CONSTANTS
    Rows = {r1, r2, r3, r4}
    Wanted = {r1, r2, r3}
    PageSize = 2
    Listing = "paged"
    MaxChanges = 2
INVARIANTS
    TypeOK
    QuietIsExact
    OnlyDeletionsHide
    OnlyInsertionsRepeat
PROPERTIES
    Ends
CHECK_DEADLOCK FALSE
