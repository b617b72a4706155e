SPECIFICATION FairSpec
CONSTANTS
    c1 = c1
    c2 = c2
    r1 = r1
    r2 = r2
    r3 = r3
    Cursor = {c1, c2}
    First = First
    None = None
    PageLimit = 2
    Record = {r1, r2, r3}
    PageSize = 2
    MaxItems = 4
    MaxFaults = 1
CHECK_DEADLOCK FALSE
INVARIANTS
    TypeOK
    ExecutedOnce
    RefreshSuffices
    ListingComplete
PROPERTIES
    CallEnds
