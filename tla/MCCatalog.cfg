SPECIFICATION MCSpec
CONSTANTS
    Callers = {c1, c2, c3}
    Ttl = 1
    MaxTime = 1
    MaxVersion = 1
    None = None
    Ids = {1, 2, 3, 4, 5, 6, 7}
    Names = {1, 2, 3, 4, 5, 6, 7, 8}
    Rows <- MCRows
    NewRows <- MCNewRows
    NewNames = {8}
    PageLength = 2
    MaxPages = 3
    MaxRows = 3
    MaxEdits = 3
INVARIANTS
    RefreshIsFresh
    WholeUnlessRemoved
PROPERTIES
    LoadsAreNeeded
    GetIsYoung
    EveryoneIsServed
CHECK_DEADLOCK FALSE
