SPECIFICATION MCSpec
CONSTANTS
    Callers = {c1}
    Ttl = 1
    MaxTime = 0
    MaxVersion = 0
    None = None
    Ids = {1, 2, 3, 4, 5, 6, 7}
    Names = {1, 2, 3, 4, 5, 6, 7, 8}
    Rows <- MCRows
    NewRows <- MCNewRows
    NewNames = {8}
    PageLength = 2
    MaxPages = 3
    MaxRows = 3
    MaxEdits = 1
INVARIANTS
    CatalogIsWhole
CHECK_DEADLOCK FALSE
