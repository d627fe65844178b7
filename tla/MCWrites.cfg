SPECIFICATION MCSpec
CONSTANTS
    close1 = close1
    close2 = close2
    open1 = open1
    Calls = {close1, close2, open1}
    Target <- MCTarget
    Texts = {"t1"}
    MaxEdits = 1
    None = None
    Patching = {close1, close2}
    Asks <- MCAsks
    Definitions <- MCDefinitions
INVARIANTS
    RefusedNeverLands
    LandsOnce
    ChangedMeansLanded
    IncidentStands
PROPERTIES
    CallsEnd
CHECK_DEADLOCK FALSE
