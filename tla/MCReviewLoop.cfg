SPECIFICATION MCSpec
CONSTANTS
    Runs = {r1, r2}
    MaxAttempts = 1
    MaxPushes = 1
    MaxFaults = 1
    MaxReleases = 1
INVARIANTS
    OneWinner
    HumanWorkStands
    ReportedOnce
    ClaimIsSettled
PROPERTIES
    HaltHolds
SYMMETRY Symmetry
CHECK_DEADLOCK FALSE
