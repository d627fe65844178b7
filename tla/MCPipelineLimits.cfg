SPECIFICATION MCSpec
CONSTANTS
    Scenarios = {"cap", "breaker"}
    w1 = w1
    w2 = w2
    w3 = w3
    d1 = d1
    t1 = t1
    t2 = t2
    t3 = t3
    ask = ask
    use1 = use1
    use2 = use2
    bulk = bulk
    r1 = r1
    None = None
    Damaged = Damaged
    Genesis = Genesis
    Tier <- MCTier
    Verdict <- MCVerdict
    Reference <- MCReference
    Calls = {w1, w2, w3, t1, t2, t3, d1}
    Requests = {}
    Cap <- CapOneOrThree
    Window = 2
    Threshold = 2
    AuditRequired = TRUE
    MaxTime = 3
    MaxFaults = 1
    MaxCrashes = 2
    Faults = {"refused", "unsynced"}
INVARIANTS
    HourlyCap
    EveryWriteIsLogged
    OneStory
    RefusalsAreFree
PROPERTIES
    BreakerHolds
    KillSwitchHolds
SYMMETRY Symmetry
CHECK_DEADLOCK FALSE
