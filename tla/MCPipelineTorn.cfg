SPECIFICATION MCSpec
CONSTANTS
    Scenarios = {"all"}
    w1 = w1
    w2 = w2
    w3 = w3
    d1 = d1
    t1 = t1
    t2 = t2
    t3 = t3
    ask = ask
    use1 = use1
    use2 = use2
    bulk = bulk
    r1 = r1
    None = None
    Damaged = Damaged
    Genesis = Genesis
    Tier <- MCTier
    Verdict <- MCVerdict
    Reference <- MCReference
    Calls = {w1, w2, w3}
    Requests = {}
    Cap <- CapOne
    Window = 2
    Threshold = 3
    AuditRequired = TRUE
    MaxTime = 1
    MaxFaults = 1
    MaxCrashes = 1
    Faults = {"torn"}
INVARIANTS
    HourlyCap
