SPECIFICATION Spec
CONSTANTS
    Requests = {r1, r2}
    Calls = {c1, c2}
    Servers = {s1, s2}
    Approvers = {a1}
    Trusted = {a1}
    Ttl = 1
    ApproverTtl = 2
    MaxTime = 2
    Absent = Absent
    Torn = Torn
INVARIANTS
    Attributed
PROPERTIES
    LifecycleSpec
CHECK_DEADLOCK FALSE
