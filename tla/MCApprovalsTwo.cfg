SPECIFICATION Spec
CONSTANTS
    Requests = {r1}
    Calls = {c1, c2}
    Servers = {s1, s2}
    Approvers = {a1, a2, a3}
    Trusted = {a1, a2}
    Ttl = 2
    ApproverTtl = 1
    MaxTime = 3
    Absent = Absent
    Torn = Torn
INVARIANTS
    UseIsAuthorised
    UseIsTimely
    UsesAreBacked
CHECK_DEADLOCK FALSE
SYMMETRY Symmetry
