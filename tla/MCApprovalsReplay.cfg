SPECIFICATION Spec
CONSTANTS
    Requests = {r1}
    Calls = {c1}
    Servers = {s1}
    Approvers = {a1, a2}
    Trusted = {a1, a2}
    Ttl = 1
    ApproverTtl = 1
    MaxTime = 1
    Absent = Absent
    Torn = Torn
INVARIANTS
    SingleUse
CHECK_DEADLOCK FALSE
