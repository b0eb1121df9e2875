SPECIFICATION Spec
CONSTANTS
    r1 = r1
    r2 = r2
    o1 = o1
    o2 = o2
    Requests = {r1, r2}
    Origins = {o1, o2}
    Wants <- MCWants
    Approvals <- MCApprovals
    MaxRestarts = 1
INVARIANTS DeclinedMeansRejected
CHECK_DEADLOCK FALSE
