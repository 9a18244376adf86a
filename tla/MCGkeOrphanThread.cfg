CONSTANTS
    d1 = d1
    r1 = r1
    Deployments = {d1}
    Requests = {r1}
    Cap = 1
    StatusRefresh = FALSE
    OutsideDeletes = FALSE
    MaxRestarts = 0
SPECIFICATION Spec
INVARIANTS
    EveryProjectTracked
