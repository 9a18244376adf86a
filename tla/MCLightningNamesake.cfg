CONSTANTS
    d1 = d1
    d2 = d2
    r1 = r1
    a1 = a1
    Deployments = {d1, d2}
    Requests = {r1}
    AppName <- OneName
    Accounts = {a1}
    Cap = 2
    StatusRefresh = TRUE
    MaxRestarts = 0
SPECIFICATION Spec
SYMMETRY Interchangeable
PROPERTIES
    DeleteSparesOthers
