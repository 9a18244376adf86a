CONSTANTS
    d1 = d1
    d2 = d2
    a1 = a1
    a2 = a2
    Deployments = {d1, d2}
    Requests = {}
    AppName <- OneName
    Accounts = {a1, a2}
    Cap = 2
    StatusRefresh = TRUE
    MaxRestarts = 0
SPECIFICATION FairSpec
PROPERTIES
    TeardownIsConfirmed
    GoneIsNoticed
