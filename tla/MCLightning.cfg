CONSTANTS
    d1 = d1
    r1 = r1
    r2 = r2
    a1 = a1
    a2 = a2
    Deployments = {d1}
    Requests = {r1, r2}
    AppName <- OneName
    Accounts = {a1, a2}
    Cap = 1
    StatusRefresh = TRUE
    MaxRestarts = 1
SPECIFICATION FairSpec
INVARIANTS
    TeardownExcludesDeploy
    RunningIsTracked
    DeployingIsAttended
PROPERTIES
    TeardownIsConfirmed
    KeepsContract
    TeardownSettles
