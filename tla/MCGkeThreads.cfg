CONSTANTS
    d1 = d1
    r1 = r1
    r2 = r2
    Deployments = {d1}
    Requests = {r1, r2}
    Cap = 1
    StatusRefresh = TRUE
    OutsideDeletes = TRUE
    MaxRestarts = 1
SPECIFICATION FairSpec
INVARIANTS
    TypeOK
    TeardownExcludesDeploy
    RunningIsServed
    RunningIsUntouched
    RollbackSparesWorkload
PROPERTIES
    NoReturnToService
    KeepsContract
    DeletingHasHandler
    LeftBehindByThreadOrDismissal
    DeploySettles
    TeardownSettles
