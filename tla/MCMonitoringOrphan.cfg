CONSTANTS
    c1 = c1
    Deployments = {c1}
    Gpu = {}
    MaxRestarts = 0
SPECIFICATION FairSpec
PROPERTIES
    DeletedIsUnmonitored
