CONSTANTS
    r1 = r1
    r2 = r2
    Rows = {r1, r2}
    MaxFailures = 3
SPECIFICATION FairSpec
INVARIANTS
    ServesThisVersion
PROPERTIES
    NoRowLost
    StartSettles
