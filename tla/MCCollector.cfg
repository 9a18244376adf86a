CONSTANTS
    c1 = c1
    g1 = g1
    e1 = e1
    NoRow = NoRow
    Deployments = {c1, g1}
    Gpu = {g1}
    Extra = {e1}
    MaxChanges = 1
    MaxRestarts = 1
SPECIFICATION FairSpec
PROPERTIES
    StartServes
    CollectionStops
    LoadIsShown
