CONSTANTS
    c1 = c1
    g1 = g1
    Deployments = {c1, g1}
    Gpu = {g1}
    MaxRestarts = 1
SPECIFICATION FairSpec
INVARIANTS
    MonitoringTypeOK
    GrafanaIsTracked
PROPERTIES
    RetentionHonoured
    RetentionEnds
    LiveIsMonitored
