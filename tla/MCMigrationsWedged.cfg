CONSTANTS
    r1 = r1
    r2 = r2
    Rows = {r1, r2}
    MaxFailures = 1
SPECIFICATION Spec
INVARIANTS
    FailureRollsBack
