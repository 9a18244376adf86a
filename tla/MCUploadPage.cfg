CONSTANTS
    s1 = s1
    p1 = p1
    p2 = p2
    Tokens = {s1}
    MaxUploads = 3
    Payloads = {p1, p2}
    Timeout = 1
    MaxTime = 2
    MaxRestarts = 1
SPECIFICATION PageFairSpec
INVARIANTS
    TypeOK
    AnsweredIsNotRepeated
PROPERTIES
    AcceptedWithinWindow
    AcceptedReachesFinalState
    SuccessWasAnswered
    ConflictIsUnseenSuccess
