SPECIFICATION Spec
CONSTANTS
    User = {u1, u2}
    p1 = p1
    p2 = p2
    Path = {p1, p2}
    NoPath = NoPath
    Replies <- OneCall
    FreshIds = TRUE
    MaxSteps = 3
    CheckpointInterval = 2
    MaxTokens = 0
    MaxFaults = 0
INVARIANTS AckedSaved
CHECK_DEADLOCK FALSE
