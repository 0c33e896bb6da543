SPECIFICATION FairSpec
CONSTANTS
    User = {u1, u2}
    p1 = p1
    p2 = p2
    Path = {p1, p2}
    NoPath = NoPath
    Replies <- OneCallOrNothing
    FreshIds = FALSE
    MaxSteps = 2
    CheckpointInterval = 2
    MaxTokens = 1
    MaxFaults = 1
INVARIANTS TypeOK WriteAhead
PROPERTIES CancelStops RunTerminates
CHECK_DEADLOCK FALSE
