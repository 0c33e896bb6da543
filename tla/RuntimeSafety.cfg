SPECIFICATION Spec
CONSTANTS
    User = {u1, u2}
    p1 = p1
    p2 = p2
    Path = {p1, p2}
    NoPath = NoPath
    Replies <- ManyCalls
    FreshIds = TRUE
    MaxSteps = 4
    CheckpointInterval = 2
    MaxTokens = 0
    MaxFaults = 0
INVARIANTS NoDanglingCalls ArtifactsAreFiles SingleGoal NoWorkLeft
PROPERTIES LoopProgressKept CompletedGoalsKept CheckpointsAdvance
CHECK_DEADLOCK FALSE
