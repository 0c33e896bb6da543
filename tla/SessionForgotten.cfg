SPECIFICATION SessionSpec
CONSTANTS
    User = {u1, u2}
    Path = {}
    NoPath = NoPath
    Prompt = {}
    Listed = FALSE
    Replies <- OneCall
    FreshIds = TRUE
    MaxSteps = 2
    CheckpointInterval = 2
    MaxTokens = 0
    MaxFaults = 0
INVARIANTS CompletedIsDone
CHECK_DEADLOCK FALSE
