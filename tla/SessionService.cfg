SPECIFICATION FairSessionSpec
CONSTANTS
    User = {u1, u2}
    Path = {}
    NoPath = NoPath
    Prompt = {u1}
    Listed = FALSE
    Replies <- OneCall
    FreshIds = TRUE
    MaxSteps = 2
    CheckpointInterval = 2
    MaxTokens = 0
    MaxFaults = 1
INVARIANTS OneRunner StatusTruth
PROPERTIES RuntimeSpec RestingAttended PromptAttended
CHECK_DEADLOCK FALSE
