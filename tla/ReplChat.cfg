SPECIFICATION FairSpec
CONSTANTS
    Tool <- OneTool
    MaxSessions = 2
    MaxKeys = 3
    MaxRequests = 2
    MaxFaults = 1
    MaxTurns = 5
INVARIANTS FewStale NoMessageLost
PROPERTIES ShownInOrder OpenPromptStays WaitingEnds PromptEnds
CHECK_DEADLOCK FALSE
