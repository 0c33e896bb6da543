SPECIFICATION FairSpec
CONSTANTS
    Tool <- OneTool
    MaxSessions = 2
    MaxKeys = 3
    MaxRequests = 1
    MaxFaults = 0
    MaxTurns = 4
PROPERTY NeverLocked
CHECK_DEADLOCK FALSE
