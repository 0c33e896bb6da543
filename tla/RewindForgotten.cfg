SPECIFICATION Spec
CONSTANTS
    Session = {s1}
    File = {f1}
    MaxContent = 1
    MaxPatches = 0
    MaxFaults = 0
    MaxCheckpoints = 1
    MaxMessages = 3
    MaxRewinds = 1
    MaxTurns = 6
PROPERTY RewoundStays
CHECK_DEADLOCK FALSE
