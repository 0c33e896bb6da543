SPECIFICATION Spec
CONSTANTS
    Session = {s1}
    File = {f1}
    MaxContent = 3
    MaxPatches = 2
    MaxFaults = 0
    MaxCheckpoints = 3
    MaxMessages = 1
    MaxRewinds = 1
    MaxTurns = 9
PROPERTY RewindOrder
CHECK_DEADLOCK FALSE
