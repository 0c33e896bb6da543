SPECIFICATION Spec
CONSTANTS
    Session = {s1, s2}
    File = {f1}
    MaxContent = 3
    MaxPatches = 2
    MaxFaults = 1
    MaxCheckpoints = 2
    MaxMessages = 2
    MaxRewinds = 1
    MaxTurns = 8
INVARIANTS TypeOK OnRecordOnce EditsOnRecord
PROPERTY RewindExact
SYMMETRY Symmetry
CHECK_DEADLOCK FALSE
