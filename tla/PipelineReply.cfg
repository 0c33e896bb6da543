SPECIFICATION FairPipelineSpec
CONSTANTS
    Kind <- Kinds
    MaxEvents = 3
    MaxTears = 1
    MaxDrops = 1
    NoIndex = NoIndex
    Index = {i1, i2}
    MaxPieces = 3
    MaxTurns = 3
INVARIANTS TextsKept CallsWhole
PROPERTIES InOrder Delivered EndsWithSession CallReturns
CHECK_DEADLOCK FALSE
