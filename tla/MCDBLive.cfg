SPECIFICATION FairSpec
CONSTANTS
    BatchLimit = 2
    Writes = {w1, w2}
    Sink = TRUE
    Snapshots = TRUE
    MaxTx = 4
    MaxBlocks = 2
    MaxCrashes = 0
PROPERTIES LogDrains
CHECK_DEADLOCK FALSE
