SPECIFICATION Spec
CONSTANTS
    BatchLimit = 2
    Writes = {w1}
    Sink = TRUE
    Snapshots = TRUE
    MaxTx = 3
    MaxBlocks = 1
    MaxCrashes = 1
INVARIANTS NoDuplicates
CHECK_DEADLOCK FALSE
