SPECIFICATION Spec
CONSTANTS
    BatchLimit = 2
    Writes = {w1}
    Sink = TRUE
    Snapshots = TRUE
    MaxTx = 4
    MaxBlocks = 2
    MaxCrashes = 0
INVARIANTS SnapshotCovers
CHECK_DEADLOCK FALSE
