SPECIFICATION Spec
CONSTANTS
    BatchLimit = 2
    Writes = {}
    Sink = TRUE
    Snapshots = TRUE
    MaxTx = 6
    MaxBlocks = 3
    MaxCrashes = 0
INVARIANT SnapshotMeetsLog
CHECK_DEADLOCK FALSE
