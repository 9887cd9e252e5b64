SPECIFICATION Spec
CONSTANTS
    BatchLimit = 2
    Writes = {w1, w2}
    Sink = TRUE
    Snapshots = TRUE
    MaxTx = 4
    MaxBlocks = 2
    MaxCrashes = 1
INVARIANTS Recoverable RecoveredOnce SnapshotMeetsLog
CHECK_DEADLOCK FALSE
