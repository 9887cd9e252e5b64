SPECIFICATION Spec
CONSTANTS
    BatchLimit = 2
    Writes = {w1}
    Sink = TRUE
    Snapshots = FALSE
    MaxTx = 6
    MaxBlocks = 3
    MaxCrashes = 1
INVARIANTS Recoverable BlocksRecovered
CHECK_DEADLOCK FALSE
