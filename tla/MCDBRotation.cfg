SPECIFICATION Spec
CONSTANTS
    BatchLimit = 2
    Writes = {w1}
    Sink = TRUE
    Snapshots = FALSE
    MaxTx = 4
    MaxBlocks = 2
    MaxCrashes = 1
INVARIANTS RotationRecovered
CHECK_DEADLOCK FALSE
