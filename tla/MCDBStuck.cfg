SPECIFICATION FairSpec
CONSTANTS
    BatchLimit = 2
    Writes = {w1}
    Sink = TRUE
    Snapshots = TRUE
    MaxTx = 3
    MaxBlocks = 1
    MaxCrashes = 1
PROPERTIES LogNeverStuck
CHECK_DEADLOCK FALSE
