SPECIFICATION FairSpec
CONSTANTS
    BatchLimit = 2
    MaxTx = 3
    MaxTruncates = 1
    MaxResets = 1
    MaxFailures = 1
INVARIANTS NoRequestVanishes StoreNeverRefused
PROPERTIES Progress CloseReturns
CHECK_DEADLOCK FALSE
