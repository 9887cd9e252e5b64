SPECIFICATION Spec
CONSTANTS
    BatchLimit = 2
    MaxTx = 3
    MaxTruncates = 1
    MaxResets = 0
    MaxFailures = 0
PROPERTIES CloseDrains
CHECK_DEADLOCK FALSE
