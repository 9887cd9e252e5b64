SPECIFICATION Spec
CONSTANTS
    Contents <- MCContents
    Later <- MCLater
    MaxChanges = 2
    MaxSnapshots = 2
    Stride = 13
    MaxFaults = 1
INVARIANTS LoadsLatest TruncationCovered ReplaysRecords
CHECK_DEADLOCK FALSE
