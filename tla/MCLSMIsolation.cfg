SPECIFICATION Spec
CONSTANTS
    Records <- MCRecords
    Readers = {s1}
    MaxLevel = 1
    MaxSize <- MCMaxSize
    Disk = {}
    LoadLevels = {}
    MaxForced = 0
    MaxFailures = 0
INVARIANT ScanIsolated
CHECK_DEADLOCK FALSE
