SPECIFICATION FairSpec
CONSTANTS
    Records <- MCRecords
    Readers = {s1}
    MaxLevel = 2
    MaxSize <- MCMaxSize
    Disk = {1, 2}
    LoadLevels = {2}
    MaxForced = 1
    MaxFailures = 1
INVARIANTS
    TypeOK
    LevelsInOrder
    SizesAccount
    ScanOnce
    PartsReadable
    ReferencesCounted
PROPERTIES
    CompactionEnds
    ImplementsIndex
CHECK_DEADLOCK FALSE
