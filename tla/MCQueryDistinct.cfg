CONSTANTS
    Inputs = {i1, i2}
    Queries <- Comparisons
    SchemaColumns <- MCSchemaColumns
    Tables <- PagesTables
    BufferSize = 3
    ChannelSize = 1
    MaxFailures = 0
    IntColumns <- MCIntColumns
    PageSize = 2
    RowGroupSize = 3
    MaxGroups = 2
    SortingColumns <- MCSortingColumns
    SumOf = 7
    CountOf = 8
SPECIFICATION Spec
INVARIANT DistinctCombinations
CHECK_DEADLOCK FALSE
