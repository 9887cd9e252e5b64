CONSTANTS
    Inputs = {i1, i2, i3}
    Queries <- MCQueries
    SchemaColumns <- MCSchemaColumns
    Tables <- MCTables
    BufferSize = 3
    ChannelSize = 1
    MaxFailures = 1
    IntColumns <- MCIntColumns
    PageSize = 2
    RowGroupSize = 3
    MaxGroups = 2
    SortingColumns <- MCSortingColumns
    SumOf = 7
    CountOf = 8
SPECIFICATION Spec
INVARIANTS AnswersQuery NeverStuck CompactionSorts
CHECK_DEADLOCK FALSE
