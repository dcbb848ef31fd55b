SPECIFICATION MCSpec
CONSTANTS
    SourceA <- NoSource
    SourceB <- NoSource
    BatchSize = 2
    BufferSize = 1
    CanRaise = TRUE
    CanStop = TRUE
    RecordKey = {"one"}
    Content = {"c", "d"}
    Str <- SomeNames
    Pops <- SomePops
    MaxRecords = 1
    MaxVersion = 1
    Pipelines <- SomePipelines
    MaxCrashes = 0
    MaxRuns = 1
    Spelling = {1, 2, 3}
    NFC <- SomeNFC
    NoKey = NoKey
    Value = {1, 2, 3, 4, 5, 6, 7, 8, 9, 10}
    None = None
    Text <- SomeTexts
    Norm <- SomeNorm
    Moment <- SomeMoments
    NaN = {4}
    Number <- SomeNumbers
    Both = Both
    LeftTable <- SomeTables
    RightTable <- ShortTables
    TableA <- SomeTables
    TableB <- ShortTables
    ChunkSize = 1
INVARIANT UnmergeForgets
CHECK_DEADLOCK FALSE
