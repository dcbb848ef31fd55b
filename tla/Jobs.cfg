SPECIFICATION MCSpec
CONSTANTS
    SourceA <- SomeA
    SourceB <- SomeB
    BatchSize = 2
    BufferSize = 1
    CanRaise = TRUE
    CanStop = TRUE
    RecordKey = {"one", "padded", "two"}
    Content = {"c", "d"}
    Str <- SomeNames
    Pops <- SomePops
    MaxRecords = 2
    MaxVersion = 3
    Pipelines <- SomePipelines
    MaxCrashes = 2
    MaxRuns = 3
    Spelling = {1, 2, 3}
    NFC <- SomeNFC
    NoKey = NoKey
    Value = {1, 2, 3, 4, 5, 6, 7, 8, 9, 10}
    None = None
    Text <- SomeTexts
    Norm <- SomeNorm
    Moment <- SomeMoments
    NaN = {4}
    Number <- SomeNumbers
    Both = Both
    LeftTable <- SomeTables
    RightTable <- ShortTables
    TableA <- SomeTables
    TableB <- ShortTables
    ChunkSize = 1
INVARIANTS
    RowsConserved FailsOnUnsorted ReceiverInStep ResultsAsDefined SavedIsNotRepeated
    ParallelAsSequential ProvenanceIsMerge UnmergeRestores
PROPERTIES
    StreamEnds
CHECK_DEADLOCK FALSE
