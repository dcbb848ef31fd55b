SPECIFICATION MCSpec
CONSTANTS
    Agent <- TwoAgents
    Key = {"k"}
    Element = {"x"}
    Counter = {"c"}
    Time = {1, 2}
    Cap <- SmallCaps
    DefaultCap = 2
    Tokens <- OneLimited
    NoLimiter = NoLimiter
    Careless = FALSE
    MaxOps = 3
    MaxShares = 3
    MaxId = 3
    Thinker = {1, 2}
    Fact = {1, 2}
    Confidence = {1, 2, 3}
    Tag = {"t"}
    Budget = 1
    NoBudget = NoBudget
    MinConfidence = 2
    BlockSize = 2
    LongLived = FALSE
    MaxLearned = 3
    Manager = {1, 2}
    Retention <- SomeRetention
    MaxEpoch = 2
    MaxRecords = 2
    MaxStates = 2
    Owner = {"o"}
    Holder = {"h", "g"}
    MaxKeys = 2
    MaxImports = 4
    MaxRestarts = 1
INVARIANTS
    TagsOfHistory FactsOfHistory CountersOfHistory LogKeepsNewest
    SharedOrderFree ContextOfHistory CountsOfHistory RegistriesAgree
CHECK_DEADLOCK FALSE
