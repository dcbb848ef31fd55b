SPECIFICATION MCSpec
CONSTANTS
    Node <- TwoNodes
    Key = {1}
    Value = {1, 2}
    NoValue = 0
    Text <- OneText
    Writers <- SharedKey
    MaxCount = 2
    MaxInFlight = 1
    MaxFiles = 1
    MaxRestarts = 1
INVARIANT MergeLaws
PROPERTY MergeAdvances
CHECK_DEADLOCK FALSE
