SPECIFICATION SyncSpec
CONSTANTS
    Node <- ThreeNodes
    Key = {1}
    Value = {1}
    NoValue = NoValue
    Writers <- SharedKey
    MaxCount = 2
    MaxInFlight = 0
INVARIANT KeyConvergence
CHECK_DEADLOCK FALSE
