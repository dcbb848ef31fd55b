SPECIFICATION Spec
CONSTANTS
    Node <- TwoNodes
    Key = {1}
    Value = {1}
    NoValue = NoValue
    Writers <- SharedKey
    MaxCount = 2
    MaxInFlight = 2
PROPERTY AnyWritePropagates
CHECK_DEADLOCK FALSE
