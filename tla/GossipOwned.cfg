SPECIFICATION SyncSpec
CONSTANTS
    Node <- ThreeNodes
    Key = {1, 2}
    Value = {1}
    NoValue = NoValue
    Writers <- OwnedKeys
    MaxCount = 2
    MaxInFlight = 0
PROPERTIES ImplementsVersionedMap EventuallyEqual
CHECK_DEADLOCK FALSE
