SPECIFICATION Spec
CONSTANTS
    Node <- TwoNodes
    Key = {1, 2}
    Value = {1}
    NoValue = NoValue
    Writers <- SharedAndOwned
    MaxCount = 2
    MaxInFlight = 2
INVARIANTS TypeOK NothingInvented ClockSound StoreWithinClock SameClockSameEntry NoCausalLoss OwnedKeyConvergence
PROPERTY LocalWritePropagates
CHECK_DEADLOCK FALSE
