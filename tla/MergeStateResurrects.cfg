SPECIFICATION Spec
CONSTANTS
    Replica <- TwoReplicas
    Id = {1}
    Version = {1, 2}
    Content = {1}
    Time = {0}
    Base = {base}
    NoBase = NoBase
    InitialBase <- OneBase
    Policy = "highest_version"
    BatchMayRaise = FALSE
    MaxAdds = 2
    MaxSnapshots = 1
INVARIANT RemoveSticks
CHECK_DEADLOCK FALSE
