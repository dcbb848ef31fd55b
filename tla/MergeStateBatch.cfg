SPECIFICATION Spec
CONSTANTS
    Replica <- TwoReplicas
    Id = {1, 2}
    Version = {1}
    Content = {1}
    Time = {0}
    Base = {base}
    NoBase = NoBase
    InitialBase <- OneBase
    Policy = "highest_version"
    BatchMayRaise = TRUE
    MaxAdds = 2
    MaxSnapshots = 0
INVARIANT CacheCoherent
CHECK_DEADLOCK FALSE
