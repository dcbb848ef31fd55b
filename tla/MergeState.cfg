SPECIFICATION Spec
CONSTANTS
    Replica <- TwoReplicas
    Id = {1}
    Version = {1, 2}
    Content = {1, 2}
    Time = {0}
    Base = {base}
    NoBase = NoBase
    InitialBase <- OneBase
    Policy = "highest_version"
    BatchMayRaise = FALSE
    MaxAdds = 2
    MaxSnapshots = 1
INVARIANTS
    TypeOK NoTombstonedContribution CacheCoherent NothingLost
    Convergence OrderFree RemoveKeepsOut
CHECK_DEADLOCK FALSE
