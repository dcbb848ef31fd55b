SPECIFICATION MCSpec
CONSTANTS
    Dimension = {"integrity"}
    Peer = {1, 2}
    Subject = {1, 2, 3}
    Evidence <- SomeEvidence
    Checks <- SomeChecks
    QueueLimit = 1
    BatchSize = 1
    Sigma = 0
    MinSamples = 2
    Window = 2
    MaxEvidence = 2
    MaxPayloads = 1
    MaxRepeat = 2
    MaxQueue = 1
    Key = {"k"}
    Time = {1, 2}
    Unbound = {}
    Weighted = TRUE
    MaxWrites = 3
    MaxForms = 1
INVARIANTS
    QuarantineHolds EvidenceOfHistory LiveOfHistory ContextOrderFree
CHECK_DEADLOCK FALSE
