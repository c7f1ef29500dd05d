SPECIFICATION Spec
CONSTANTS
    MaxHeight = 2
    MaxBranch = 1
    Fork <- ForkAtTwo
    MaxReorgs = 2
    Networks <- KeepingUp
    SafeConfirmations = 0
    MaxBlocksPerBatch = 2
    TailSafetyBlockSpan = 1
    MinIndexingBatch = 1
    ProviderRange = 2
    FaultKinds <- PublisherFaults
    MaxFaults = 2
    MaxSequence = 2
INVARIANTS
    LeasedWatermarkStands
    ResolvedIsKept
