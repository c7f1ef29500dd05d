SPECIFICATION FairSpec
CONSTANTS
    MaxHeight = 2
    MaxBranch = 1
    Fork <- ForkAtTwo
    MaxReorgs = 1
    Networks <- KeepingUp
    SafeConfirmations = 0
    MaxBlocksPerBatch = 2
    TailSafetyBlockSpan = 1
    MinIndexingBatch = 1
    ProviderRange = 2
    FaultKinds = {"ipns"}
    MaxFaults = 1
    MaxSequence = 1
PROPERTIES
    PendingIsPublished
