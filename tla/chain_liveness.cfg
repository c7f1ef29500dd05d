SPECIFICATION FairSpec
CONSTANTS
    MaxHeight = 3
    MaxBranch = 1
    Fork <- ForkAtTwo
    MaxReorgs = 1
    Networks <- ArchiveLags
    SafeConfirmations = 0
    MaxBlocksPerBatch = 2
    TailSafetyBlockSpan = 1
    MinIndexingBatch = 1
    ProviderRange = 1
    FaultKinds <- AllFaults
    MaxFaults = 1
    MaxSequence = 1
PROPERTIES
    IndexCatchesUp
    RewindIsNotStarved
