SPECIFICATION Spec
CONSTANTS
    MaxHeight = 3
    MaxBranch = 1
    Fork <- ForkAtTwo
    MaxReorgs = 2
    Networks <- KeepingUp
    SafeConfirmations = 0
    MaxBlocksPerBatch = 2
    TailSafetyBlockSpan = 1
    MinIndexingBatch = 1
    ProviderRange = 2
    FaultKinds = {"call", "ipns", "crash"}
    MaxFaults = 0
    MaxSequence = 1
INVARIANTS
    PublishedDatasetsAgree
