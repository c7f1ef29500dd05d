SPECIFICATION Spec
CONSTANTS
    MaxHeight = 5
    MaxBranch = 2
    Fork <- TwoForks
    MaxReorgs = 3
    Networks <- DeepOrShallow
    SafeConfirmations = 2
    MaxBlocksPerBatch = 2
    TailSafetyBlockSpan = 1
    MinIndexingBatch = 1
    ProviderRange = 1
    FaultKinds <- AllFaults
    MaxFaults = 1
    MaxSequence = 0
INVARIANTS
    IndexedWithoutGaps
    ProgressHasHeader
    IndexedIsCanonical
