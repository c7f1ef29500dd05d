SPECIFICATION FairSpec
CONSTANTS
    Artifact = {a1}
    MaxSequence = 2
    MaxFaults = 1
    FaultKinds <- AllFaults
    Clock <- SteppingClock
INVARIANTS
    PendingIsNewest
    ActiveIsPublished
    ResolvedGraphRetained
PROPERTIES
    UnpinSparesUnsuperseded
    SettledPinIsAccounted
    ExitSparesPinOwner
    PendingIsResolved
    DebtIsPaid
