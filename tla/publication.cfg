SPECIFICATION MCSpec
CONSTANTS
    MaxCalls = 2
    PublishTimeout = 3
    MinRetryRemaining = 1
    RetryDelays = 2
    RetryDelay <- MCRetryDelay
    MinPeers = 2
    QueueCapacity = 1
    Services = {1, 2, 3}
    Quorum = 2
    Cid = {c1, c2}
    MaxOutages = 2
    MaxEvents = 4
    MaxClock = 2
    MaxFaults = 1
    ByteLimit = 2
    Span = 2
    Interval = 1
    Retain = 1
    MaxBridges = 2
INVARIANTS
    LeaseCoversPut
    NothingIsOverdue
    PinnedAtQuorum
    PinnedIsNeverDenied
    ReadersAreServed
PROPERTIES
    ImplementsChannel
    EveryRequestEnds
    PublicationCatchesUp
