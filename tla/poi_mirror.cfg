SPECIFICATION FairSpec
CONSTANTS
    p1 = p1
    p2 = p2
    Pairs <- TwoPairs
    Limit = {1, 2}
    page_size_max = 4
    DEFAULT_MIN_PAGE_SIZE = 2
    UPSTREAM_MAX_PAGE_SIZE = 3
    retry_budget = 2
    v2 = v2
    v3 = v3
    Version <- TwoVersions
    AdoptedVersion = v2
    ServedSize = 2
    MaxEvents <- Events
    LegacyEvents <- OldEvents
    MaxRewrites = 1
    TaskSets <- EachTask
    s1 = s1
    s2 = s2
    Shields <- Records
    MaxChanges = 2
    MaxFaults = 1
INVARIANTS
    CorpusHasNoGap
    CorpusIsServed
PROPERTIES
    EveryPairCatchesUp
    StoredSetWasServed
    StoredSetFollows
