SPECIFICATION FairSpec
CONSTANTS
    Lists = 3
    Holdings <- MCHoldings
    Limits = {1, 3, 4}
    PageSize = 2
    MaxPages = 3
    MaxSources = 2
    MaxDepth = 1
    MaxWeight = 3
    MaxDropped = 1
    Unknown = Unknown
INVARIANTS
    CompleteIsTrue
    EnvelopeIsTrue
    BoundsKept
PROPERTIES
    ListingEnds
CHECK_DEADLOCK FALSE
