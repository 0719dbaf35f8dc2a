SPECIFICATION FairSpec
CONSTANTS
    k1 = k1
    k2 = k2
    Keys <- MCKeys
    NumPools = 3
    PoolConfigs <- MCPoolConfigs
    Replies <- MCReplies
    KeyCooldown = 1
    Threshold = 2
    BreakerCooldown = 2
    RateLimit = 2
    Window = 2
    MaxTime = 3
    MaxRequests = 2
    MaxBuilds = 2
INVARIANTS
    TypeOK
    BreakerTracksFailures
    FailoverOrder
    CallsJustified
PROPERTIES
    NoUsableKeyPassedOver
    RequestsEnd
