SPECIFICATION FairSpec
CONSTANTS
    Facts <- MCFacts
    Items <- MCItems
    Score <- MCScore
    Threshold = 1
    Batch = 2
    MaxSpread = 0
    MaxCutoff = 1
    MaxTroubles = 1
INVARIANTS
    TypeOK
    StoriesHold
PROPERTIES
    EngineCatchesUp
