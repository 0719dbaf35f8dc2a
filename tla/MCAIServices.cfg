SPECIFICATION FairSpec
CONSTANTS
    Kind <- MCKind
    NumRuns = 2
    MaxVersion = 1
    MaxTroubles = 1
\* Requests are bounded: after the last one nothing is left to do.
CHECK_DEADLOCK FALSE
INVARIANTS
    TypeOK
    InsightsHold
PROPERTIES
    RunsEnd
