SPECIFICATION Spec
CONSTANTS
    Interval = 3
    StampTtl = 6
    Day = 5
    DigestAt = 2
    Minutes = 2
    DateTtl = 7
    MaxTime = 17
    MaxTroubles = 3
CHECK_DEADLOCK FALSE
INVARIANTS
    TypeOK
    SpacedOut
    DigestComes
