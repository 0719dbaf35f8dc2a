SPECIFICATION FairSpec
CONSTANTS
    NumUpdates = 2
    Tasks <- MCUpdates
    Talkers <- MCUpdates
    Cap = 2
    Window = 1
    Old <- MCOld
    Limit = 2
    Messages <- MCMessages
    MaxTroubles = 1
CHECK_DEADLOCK FALSE
INVARIANTS
    TypeOK
    MemoryKept
    ChatKept
PROPERTY
    ImplementsInbox
