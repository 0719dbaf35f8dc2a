SPECIFICATION NamingSpec
CONSTANTS
    Targets <- MCTargets
    Old <- MCOld
    Names <- MCNames
    Tasks <- MCTasks
    MaxMessages = 4
    MaxTroubles = 1
CHECK_DEADLOCK FALSE
INVARIANTS
    NamingTypeOK
    ChatUnderstood
