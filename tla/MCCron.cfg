SPECIFICATION FairSpec
CONSTANTS
    i1 = i1
    i2 = i2
    i3 = i3
    t1 = t1
    t2 = t2
    Ids <- MCIds
    Tasks <- MCTasks
    Repeats = {"once", "daily"}
    Delays = {1}
    MaxJobs = 2
    Day = 2
    MaxTime = 2
    MaxOps = 3
    MaxTroubles = 1
INVARIANTS
    TypeOK
    RemindersKept
PROPERTIES
    StepsOfBook
    DueGetsFired
