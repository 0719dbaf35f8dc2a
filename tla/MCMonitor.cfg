SPECIFICATION FairMonitorSpec
CONSTANTS
    h1 = h1
    h2 = h2
    t1 = t1
    t2 = t2
    Targets <- MCTargets
    Tasks <- MCTasks
    NoTarget = NoTarget
    MaxFlips = 2
    MaxRequests = 2
    MaxFailures = 1
INVARIANTS
    MonitorTypeOK
    MonitoringHolds
PROPERTIES
    StatusCatchesUp
