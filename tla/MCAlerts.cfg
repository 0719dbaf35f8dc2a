SPECIFICATION FairSpec
CONSTANTS
    n1 = n1
    q1 = q1
    q2 = q2
    News <- MCNews
    Quakes <- MCQuakes
    Capacity = 1
    MinSources = 1
    MinArticles = 2
    Cooldown = 1
    Sizes = {"small", "significant"}
    EndStatuses = {"resolved"}
    MaxArticles = 2
    MaxChanges = 3
    MaxAborts = 1
    MaxTime = 2
INVARIANTS
    TypeOK
    ThreadsMakeSense
PROPERTIES
    BudgetServesQuakes
    PriorityCatchesUp
