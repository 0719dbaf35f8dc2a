SPECIFICATION Spec
CONSTANTS
    Sentences <- MCSentences
    Jobs <- MCJobs
    Moments <- MCMoments
    Hours = {8, 9}
    Texts <- MCTexts
    Monitors <- MCMonitors
    Replies <- MCReplies
    MaxChars = 30
    Cap = 41
    MaxAge = 6
    Near = 2
    DigestHours = 4
    DigestMag = 5
    QuakePool = 2
    Shown = 2
    Oversample = 2
    Pool = 2
    ArticleSets <- MCArticleSets
    QuakeSets <- MCQuakeSets
    ForecastSets <- MCForecastSets
    LinkSets <- MCLinkSets
    CheckSets <- MCCheckSets
    Targets = {"t1", "t2"}
    EventSets <- MCEventSets
    MemorySets <- MCMemorySets
    Queries <- MCQueries
    Levels = 4
    Indexes <- MCIndexes
    PlaceNames <- MCPlaceNames
    Ids = {1, 2, 3, 4, 5}
    StoredAt <- MCStoredAt
    PageSize = 1
    MaxWrites = 2
INVARIANTS
    AnswersRight
    PagesMissNothing
CHECK_DEADLOCK FALSE
