SPECIFICATION FairWeatherSpec
CONSTANTS
    q1 = q1
    q2 = q2
    Fixtures <- MCFixtures
    AdHoc = {"tapos"}
    Queries <- MCQueries
    MaxIssue = 1
    MaxMishaps = 1
INVARIANTS
    WeatherTypeOK
    AnswersStored
PROPERTIES
    ForecastsCatchUp
