CONSTANTS
    Attempts = 3
    HTTPTimeout = 3
    Backoff = 1
    SetupTimeout = 9
    Durations <- AllDurations
    CancelTimes <- AllCancelTimes
    TestResults <- SomeResults
    MaxResults = 5
    MaxWritten = 3
    Late = 1
    RecordBy = 1
    Horizon = 2
SPECIFICATION Spec
INVARIANTS
    ClientReleased
    EndsInTime
    TalliesAgree
    PercentilesAreNearestRank
    ReturnsInTime
    ResultsStayDistinct
    SeriesAgreesWithSummary
