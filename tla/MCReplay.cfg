CONSTANTS
    Recordings <- AllRecordings
    Options <- SomeOptions
    CancelTimes <- AllCancelTimes
    RequestTimes <- SlowServer
    ServerCookies <- AllServerCookies
    MaxDuration = 4
SPECIFICATION Spec
INVARIANTS
    ChronologicalOrder
    GapsHonoured
    NothingAfterCancel
    VerdictMatchesResults
    NoExtraDelay
    CookiesAreCurrent
