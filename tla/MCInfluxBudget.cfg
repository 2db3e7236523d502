CONSTANTS
    Attempts = 3
    HTTPTimeout = 3
    Backoff = 1
    SetupTimeout = 9
    Durations <- AllDurations
    CancelTimes <- AllCancelTimes
SPECIFICATION SetupSpec
INVARIANTS
    BudgetUntouched
