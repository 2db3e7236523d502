CONSTANTS
    r1 = r1
    r2 = r2
    Nobody = Nobody
    Runs <- TwoRuns
    Words <- AllWords
    Recordings <- ShortRecordings
    Leftovers <- Leftover
SPECIFICATION FairSpec
INVARIANTS
    VerdictMatchesDirectory
    NamesAreDense
    NeverProbesOwnName
PROPERTIES
    FilesAreKept
    CancelEnds
