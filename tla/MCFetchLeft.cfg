CONSTANTS
    r1 = r1
    r2 = r2
    Nobody = Nobody
    Runs <- OneRun
    Words <- AllWords
    Recordings <- LongRecordings
    Leftovers <- Leftover
SPECIFICATION Spec
INVARIANTS
    NoFileOfFailedDownload
