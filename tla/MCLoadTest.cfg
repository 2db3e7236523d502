CONSTANTS
    w1 = w1
    w2 = w2
    Workers <- TwoWorkers
    Inputs <- AllInputs
    Options <- OptionType
    Capacity = 2
    MaxPasses = 2
SPECIFICATION FairSpec
INVARIANTS
    NoSendOnClosed
    NoGoroutineOutlivesCall
    EntriesAccounted
    NothingLostUnlessEnded
    ResultsCopied
    AtMostOneLateResult
    SummaryIsComplete
    NilMeansEndedOrEmpty
PROPERTIES
    ContractSpec
    QuietAfterReturn
    DrainEndsCall
