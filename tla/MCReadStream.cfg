CONSTANTS
    Inputs <- AllInputs
    Capacity = 2
    MaxPasses = 3
SPECIFICATION StreamSpec
INVARIANTS
    StreamOrder
    VerdictSound
PROPERTIES
    CancelEndsReader
    NothingToSendEnds
