CONSTANTS
    Inputs <- CutInputs
    Capacity = 2
    MaxPasses = 3
SPECIFICATION StreamSpec
INVARIANTS
    CutDocumentReported
