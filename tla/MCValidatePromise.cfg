CONSTANTS
    Calls <- AllCalls
SPECIFICATION Spec
INVARIANTS
    ValidatedIsReplayable
