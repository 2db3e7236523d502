CONSTANTS
    Calls <- AllCalls
SPECIFICATION Spec
INVARIANTS
    OutputIsWhole
    WriterSeesPrefix
    RequestIsFaithful
    ConversionsAgree
    ValidatedCanBeSent
