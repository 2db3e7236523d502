CONSTANTS
    Strings <- SomeStrings
    MaxDepth = 4
SPECIFICATION Spec
INVARIANTS
    OnlyTheLogsOwn
