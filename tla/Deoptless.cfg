SPECIFICATION Spec
CONSTANTS
    Keys <- MCKeys
    Closures = 2
    CAPACITY = 2
    MaxCodes = 3
    MaxDepth = 3
CHECK_DEADLOCK FALSE
INVARIANT ContinuationSound
PROPERTIES
    NeverEvicts NeverContinuesDisabled
