SPECIFICATION Spec
CONSTANTS
    Capacity = 3
    UINT_MAX = 2
    MIN_INVOCATIONS = 2
    Calls <- MCCalls
    NativeCalls <- MCNativeCalls
    available <- MCAvailable
    formalNargs = 2
    dotsPosition = 255
    hasDefaultArgs = TRUE
    PIR_WARMUP = 1
    DEOPT_ABANDON = 1
    SpecializationLevel = 100
    RECHECK = 1
    UserFlags = {}
    BackendEvaluates = FALSE
    MaxVersions = 2
    MaxDepth = 2
INVARIANTS
    AssumptionsHold
    CachesInvalidated
PROPERTIES
    NeverEntersDisabled
    
