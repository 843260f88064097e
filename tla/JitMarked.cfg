SPECIFICATION Spec
CONSTANTS
    Capacity = 3
    UINT_MAX = 1
    MIN_INVOCATIONS = 1
    Calls <- MCCalls
    NativeCalls <- NoCalls
    available <- MCAvailable
    formalNargs = 2
    dotsPosition = 255
    hasDefaultArgs = TRUE
    PIR_WARMUP = 1
    DEOPT_ABANDON = 1
    SpecializationLevel = 100
    RECHECK = 1
    UserFlags = {"MarkOpt", "DisableArgumentTypeSpecialization"}
    BackendEvaluates = FALSE
    MaxVersions = 2
    MaxDepth = 1
PROPERTIES
    SpecializationDisabled
    ImplementsDispatchTable
