SPECIFICATION Spec
CONSTANTS
    Capacity = 4
    UINT_MAX = 1
    CallContexts <- MCCallContexts
    UserContexts <- MCUserContexts
INVARIANTS
    DispatchMostSpecific
    DispatchExact
    WithinUserContext
PROPERTIES
    DeoptCountsKept
