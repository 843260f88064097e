SPECIFICATION Spec
CONSTANTS
    MaxBlocks = 7
    MaxInstrs = 3
CHECK_DEADLOCK FALSE
INVARIANTS
    QueriesMatchPaths
    LoopsAreEnteredAtTheirHeader
    PhisHoldTheLastWrite
    LivenessIsExact
    SlotsHoldTheirValues
