SPECIFICATION MCSpec
CONSTANTS
    Soft <- MCSoft
    Problems <- MCProblems
    nPartitions = 2
    cost <- MCCost
    NoModel = NoModel
INVARIANTS
    LowerBound
    StuckOnlyWithoutModel
    OptimumCorrect
PROPERTIES
    ImplementsMaxSATSearch
    Answered
CHECK_DEADLOCK FALSE
