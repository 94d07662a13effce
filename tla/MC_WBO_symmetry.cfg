SPECIFICATION MCSpec
CONSTANTS
    Soft <- MCSoft
    Problems <- MCProblems
    weight <- MCWeight
    nPartitions = 0
    limit = 100
    MaxCores = 0
    MaxSlack = 6
    Options <- MCOptions
    hard_weight = 100
    NoModel = NoModel
INVARIANTS
    AssertedBounds
CHECK_DEADLOCK FALSE
