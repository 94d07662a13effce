SPECIFICATION MCSpec
CONSTANTS
    Soft <- MCSoft
    Problems <- MCProblems
    weight <- MCWeight
    nPartitions = 1
    limit = 100
    MaxCores = 2
    MaxSlack = 2
    Options <- MCOptions
    hard_weight = 100
    NoModel = NoModel
INVARIANTS
    CostPreserved
    BoundsMeet
PROPERTIES
    ImplementsMaxSATSearch
    AnswersWhenSatisfiable
CHECK_DEADLOCK FALSE
