SPECIFICATION MCSpec
CONSTANTS
    Soft <- MCSoft
    Problems <- MCProblems
    Weights <- MCWeights
    nPartitions = 1
    limit = 100
    MaxCores = 2
    NoModel = NoModel
INVARIANTS
    CostPreserved
    OptimumCorrect
    BoundsMeet
PROPERTIES
    AnswersWhenSatisfiable
CHECK_DEADLOCK FALSE
