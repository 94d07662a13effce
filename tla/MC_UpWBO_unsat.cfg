SPECIFICATION MCSpec
CONSTANTS
    Soft <- MCSoft
    Problems <- MCProblems
    weight <- MCWeight
    nPartitions = 1
    limit <- MCNoLimit
    MaxCores = 2
    MaxSlack = 2
    Options <- MCOptions
    hard_weight = 100
    NoModel = NoModel
PROPERTIES
    TerminatesWhenUnsatisfiable
CHECK_DEADLOCK FALSE
