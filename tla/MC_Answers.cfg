SPECIFICATION ProcessSpec
CONSTANTS
    Models <- MCModels
    cost <- MCCost
    sumWeights = 2
    nVars = 3
    None = None
INVARIANTS
    BoundKept
    StatusTrue
CHECK_DEADLOCK FALSE
