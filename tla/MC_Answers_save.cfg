SPECIFICATION ProcessSpec
CONSTANTS
    Models <- MCModels
    cost <- MCCost
    sumWeights = 2
    nVars = 3
    None = None
INVARIANTS
    PrintsWholeModel
CHECK_DEADLOCK FALSE
