SPECIFICATION Spec
CONSTANTS
    Soft <- MCSoft
    Problems <- MCProblems
    nPartitions = 2
    limit = 100
    NoModel = NoModel
INVARIANTS
    LowerBound
    EncodingInStep
    AnswerCorrect
PROPERTIES
    ImplementsMaxSATSearch
    Termination
CHECK_DEADLOCK FALSE
