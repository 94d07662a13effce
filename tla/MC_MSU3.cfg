SPECIFICATION Spec
CONSTANTS
    Soft <- MCSoft
    Problems <- MCProblems
    NoModel = NoModel
INVARIANTS
    AnswerCorrect
    EachOptimumOnce
PROPERTIES
    ImplementsMaxSATSearch
    Termination
CHECK_DEADLOCK FALSE
