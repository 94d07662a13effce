SPECIFICATION Spec
CONSTANTS
    MaxVars = 5
    Scripts <- MCScripts
    AdaptAfter <- MCAdaptAfter
    MaxRestarts = 1
INVARIANTS
    NoMissedPropagation
    ReasonsJustify
    HoldsTheFormula
PROPERTIES
    ImplementsSatOracle
    TrailAdvances
