SPECIFICATION Spec
CONSTANTS
    Files <- MCFiles
    UINT64_MAX = 15
    EdgeLimit = 8
    nRandomPartitions = 3
INVARIANTS
    ModularityExact
    MergingGainsNothing
    ReadsTheFile
    FileKeepsPartitions
    ReadBack
PROPERTIES
    Termination
CHECK_DEADLOCK FALSE
