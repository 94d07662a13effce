SPECIFICATION EncoderSpec
CONSTANTS
    W32 = 32
    W64 = 1024
    Lines <- MCLines
    MaxUpdate = 2
    MaxLits = 7
    MaxItems = 4
    MaxWeight = 3
    MaxBound = 5
INVARIANTS
    EncodesLine
    StopsOnlyWhenConstant
    OutputsCount
    AtMostBound
    WeightBound
CHECK_DEADLOCK FALSE
