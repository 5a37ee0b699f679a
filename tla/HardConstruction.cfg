CONSTANTS
    K = 2
    B = 2
    MaxLen = 7
    MaxValue = 3
    MaxStemSparsity = 16
    Points <- Grid3x2
    Items <- OneItem
    Sources <- MCSources
SPECIFICATION BuildSpec
INVARIANTS
    NothingLostOrDuplicated
    LeavesFit
    FinishedTreeRoutes
    IdealPivotInside
PROPERTIES
    ConstructionEnds
CHECK_DEADLOCK FALSE
