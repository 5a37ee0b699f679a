CONSTANTS
    K = 2
    B = 2
    Infinity = 1000
    Alternating = TRUE
    Metric = "squared_euclidean"
    Trees <- SomeTrees
    Queries <- SomeQueries
SPECIFICATION Spec
INVARIANTS
    NothingPrunedWasNear
    RdMatchesOff
    ContinuationsMatch
    StoredPointsAreNear
PROPERTIES
    QueryEnds
CHECK_DEADLOCK FALSE
