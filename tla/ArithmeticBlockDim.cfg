CONSTANTS
    K = 2
    B = 1
    Infinity = 1000
    Alternating = FALSE
    Metric = "squared_euclidean"
    Trees <- BlockTrees
    Queries <- BlockQueries
SPECIFICATION Spec
INVARIANTS
    NothingPrunedWasNear
CHECK_DEADLOCK FALSE
