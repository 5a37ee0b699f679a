CONSTANTS
    K = 2
    B = 2
    MaxSize = 4
    MaxValue = 8
    MaxStemSparsity = 2
    Points <- SixPoints
    Items <- OneItem
    Sources <- SixEntries
    Metric = "SquaredEuclidean"
    Queries <- SomeQueries
SPECIFICATION TreeWithQueriesSpec
INVARIANTS
    NothingPrunedWasNear
    FramesAreLowerBounds
    StackIsOnePath
