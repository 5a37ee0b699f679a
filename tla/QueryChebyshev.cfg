CONSTANTS
    K = 2
    B = 2
    MaxSize = 0
    MaxValue = 8
    MaxStemSparsity = 16
    Points <- SevenPoints
    Items <- OneItem
    Sources <- SevenEntries
    Metric = "Chebyshev"
    Queries <- SevenQuery
SPECIFICATION TreeWithQueriesSpec
INVARIANTS
    NothingPrunedWasNear
