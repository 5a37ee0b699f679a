CONSTANTS
    K = 2
    B = 1
    Infinity = 100
    Calls <- SomeCalls
    MinScore = 1
    TileLen = 1
    MaxCount = 10
SPECIFICATION Spec
INVARIANTS
    EveryPairOnce
    BoxesEnclose
    NearerIsToCome
PROPERTIES
    ImplementsPairJoin
    JoinEnds
CHECK_DEADLOCK FALSE
