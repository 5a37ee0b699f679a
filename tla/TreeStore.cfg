CONSTANTS
    K = 2
    B = 2
    MaxSize = 4
    MaxLen = 3
    MaxValue = 3
    MaxStemSparsity = 1
    Points <- ThreePoints
    Items <- TwoItems
    Sources <- MCSources
SPECIFICATION Spec
INVARIANTS
    StoredEntriesAreFound
    DescentReachesALeaf
    SizesAgree
PROPERTIES
    ErrorsChangeNothing
    CallsReturn
    
