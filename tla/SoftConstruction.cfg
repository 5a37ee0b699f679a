CONSTANTS
    K = 2
    B = 1
    MaxLen = 5
    AnyOrder = 3
    MaxValue = 3
    MaxStemSparsity = 16
    Thresholds = {1, 3, 6}
    Sources <- MCSources
    Refusals <- NoneOrTwoRefused
    SelectNth <- Selection
    SortUnstable <- InsertionSort
SPECIFICATION Spec
INVARIANTS
    TasksNeverPanic
    TasksAreApart
    PivotsInKeyOrder
    EntriesAreWithinTheirStems
PROPERTIES
    ImplementsSoftTree
    ConstructionEnds
CHECK_DEADLOCK FALSE
