CONSTANTS
    BucketSizes = {7}
    Coordinates = {0, 1, 2, 3}
SPECIFICATION Spec
INVARIANTS
    SplitIsOrdered
