CONSTANTS
    BucketSizes = {2, 3, 4, 5, 6}
    Coordinates = {0, 1, 2, 3}
SPECIFICATION Spec
INVARIANTS
    MirrorIsAPermutation
    SplitsAsABucket
    SplitIsOrdered
PROPERTIES
    RoundsNarrow
