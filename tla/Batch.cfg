CONSTANTS
    Entries <- ThreeEntries
    Radii = {1}
    Quantities = {2}
    Boxes = {4}
    Infinity = 100
    Batches <- SomeBatches
    Executors <- SomeExecutors
    MaxStaticChunkQueries = 128
SPECIFICATION Spec
INVARIANTS
    EveryQueryOnce
    AnswersAreSingle
    AskedIsAnswered
    NothingMissing
PROPERTIES
    ImplementsQueryBatch
    BatchEnds
CHECK_DEADLOCK FALSE
