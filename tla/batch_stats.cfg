\* The dispatcher and a caller of flush() count three batches under one reader.
SPECIFICATION Spec
CONSTANTS
    Flushers = {f1}
    Dispatcher = dispatcher
    Readers = {reader}
    Sizes <- MCSizes
    MaxBatches = 3
    INT64_MAX = 20
CHECK_DEADLOCK FALSE
INVARIANTS
    AverageNotLow
    CountLags
    ExtremaExact
    AverageInRange
