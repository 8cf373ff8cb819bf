\* Three batches of one or two queries under each configuration.
SPECIFICATION Spec
CONSTANTS
    Waits <- MCWaits
    Triggers <- MCTriggers
    Sizes <- MCSizes
    Scale = 3
    IntHalf = 8
    Jitter = 1
    Encoding = 1
    MaxBatches = 3
CHECK_DEADLOCK FALSE
INVARIANTS
    WaitBounded
    LargePrompt
