\* Two clients, one flusher, two small batches and an empty one.
SPECIFICATION Spec
CONSTANTS
    r1 = r1
    r2 = r2
    r3 = r3
    Requests = {r1, r2, r3}
    Clients = {c1, c2}
    Flushers = {f1}
    Dispatcher = dispatcher
    Stopper = stopper
    Size <- MCSizeEmpty
    MaxBatchSize = 2
    INT64_MAX = 9
    NoRequest = NoRequest
    NoThread = NoThread
SYMMETRY MCSymmetry
CHECK_DEADLOCK FALSE
INVARIANTS
    TypeOK
    MutexHeld
    PromiseHeldOnce
    NoSharedFuture
    EveryQueryCounted
    OldestFirst
    OnlyFreshKept
    NoOvertaking
PROPERTIES
    SettledOnce
