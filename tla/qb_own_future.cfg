\* Two clients that submit at the same time.
SPECIFICATION Spec
CONSTANTS
    r1 = r1
    r2 = r2
    r3 = r3
    Requests = {r1, r2}
    Clients = {c1, c2}
    Flushers = {}
    Dispatcher = dispatcher
    Stopper = stopper
    Size <- MCSize
    MaxBatchSize = 2
    INT64_MAX = 9
    NoRequest = NoRequest
    NoThread = NoThread
INVARIANT OwnFuture
CHECK_DEADLOCK FALSE
