\* One client, one flusher, a small and a large batch.
SPECIFICATION FairSpec
CONSTANTS
    r1 = r1
    r2 = r2
    r3 = r3
    Requests = {r1, r3}
    Clients = {c1}
    Flushers = {f1}
    Dispatcher = dispatcher
    Stopper = stopper
    Size <- MCSize
    MaxBatchSize = 2
    INT64_MAX = 9
    NoRequest = NoRequest
    NoThread = NoThread
PROPERTIES
    ServiceSpec
    ShutdownCompletes
CHECK_DEADLOCK FALSE
