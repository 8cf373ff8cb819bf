\* Two queries on threads of their own against two loads.
SPECIFICATION FairSpec
CONSTANTS
    Requests = {q1, q2}
    Loaders = {l1, l2}
    NoIndex = NoIndex
CHECK_DEADLOCK FALSE
INVARIANTS
    TypeOK
    FirstLoadSafe
    AdmittedLoaded
PROPERTIES
    EveryQueryEnds
