\* Every environment of main(), and two blocks of memory and a stream in wrappers beside the pool and the context.
SPECIFICATION SSpec
CONSTANTS
    Memories = {m1, m2}
    Streams = {s1}
    Blocks = {b1, b2}
    Handles = {h1, h2}
    Sizes = {1, 2}
    Absent = Absent
    Null = Null
    DeviceCounts = {0, 1, 2}
    DeviceIds <- MCDeviceIds
    Unset = Unset
    NotANumber = NotANumber
CHECK_DEADLOCK FALSE
INVARIANTS
    TypeOK
    OwnedOnce
    PoolAccounts
    OnnxOnGpu
PROPERTIES
    ServesAnyway
