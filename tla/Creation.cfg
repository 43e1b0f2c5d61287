CONSTANTS
    Tasks = {1, 2, 3}
    First = {1}
    CloneFlags <- MCCloneFlags
    UnshareFlags <- MCUnshareFlags
    RLIMIT_NPROC = 3
    max_threads = 5
    MaxUnshares = 1
    NoOption = NoOption
    NoTask = NoTask
SPECIFICATION MCSpec
INVARIANTS
    ResourcesExact
    LimitRespected
    MmFreedUnused
    StacksAccounted
    ForkMissesNothing
    VforkLends
    InitGetsItsOptions
CHECK_DEADLOCK FALSE
