CONSTANTS
    Early = 1
    Initcalls = 3
    Populate = 2
    Blacklist = {3}
    Asyncs = {"a1", "a2"}
    NoMm = NoMm
    NoTask = NoTask
SPECIFICATION MCFairSpec
INVARIANTS
    UnloadIsSafe
    BootOrder
PROPERTIES
    WaitersGoOn
    FreedAtLast
    EveryCallReturns
    WalkEnds
    UnloadEnds
    ComesUp
CHECK_DEADLOCK FALSE
