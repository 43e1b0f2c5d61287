SPECIFICATION MCSpec
CONSTANTS
    Callers = {c1, c2}
    Pids <- MCPids
    PidArgs = {1, 2}
    LimitArgs = {3, 4}
    MaxArgs = {1}
    MaxPages = 1
    PAGE_KB = 4
    SIZE_MOD = 256
    NoOwner = NoOwner
SYMMETRY CallerSymmetry
INVARIANTS
    PidsUnique
    BufferFits
PROPERTIES
    RefinesRegistry
