SPECIFICATION Spec
CONSTANTS
    Callers = {c1}
    Pids <- MCPids
    PidArgs <- MCPidArgs
    LimitArgs <- MCLimitArgs
    MaxArgs <- MCMaxArgs
    MaxPages = 1
    PAGE_KB = 4
    SIZE_MOD = 256
    NoOwner = NoOwner
INVARIANTS NoNegativeLimit
