CONSTANTS
    Callers = {"root", "user"}
    privileged = {"root"}
    RLIM_INFINITY = 3
    COMPAT_RLIM_INFINITY = 1
    OLD_MAX = 0
    sysctl_nr_open = 2
    NewLimits <- MCNewLimits
    NewLimits32 <- MCNewLimits32
SPECIFICATION MCSpec
INVARIANTS
    LimitsConsistent
    MapConsistent
    ExeFileCounted
