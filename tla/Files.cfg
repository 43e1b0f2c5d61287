CONSTANTS
    Tasks = {t1, t2}
    Hooks = {0}
    MAX_SYS_CALLS = 1
    ULONG_MOD = 2
    MaxArrays = 2
    MaxCalls = 2
    f1 = f1
    f2 = f2
    f3 = f3
    g1 = g1
    g2 = g2
    i1 = i1
    i2 = i2
    NoFile = NoFile
SPECIFICATION MCSpec
SYMMETRY TaskSymmetry
INVARIANTS
    
    ExactWhileAlone
    DeathNeedsFailedInit
    ReferencesExact
    OffsetsInRange
PROPERTIES
    FileStepsSafe
