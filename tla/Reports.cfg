CONSTANTS
    Procs = {p1, p2}
    Frames = {f1, f2}
    PAGE_SIZE = 2
    SIZE_PAGES = 3
    NPages = 2
    Sizes <- MCSizes
    Untouched = Untouched
    Unmapped = Unmapped
    ZeroPage = ZeroPage
    t1 = t1
    t2 = t2
    init_task = init_task
    NoMm = NoMm
SPECIFICATION MCSpec
SYMMETRY MCSymmetry
INVARIANTS
    CoversRequest
    
    
    SampleConsistent
    
CHECK_DEADLOCK FALSE
