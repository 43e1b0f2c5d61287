CONSTANTS
    Pids = {p1, p2, p3, p4}
    init = p1
SPECIFICATION MCSpec
SYMMETRY NumberSymmetry
VIEW AllButRet
INVARIANTS
    SessionsNest
    DescendantsMarked
PROPERTIES
    AdoptedByNearest
