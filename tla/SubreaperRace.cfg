CONSTANTS
    Procs = {1, 2, 3}
    NsInits = {}
    Callers = {1, 2}
    Overlapping = TRUE
SPECIFICATION Spec
INVARIANTS
    DescendantsMarked
