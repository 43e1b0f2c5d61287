CONSTANTS
    Tasks = {1, 2}
    First = {1}
    CloneFlags = {{}}
    UnshareFlags = {{"NEWUSER", "NEWNS"}}
    RLIMIT_NPROC = 3
    max_threads = 5
    MaxUnshares = 1
SPECIFICATION Spec
INVARIANTS
    CountsExact
CHECK_DEADLOCK FALSE
