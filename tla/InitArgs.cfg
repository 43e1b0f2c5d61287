CONSTANTS
    Arguments = {"a", "b", "c"}
    Variables = {"HOME", "X"}
    Values = {"1"}
    Known = {"mod.x"}
    MAX_INIT_ARGS = 2
    MAX_INIT_ENVS = 2
    MaxOptions = 4
    NULL = NULL
SPECIFICATION Spec
INVARIANTS EarlierIgnored
CHECK_DEADLOCK FALSE
