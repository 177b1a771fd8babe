SPECIFICATION Spec
CONSTANTS
    NPROC = 3
    NCPU = 2
    NPages = 5
    MaxSz = 2
    MaxPid = 4
    Calls = {"fork", "clone", "badclone", "exit", "wait", "join", "exec", "kill", "sbrk"}
    KillPids = {0, 1, 2, 3}
    JoinFirst = FALSE
    None = None
INVARIANTS ParentsAlive NoLostWakeup
CHECK_DEADLOCK FALSE
