SPECIFICATION Spec
CONSTANTS
    NPROC = 4
    NCPU = 2
    NPages = 8
    MaxSz = 1
    MaxPid = 4
    Calls = {"fork", "clone", "exit", "wait"}
    KillPids = {}
    JoinFirst = FALSE
    None = None
PROPERTIES FreedOnce
