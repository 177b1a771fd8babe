SPECIFICATION Spec
CONSTANTS
    NPROC = 4
    NCPU = 2
    NPages = 9
    MaxSz = 1
    MaxPid = 5
    Calls = {"fork", "clone", "exit", "wait", "join"}
    KillPids = {}
    JoinFirst = TRUE
    None = None
INVARIANTS NoUseAfterFree SlotsUnderConstruction
