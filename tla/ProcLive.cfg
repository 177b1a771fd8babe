SPECIFICATION FairSpec
CONSTANTS
    NPROC = 3
    NCPU = 2
    NPages = 6
    MaxSz = 1
    MaxPid = 3
    Calls = {"fork", "exit", "wait", "exec", "kill", "sleep"}
    KillPids = {2, 3}
    JoinFirst = FALSE
    None = None
INVARIANTS OnlySetupkvmLeaks
PROPERTIES KilledExits OrphansReaped
