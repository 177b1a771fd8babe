SPECIFICATION Spec
CONSTANTS
    IMAP_SIZE = 2
    MAX_IMAPS = 2
    MAX_DIRECT_P = 2
    MAX_DIR_ENTRIES = 2
    Name = {a, b, c}
    Dot = Dot
    DotDot = DotDot
    Data = {x}
    Fail = Fail
    None = None
    CRBlock <- OtherNames
    MaxLog = 20
    MaxCrashes = 1
INVARIANTS ReachableIsLogged OneOwner DirectoriesMakeATree
 
SYMMETRY NamesAlike
CHECK_DEADLOCK FALSE
