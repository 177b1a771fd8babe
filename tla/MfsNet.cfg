SPECIFICATION FairSpec
CONSTANTS
    Client = {p, q}
    Inum = {0, 1}
    Block = {0}
    Name = {a}
    Dot = Dot
    DotDot = DotDot
    Data = {x, y}
    a = a
    x = x
    y = y
    Requests <- SomeRequests
    DirCapacity = 3
    TooLong = TooLong
    Junk = Junk
    Fail = Fail
    None = None
    Lost = Lost
INVARIANTS OneDatagramPerCall
PROPERTIES OnlyLossStrands ImplementsRemoteTree
CHECK_DEADLOCK FALSE
