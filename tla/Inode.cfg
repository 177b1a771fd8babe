SPECIFICATION Spec
CONSTANTS
    Process = {p, q}
    Inum = {1, 2, 3}
    ROOTINO = 1
    a = a
    b = b
    Name = {a}
    Dot = Dot
    DotDot = DotDot
    None = None
    Paths <- SomePaths
SYMMETRY Symmetry
INVARIANTS RefsAreHolders LinksAreCounted RemovedIsFreed CacheIsDisk NoPanic NoCircularWait
