SPECIFICATION FairSpec
CONSTANTS
    Process = {p, q}
    Buf = {b1, b2}
    Sector = {s1, s2, s3}
    Indirect = {s1}
    Data = {x, y}
    Zero = x
    None = None
INVARIANTS OneBufferPerSector OneUser NoLostWakeup SomebodyMoves
PROPERTIES TransfersEnd ImplementsSectorStore
CHECK_DEADLOCK FALSE
