SPECIFICATION Spec
CONSTANTS
    Process = {init, p, q}
    initproc = init
    PIPESIZE = 2
    UINT = 4
    a = a
    b = b
    Byte = {a, b}
    Junk = junk
    Buffers <- Writes
    Counts = {1, 2}
    None = None
INVARIANTS NoUseAfterClose NoLostWakeup
PROPERTIES BytesWakeReaders ImplementsByteStream
SYMMETRY ProcessesAlike
CHECK_DEADLOCK FALSE
