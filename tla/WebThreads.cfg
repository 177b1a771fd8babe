SPECIFICATION Spec
CONSTANTS
    Worker = {w1, w2}
    Conn = {c1, c2, c3}
    BufferSize = 2
    SchedAlg = "SFNF"
    Size = {0}
    NoFile = NoFile
    NotGet = NotGet
    Asked = {0, NoFile, NotGet}
    Main = Main
    None = None
    MaxSpurious = 1
SYMMETRY Symmetry
INVARIANTS CapacityRespected NoLostSignalFull NoLostSignalEmpty EveryWaitHasAChild
PROPERTIES ImplementsRequestQueue
CHECK_DEADLOCK FALSE
