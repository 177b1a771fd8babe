SPECIFICATION FairSpec
CONSTANTS
    Worker = {w1}
    Conn = {c1, c2, c3}
    BufferSize = 2
    SchedAlg = "FIFO"
    Size = {1}
    NoFile = NoFile
    NotGet = NotGet
    Asked = {1}
    Main = Main
    None = None
    MaxSpurious = 1
PROPERTIES ImplementsRequestQueue EveryClientAnswered
CHECK_DEADLOCK FALSE
