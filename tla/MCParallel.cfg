SPECIFICATION Spec
CONSTANTS
    caller = caller
    Problem <- MCProblem
    Sub <- MCSub
    Root = 1
    Base <- MCBase
    Solver <- MCWorker
    Cap = 1
    Streamer <- MCStreamer
    Size = 4
    Worker <- MCWorker
    Fwork <- MCFwork
    w1 = w1
    w2 = w2
    w3 = w3
    x1 = x1
    x2 = x2
    x3 = x3
    None = None
    NoThread = NoThread
INVARIANTS
    CellsWritten
    CounterAlive
    FrameOutlived
    HandedOnce
    WorkersListed
PROPERTIES
    ImplementsDivideConquer
    CallReturns
    WorkDone
CHECK_DEADLOCK FALSE
