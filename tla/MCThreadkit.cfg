SPECIFICATION MCSpec
CONSTANTS
    Thread <- MCThread
    Cap = 2
    Programs <- MCPrograms
    ListThread <- MCListThread
    Element <- MCElement
    Reference <- MCReference
    First = r1
    Ticket <- MCTicket
    Rounds = 2
    p1 = p1
    p2 = p2
    c1 = c1
    c2 = c2
    t1 = t1
    t2 = t2
    t3 = t3
    x1 = x1
    x2 = x2
    x3 = x3
    r1 = r1
    r2 = r2
    r3 = r3
    r4 = r4
    r5 = r5
    k1 = k1
    k2 = k2
    k3 = k3
    None = None
    NoThread = NoThread
INVARIANTS
    TypeOK
    Fifo
    NoLostWakeup
    TakerAwake
    CountAgrees
    WaitedForAll
    LockedUnlessMet
    NotFreedUnlessMet
PROPERTIES
    ImplementsQueue
    ImplementsStack
    AllReturn
CHECK_DEADLOCK FALSE
