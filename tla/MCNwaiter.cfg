SPECIFICATION Spec
CONSTANTS
    k1 = k1
    k2 = k2
    k3 = k3
    Ticket <- MCTicket
    Rounds = 1
    Overlapping = TRUE
INVARIANT
    MutexIsLocked
CHECK_DEADLOCK FALSE
