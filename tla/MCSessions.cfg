SPECIFICATION MCSpec
CONSTANTS
    N = 3
    Cap = 2
    MaxCalls = 5
    Programs <- MCPrograms
    NoThread = NoThread
    nrole = 3
    MaxChannels = 7
    Plans <- MCPlans
INVARIANTS
    FreedSafely
    SerialCountAgrees
    LinksAgree
PROPERTIES
    ImplementsWire
    AllReturn
CHECK_DEADLOCK FALSE
