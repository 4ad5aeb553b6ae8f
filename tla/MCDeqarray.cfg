SPECIFICATION Spec
CONSTANTS
    a = a
    b = b
    Uninit = Uninit
    Cap = 3
    Value <- MCValue
INVARIANTS
    TypeOK
    LiveInitialised
    SizeAgrees
PROPERTIES
    ImplementsDeque
    ForeachInOrder
