SPECIFICATION Spec
CONSTANTS
    a = a
    b = b
    Uninit = Uninit
    Cap = 3
    Value <- MCValue
INVARIANT ForeachVisitsElements
