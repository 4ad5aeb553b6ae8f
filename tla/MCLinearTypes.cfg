SPECIFICATION Spec
CONSTANTS
    x = x
    y = y
    gen = gen
    spec = spec
    None = None
    Away = Away
    Var <- MCVar
    Type <- MCType
    Sub <- MCSub
    MaxDepth = 3
    Rules = {"try", "break"}
SYMMETRY
    Symmetry
INVARIANTS
    TypeOK
    Sound
PROPERTIES
    Untouched
CHECK_DEADLOCK FALSE
