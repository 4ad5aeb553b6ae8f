SPECIFICATION Spec
CONSTANTS
    x = x
    y = y
    gen = gen
    spec = spec
    None = None
    Away = Away
    Var <- MCVar
    Type <- MCType
    Sub <- MCSub
    MaxDepth = 3
    Rules = {"break"}
SYMMETRY
    Symmetry
INVARIANTS
    Sound
CHECK_DEADLOCK FALSE
