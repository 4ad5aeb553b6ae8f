SPECIFICATION PatsSpec
CONSTANTS
    n1 = n1
    n2 = n2
    f1 = f1
    f2 = f2
    Main = Main
    NoItem = NoItem
    Name <- MCName
    File <- MCFile
    MaxDecls = 4
SYMMETRY
    Symmetry
INVARIANTS
    ToplevelScopeEnds
CHECK_DEADLOCK FALSE
