SPECIFICATION MCSpec
CONSTANTS
    n1 = n1
    n2 = n2
    f1 = f1
    f2 = f2
    f3 = f3
    Main = Main
    NoItem = NoItem
    Name <- MCName
    File <- MCFile
    MaxDecls = 4
    SourceFile <- MCSourceFile
    MaxSource = 3
    MaxInputs = 2
    MaxCalls = 3
    MaxNest = 3
SYMMETRY
    Symmetry
INVARIANTS
    TypeOK
    StacksSuffice
    OpenedLoaded
    CyclesRefused
    CurrentFile
PROPERTIES
    LoadedOnce
    ImplementsLexicalScope
    HandledInnermost
CHECK_DEADLOCK FALSE
