SPECIFICATION Spec
CONSTANTS
    N = 1
    Cap = 2
    MaxCalls = 4
    Programs <- MCPrograms
    NoThread = NoThread
INVARIANT
    CountAgrees
CHECK_DEADLOCK FALSE
