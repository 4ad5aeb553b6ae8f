SPECIFICATION Spec
CONSTANTS
    MaxCalls = 2
    MaxNest = 2
    JumpOut = TRUE
PROPERTY
    HandledInnermost
CHECK_DEADLOCK FALSE
