SPECIFICATION Spec
CONSTANTS
    N = 2
    IntcsFirst = FALSE
INVARIANT TimerUsable
CHECK_DEADLOCK FALSE
