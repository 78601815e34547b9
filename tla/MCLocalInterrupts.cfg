SPECIFICATION Spec
CONSTANTS
    N = 2
    IntcsFirst = TRUE
INVARIANTS
    TrapsLand
    TimerUsable
PROPERTY RegisteredStays
CHECK_DEADLOCK FALSE
