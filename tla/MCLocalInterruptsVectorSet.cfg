SPECIFICATION Spec
CONSTANTS
    N = 2
    IntcsFirst = FALSE
INVARIANT VectorSet
CHECK_DEADLOCK FALSE
