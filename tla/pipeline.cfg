SPECIFICATION Spec
CONSTANTS
    N = 4
    Max1 = 2
    Max2 = 1
    t0 = t0
    t1 = t1
    t2 = t2
    None = None
INVARIANTS NothingLostOrReordered
PROPERTY Terminates
CHECK_DEADLOCK FALSE
