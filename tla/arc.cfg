SPECIFICATION Spec
CONSTANTS
    Threads = {t1, t2, t3}
    Handles = {h1, h2, h3, h4}
    Reps = {r1, r2}
    Null = Null
    Moves = TRUE
    SelfAssign = FALSE
SYMMETRY Interchangeable
INVARIANTS CountsHandles NoDangling LastOneDeletes
CHECK_DEADLOCK FALSE
