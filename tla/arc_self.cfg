SPECIFICATION Spec
CONSTANTS
    Threads = {t1, t2, t3}
    Handles = {h1, h2, h3, h4}
    Reps = {r1, r2}
    Null = Null
    Moves = FALSE
    SelfAssign = TRUE
SYMMETRY Interchangeable
INVARIANTS NeverEmpty
CHECK_DEADLOCK FALSE
