SPECIFICATION Spec
CONSTANTS
    Dsos = {d1, d2}
    Libraries = {l1}
    Null = Null
    Absent = Absent
    CloseOpen = TRUE
    MaxRefs = 2
INVARIANT ClosedOnce
CHECK_DEADLOCK FALSE
