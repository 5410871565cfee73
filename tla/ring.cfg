SPECIFICATION Spec
CONSTANTS
    Buffers = {a, b}
    Blocks = {d1, d2}
    Capacities = {1, 3}
    Values = {x, y}
    Raw = Raw
    Null = Null
    ClearUpTo = 1
    MayThrow = TRUE
SYMMETRY Interchangeable
INVARIANTS OneOwner WindowIsLive
PROPERTY ImplementsDeque
CHECK_DEADLOCK FALSE
