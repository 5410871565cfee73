SPECIFICATION Spec
CONSTANTS
    Buffers = {a, b}
    Blocks = {d1, d2}
    Capacities = {1, 3}
    Values = {x, y}
    Raw = Raw
    Null = Null
    ClearUpTo = 3
    MayThrow = TRUE
INVARIANT PopFindsAnElement
CHECK_DEADLOCK FALSE
