SPECIFICATION FairSpec
CONSTANTS
    Threads = {p1, p2, c1, c2, c3, k}
    Producers = {p1, p2}
    Consumers = {c1, c2, c3}
    Closers = {k}
    Clearers = {k}
    Values = {a}
    Bounded = TRUE
    Sp = FALSE
    Sc = FALSE
    Max = 2
    Backlog = 0
    MayThrow = {}
INVARIANTS
    TypeOK
    NoStrandedPop
    NoStrandedEmplace
    NoSleepAfterClose
PROPERTIES OnlyDrainsAfterClose ImplementsQueue CallsReturnAfterClose
CHECK_DEADLOCK FALSE
