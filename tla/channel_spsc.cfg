SPECIFICATION FairSpec
CONSTANTS
    Threads = {p1, c1, k}
    Producers = {p1}
    Consumers = {c1}
    Closers = {k, p1}
    Clearers = {k}
    Values = {a, b}
    Bounded = TRUE
    Sp = TRUE
    Sc = TRUE
    Max = 2
    Backlog = 0
    MayThrow = {"emplace", "pop"}
PROPERTY ImplementsQueue
CHECK_DEADLOCK FALSE
