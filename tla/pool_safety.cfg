SPECIFICATION Spec
CONSTANTS
    Workers = {w1, w2}
    Clients = {c1, c2, o}
    Owner = o
    Enqueuers = {c1, c2, w1, w2}
    Stoppers = {c1}
    StoppersNow = {o}
    Waiters = {c2, o}
    Tasks = {j1, j2, j3, j4}
    MaxJobs = 2
    None = None
SYMMETRY Interchangeable
INVARIANTS
    TypeOK
    WorkingCount
    OnePlacePerTask
    NoStrandedTask
    NoStrandedEnqueuer
    NoStrandedWaiter
    NoSleepAfterStop
PROPERTIES OnlyDrainsAfterStop WaitAllMeansFinished ImplementsExecutorSteps
CHECK_DEADLOCK FALSE
