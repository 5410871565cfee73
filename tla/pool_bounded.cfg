SPECIFICATION FairSpec
CONSTANTS
    Workers = {w1, w2}
    Clients = {c1, o}
    Owner = o
    Enqueuers = {c1, o}
    Stoppers = {}
    StoppersNow = {}
    Waiters = {c1}
    Tasks = {j1, j2, j3}
    MaxJobs = 1
    None = None
INVARIANT RemainingTasksRun
PROPERTIES ImplementsExecutor CallsReturn
CHECK_DEADLOCK FALSE
