SPECIFICATION Spec
CONSTANTS
    Unset = Unset
    Threads = {t1, t2}
    Kinds = {"config", "data", "state"}
    Settings <- SomeSettings
    Homes <- SomeHomes
    UserEntries <- SomeEntries
    Trees <- SomeTrees
INVARIANT ReturnsStandardDirectory
CHECK_DEADLOCK FALSE
