SPECIFICATION Spec
CONSTANTS
    Null = Null
    Absent = Absent
    Closed = Closed
    Pending = Pending
    NoValue = NoValue
    Unset = Unset
    Rests = Rests
    AddressSpace = 16
    Alignments = {1, 2, 4, 8}
    MaxBlocks = 3
    Streams = {s1, s2, s3}
    Files = {f1, f2}
    FileSizes = {0, 3}
    MaxLen = 4
    Chunk = 2
    Base = 2
    MaxSize = 3
    Dsos = {d1, d2, d3}
    Libraries = {l1, l2}
    MaxRefs = 3
    TypeSizes = {4, 8, 16}
    IntSize = 8
    Threads = {t1, t2}
    Dirs = {"config", "data", "state"}
    Settings <- SomeSettings
    Homes <- SomeHomes
    UserEntries <- SomeEntries
    Trees <- SomeTrees
INVARIANTS
    BlocksAreApart
    OneFileOneOwner
    LengthIsOfThisFile
    PatchInPlace
    CopyIsFaithful
    NumbersTravel
    LoadedWhileHeld
    CastIsExact
    CodeInterleaves
    CreatedBeforeReturn
PROPERTY CursorInBounds
CHECK_DEADLOCK FALSE
