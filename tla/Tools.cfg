CONSTANTS
    p = p
    q = q
    Null = Null
    Subjects = {"tools", "fill", "editor"}
    MaxWord = 15
    MaxUnsigned = 3
    MiB = 4
    PageSize = 2
    VaAlign = 4
    Threads = 2
    MaxBlocks = 2
    Ids = {0}
    Identifiers = {p, q}
    Regions <- MCRegions
    Suffixes = {1, 4}
    U64 = 2
    FreeAreas = {2, 4, 6}
    GpuCount = 2
    FreeBytes = {3, 13}
    FillArguments = {0, 1, 4}
    VerifyBytes = 8
    FirstCapacity = 1
    MaxAllocations = 4
    Chars = {"x", " "}
    MaxLine = 2
    MaxHistory = 2
SPECIFICATION Spec
INVARIANTS
    TypeOK
    AccessCovered
    MappedInsideRoom
    AttachedWhileMapped
    NothingLeft
    EveryByteOnce
    OpensWhatWasNamed
    ResidentListed
    SuccessMeansIntact
    ScreenMatches
    DraftReturns
PROPERTIES
    StopEnds
    FillStops
CHECK_DEADLOCK FALSE
