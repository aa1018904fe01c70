SPECIFICATION PanelsSpec
CONSTANTS
    s1 = s1
    s2 = s2
    Contents <- MCContents
    MaxChanges <- MCMaxChanges
    MaxReloads = 1
    Scripts <- MCScripts
    AUTO_RUN_MAX_BYTES = 1
    MaxRequests = 3
    Queries = {"p", "q", "none"}
    NoPattern = "none"
    MaxSerial = 4
    Patterns <- MCPatterns
    ScanPatterns <- MCScanPatterns
    Samples <- MCSamples
    ChunkSizes = {1, 2, 3}
    MinLengths = {1, 2}
    MAX_RESULTS = 2
    columns = 2
    MaxHunks = 3
    MaxHunkLen = 4
    CHUNK = 2
INVARIANTS
    InstancesKept
    MatchesAreOfQuery
    FindIsExact
    ListIsOfQuery
    StringsAreExact
    DriftIsRounding
PROPERTIES
    TemplatesCatchUp
    EveryRequestServed
    DiffCatchesUp
    ReplaceAllIsExact
    ResizeIsAgreed
CHECK_DEADLOCK FALSE
