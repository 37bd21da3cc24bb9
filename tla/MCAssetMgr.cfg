SPECIFICATION Spec
CONSTANTS
    None = None
    Sessions = {s1, s2}
    Urls = {"u1", "u2", "u3/"}
    FileName <- MCDistinct
    Chunks = 2
    MaxUrls = 2
    MaxCommands = 3
    MaxCrashes = 1
    MaxDeletes = 0
    DiskMayFill = FALSE
SYMMETRY Symmetry
CHECK_DEADLOCK FALSE
INVARIANTS
    TypeOK
    CacheIsTrue
PROPERTIES
    PathHoldsAsset
