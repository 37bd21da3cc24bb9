SPECIFICATION FairSpec
CONSTANTS
    None = None
    Sessions = {s1, s2}
    Urls = {"u1", "v1"}
    FileName <- MCShared
    Chunks = 2
    MaxUrls = 2
    MaxCommands = 3
    MaxCrashes = 1
    MaxDeletes = 1
    DiskMayFill = TRUE
CHECK_DEADLOCK FALSE
INVARIANTS
    AssetsAreWhole
PROPERTIES
    NeverReplaced
    CommandsAreServed
