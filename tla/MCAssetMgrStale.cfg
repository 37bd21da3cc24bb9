SPECIFICATION Spec
CONSTANTS
    None = None
    Sessions = {s1, s2}
    Urls = {"u1", "u2"}
    FileName <- MCTwo
    Chunks = 2
    MaxUrls = 2
    MaxCommands = 2
    MaxCrashes = 0
    MaxDeletes = 1
    DiskMayFill = FALSE
SYMMETRY Symmetry
CHECK_DEADLOCK FALSE
PROPERTIES
    PathIsAFile
