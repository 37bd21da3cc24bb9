SPECIFICATION FairSpec
CONSTANTS
    None = None
    Hosts = {"a", "b"}
    Paths = {"1", "2"}
    MaxLength = 4
    Buffers = {2, 3}
    Remotes <- MCRemotes
CHECK_DEADLOCK FALSE
INVARIANTS
    EachChunkFull
PROPERTIES
    StreamSpec
    DownloadEnds
