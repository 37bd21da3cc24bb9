SPECIFICATION Spec
CONSTANTS
    None = None
    Hosts = {"a", "b"}
    Paths = {"1", "2"}
    MaxLength = 4
    Buffers = {2, 3}
    Remotes <- MCRedirects
CHECK_DEADLOCK FALSE
PROPERTIES
    LocationsAreResolved
