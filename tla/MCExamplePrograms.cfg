SPECIFICATION FairSpec
CONSTANTS
    None = None
    Capacity = 2
    MaxFaults = 2
INVARIANTS
    FailsForAReason
PROPERTIES
    PolledIsWanted
    ProgramEnds
