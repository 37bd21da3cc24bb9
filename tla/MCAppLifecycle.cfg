SPECIFICATION FairSpec
CONSTANTS
    t1 = t1
    t2 = t2
    t3 = t3
    IoThreads <- MCIoThreads
    Runner = runner
    MaxSessions = 2
INVARIANTS
    ThreadsSeeMembers
    RunEndsByStop
PROPERTIES
    SessionsAreServed
    DestructionEnds
