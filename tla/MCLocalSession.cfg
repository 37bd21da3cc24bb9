SPECIFICATION FairSpec
CONSTANTS
    None = None
    Capacity = 2
    MaxRequests = 3
    Requests <- MCRequests
CHECK_DEADLOCK FALSE
INVARIANTS
    TypeOK
    OneAnswerEach
    OneOwner
PROPERTIES
    HandoverIsFinal
    LeavingEndsSession
    RequestsAreAnswered
