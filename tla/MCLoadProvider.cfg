SPECIFICATION Spec
CONSTANTS
    None = None
    Capacity = 1
    MaxRequests = 2
    Requests <- MCRequests
CHECK_DEADLOCK FALSE
INVARIANT
    FailedLoadIsAnError
