CONSTANTS
    NumServices = 1
    Pid = {p1, p2}
    NoPid = NoPid
    MaxRetries = 1
    MaxStartReqs = 0
SPECIFICATION Spec
CHECK_DEADLOCK FALSE
PROPERTIES
    StopSuppressesRestart
