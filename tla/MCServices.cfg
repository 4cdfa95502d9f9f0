CONSTANTS
    NumServices = 1
    Pid = {p1, p2}
    NoPid = NoPid
    MaxRetries = 1
    MaxStartReqs = 1
SPECIFICATION FairSpec
CHECK_DEADLOCK FALSE
INVARIANTS
    TypeOK
    NeverForgotten
    PidAbsentWhileDown
    SlotPidIsLive
    RestartsNeverOverlap
PROPERTIES
    GivesUpAtTheCeiling
    ExitIsNoticed
    BackoffEnds
    ShutdownReturns
