CONSTANTS
    Pid = {1, 2, 3}
    NoPid = NoPid
    ExitCode = {done, signalled}
    Waiter = {w1}
    Retained = 2
    MaxSpawns = 3
    Scoped = {1, 2}
    MaxRequests = 1
SPECIFICATION MCFairSpec
CHECK_DEADLOCK FALSE
INVARIANTS
    TypeOK
    TableMatchesKernel
    ReportedIsTrue
    QueueIsExact
    NoLostWakeup
PROPERTIES
    ScopesAreOfTheRunning
    LedgerSpec
    StoppedSessionEnds
