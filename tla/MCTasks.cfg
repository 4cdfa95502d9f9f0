CONSTANTS
    Task = {t1, t2}
    Watcher = {w1}
    Terminal = {Completed}
    Time = {1}
    Cap = 1
    Backlog = 1
    MaxReconnects = 1
SPECIFICATION FairSpec
CHECK_DEADLOCK FALSE
INVARIANTS
    TypeOK
    CapIsKept
    WatcherMissesNothing
PROPERTIES
    OnlyTheEndedLeave
    EndedTasksLeave
    GhostsVanish
