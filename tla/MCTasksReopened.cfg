CONSTANTS
    Task = {t1}
    Watcher = {w1}
    Terminal = {Completed}
    Time = {1}
    Cap = 1
    Backlog = 6
    MaxReconnects = 1
SPECIFICATION FairSpec
CHECK_DEADLOCK FALSE
PROPERTIES
    ReopenedListIsLive
