CONSTANTS
    Pid = {1, 2}
    NoPid = NoPid
    ExitCode = {ok, signalled}
    Waiter = {}
    Retained = 1
    MaxSpawns = 2
    Scoped = {}
    MaxRequests = 1
SPECIFICATION MCSpec
CHECK_DEADLOCK FALSE
PROPERTIES
    KillHitsItsSession
