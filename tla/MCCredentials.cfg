CONSTANTS
    Daemon = {d1, d2}
    Key = {k1, k2}
    Secret = {s1, s2}
    NoSecret = NoSecret
    LoginKey = {k2}
    NoDaemon = NoDaemon
    MaxTime = 2
    MaxWrites = 3
    MaxCrashes = 1
SPECIFICATION Spec
SYMMETRY SyncSymmetry
CHECK_DEADLOCK FALSE
INVARIANTS
    TypeOK
    StaysInTheGroup
    AckedIsHeld
    AgreeWhenNothingToSend
    JournalIsTrue
