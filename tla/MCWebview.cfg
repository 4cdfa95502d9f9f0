CONSTANTS
    Epoch = {e1, e2}
    Call = {i1}
    MaxConns = 2
    MaxCalls = 3
    MaxFrames = 2
    InCap = 1
    OutCap = 1
    NoCall = NoCall
SPECIFICATION FairSpec
CHECK_DEADLOCK FALSE
INVARIANTS
    TypeOK
    SuccessorKeepsServing
    NothingOutlivesRelease
PROPERTIES
    FrameReturns
    ReleaseCompletes
