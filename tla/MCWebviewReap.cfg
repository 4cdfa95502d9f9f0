CONSTANTS
    Epoch = {e1}
    Call = {i1}
    MaxConns = 1
    MaxFrames = 2
    MaxCalls = 3
    InCap = 1
    OutCap = 1
    NoCall = NoCall
SPECIFICATION FairSpec
CHECK_DEADLOCK FALSE
PROPERTY
    ReapCompletes
