CONSTANTS
    Req = {r1, r2}
    Call = {c1, c2}
    Answerer = {a1, a2}
    Kept = 1
    None = None
SPECIFICATION Spec
CHECK_DEADLOCK FALSE
PROPERTIES
    ClearSparesTheNext
