CONSTANTS
    Browser = {b1}
    Sid = {s1, s2}
    Uid = {u1}
    Aid = {a1}
    Req = {r1}
    GuestTTL = 3
    UploadTTL = 1
    AnalysisTTL = 2
    Limit = 1
    Window = 1
    Horizon = 4
    Drain = 2
    None = None
SPECIFICATION Spec
INVARIANT DeletionsDoNotFail
CHECK_DEADLOCK FALSE
