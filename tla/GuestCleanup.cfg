CONSTANTS
    Browser = {b1}
    Sid = {s1, s2}
    Uid = {u1, u2}
    Aid = {a1}
    Req = {r1}
    GuestTTL = 2
    UploadTTL = 1
    AnalysisTTL = 2
    Limit = 1
    Window = 1
    Horizon = 3
    Drain = 2
    None = None
SPECIFICATION FairSpec
PROPERTY NothingStays
CHECK_DEADLOCK FALSE
