CONSTANTS
    Browser = {b1, b2}
    Sid = {s1, s2}
    Uid = {u1}
    Aid = {a1}
    Req = {r1, r2}
    GuestTTL = 1
    UploadTTL = 1
    AnalysisTTL = 1
    Limit = 1
    Window = 1
    Horizon = 2
    Drain = 0
    None = None
SPECIFICATION Spec
SYMMETRY Symmetry
INVARIANTS TypeOK Isolation AnalysisFollowsUpload
PROPERTIES NoRevival LiveScopesKeepCount
CHECK_DEADLOCK FALSE
