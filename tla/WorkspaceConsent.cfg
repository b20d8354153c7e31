CONSTANTS
    Settings = {m1, m2}
    WithStatus = {m2}
    Rules = {p1, p2}
    Upload = {u1, u2}
    Analysis = {a1, a2}
    Slot = {k1, k2}
    None = None
SPECIFICATION Spec
INVARIANT ConsentCoversAnalysis
