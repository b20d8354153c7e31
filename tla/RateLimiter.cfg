CONSTANTS
    Owner = {g1, g2}
    Limit = 2
    Window = 3
    Second = 2
    Horizon = 7
SPECIFICATION FairSpec
INVARIANTS TypeOK RollingLimit RetrySuffices
PROPERTIES ScopesFade
CHECK_DEADLOCK FALSE
