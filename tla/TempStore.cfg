CONSTANTS
    Owner = {o1, o2}
    Id = {i1, i2}
    Worker = {w1, w2}
    TTL = 1
    Horizon = 2
    None = None
SPECIFICATION FairSpec
INVARIANTS TypeOK Isolation NeverStale LossJustified
PROPERTIES EventuallyRemoved KeepsPromise
CHECK_DEADLOCK FALSE
