CONSTANTS
    Usual <- MCUsual
    Unusual <- MCUnusual
    MaxUnusual <- MCMaxUnusual
    Errors = {8, 20, 40}
    None = None
SPECIFICATION Spec
INVARIANTS TypeOK OnlyFinishedConsecutiveMonths TestedAlike TrustIsEarned SpikesDoNotMask
    LargeFallsComeFirst
PROPERTIES MoreHistoryNeverHurts
CHECK_DEADLOCK FALSE
