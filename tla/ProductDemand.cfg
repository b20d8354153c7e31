CONSTANTS
    None = None
    HorizonDays = 2
    MeanWeeks = 2
    MinTraining = 4
    MinFolds = 2
    MinPreviewFolds = 3
    CrostonTotals = {4, 10}
    PerStratum = 2
    LateStart = 3
    HoldoutWeeks = 2
    BlockWeeks = 1
    BlockCount = 2
    Inputs <- MCInputs
    Exports <- MCExports
    PublicSales <- MCPublicSales
SPECIFICATION StudySpec
INVARIANTS TypeOK EvidenceIsComparable ShownEstimateIsEarned CategoryCountsEverySale
    NoRejectedResult ScoredAsShown PassedPolicyImproves
CHECK_DEADLOCK FALSE
