CONSTANTS
    Priorities <- MC_Priorities
    FeeLevels <- MC_FeeLevels
    Metrics <- MC_Metrics
    TipCaps <- MC_TipCaps
    PriceCaps <- MC_PriceCaps
    B = 3
    LatestChoices <- MC_LatestChoices
    ChanLimit <- MC_ChanLimit
    Word <- MC_Word
    nan = nan
    NaN <- nan
    GasRatio <- MC_GasRatio
    BaseFee <- MC_BaseFee
    Weights <- MC_Weights
SPECIFICATION Spec
INVARIANT TypeOK
INVARIANT MonotoneInPriority
INVARIANT NewestFirstIsSpecMean
PROPERTY EstimationReturns
CHECK_DEADLOCK FALSE
