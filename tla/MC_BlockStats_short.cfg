CONSTANTS
    nil = nil
    Nil <- nil
    StartChoices <- MC_StartChoices
    EndChoices <- MC_EndChoices
    Latests <- MC_Latests
    TimeSteps <- MC_TimeSteps
    TxCounts <- MC_TxCounts
    BaseFees <- MC_BaseFees
SPECIFICATION Spec
INVARIANT ShortRangeNoPanic
CHECK_DEADLOCK FALSE
