SPECIFICATION Spec
CONSTANTS
    B = 3
    LatestChoices <- MC_LatestChoices
    ChanLimit <- MC_ChanLimit
    Word <- MC_Word
INVARIANT WindowUniqueByNumber
CHECK_DEADLOCK FALSE
