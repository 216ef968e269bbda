CONSTANTS
    k1 = k1
    k2 = k2
    c1 = c1
    c2 = c2
    Keys = {k1, k2}
    Callers = {c1, c2}
    KeyOf <- MC_KeyOfOwn
    MaxCalls = 2
    Configs <- MC_Configs
SPECIFICATION Spec
INVARIANT TypeOK
INVARIANT NoNonceClash
INVARIANT ProtectionPreventsStacking
INVARIANT FallbackVisible
CHECK_DEADLOCK FALSE
