CONSTANTS
    k1 = k1
    k2 = k2
    c1 = c1
    c2 = c2
    Keys = {k1}
    Callers = {c1, c2}
    KeyOf <- MC_KeyOfShared
    MaxCalls = 1
    Configs <- MC_Configs
SPECIFICATION Spec
INVARIANT ProtectionPreventsStacking
PROPERTY CallsReturn
CHECK_DEADLOCK FALSE
