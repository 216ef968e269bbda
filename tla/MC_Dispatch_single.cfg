CONSTANTS
    k1 = k1
    k2 = k2
    c1 = c1
    c2 = c2
    Keys = {k1}
    Callers = {c1}
    KeyOf <- MC_KeyOfSingle
    MaxCalls = 2
    Configs <- MC_Configs
SPECIFICATION Spec
INVARIANT FeeShapeConsistent
CHECK_DEADLOCK FALSE
