CONSTANTS
    root = root
    e1 = e1
    e2 = e2
    t1 = t1
    none = none
    d1 = d1
    d2 = d2
    Root <- root
    None <- none
    EphemeralKeys <- MC_EphemeralKeys
    Envs <- MC_Envs
    Tomls <- MC_AllTomls
    InitialPools <- MC_InitialPools
    MaxKeys = 3
    Deployers = {d1, d2}
    Entries <- MC_Entries
    Attempts = 3
    Commands <- MC_Commands
    Flags <- MC_Flags
SPECIFICATION Spec
INVARIANT TypeOK
INVARIANT FundedOnSuccess
INVARIANT DeployedOnSuccess
INVARIANT TraceNeverFunds
PROPERTY ConstructionReturns
PROPERTY DeployReturns
CHECK_DEADLOCK FALSE
