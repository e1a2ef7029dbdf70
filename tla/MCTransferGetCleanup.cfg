SPECIFICATION Spec
CONSTANTS
    f1 = f1
    va = va
    vb = vb
    None = None
    Spoiled = Spoiled
    Files <- MCFiles
    Contents <- MCContents
    ClientStores <- ClientMay
    ServerStores <- ServerMay
    Blocks = 2
    DHRounds = 2
    MaxCmds = 1
    FaultSets <- FaultsNone
INVARIANTS
    FailedGetCleansUp
CHECK_DEADLOCK FALSE
