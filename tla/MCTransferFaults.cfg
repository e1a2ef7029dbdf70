SPECIFICATION FairSpec
CONSTANTS
    f1 = f1
    va = va
    vb = vb
    None = None
    Spoiled = Spoiled
    Files <- MCFiles
    Contents <- MCContents
    ClientStores <- ClientMay
    ServerStores <- ServerMay
    Blocks = 2
    DHRounds = 2
    MaxCmds = 2
    FaultSets <- FaultsHard
INVARIANTS
    ControlLockStep
    KeysAgree
    GetWhole
    PutWhole
    RepliesMatch
    TempsCleared
    SessionInv
PROPERTIES
    StoredWhole
    ServiceSpec
    ChildEnds
    CommandReturns
    QuitEnds
CHECK_DEADLOCK FALSE
