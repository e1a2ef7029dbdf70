SPECIFICATION FairSpec
CONSTANTS
    ChunkMem = 3
    MaxThreads = 3
    Sizes <- MCSizes
    FaultSets <- AllFaults
INVARIANTS
    WorkersJoined
CHECK_DEADLOCK FALSE
