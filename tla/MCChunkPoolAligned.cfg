SPECIFICATION FairSpec
CONSTANTS
    ChunkMem = 3
    MaxThreads = 3
    Sizes <- MCSizes
    FaultSets <- NoFaults
INVARIANTS
    ErrorsHaveCauses
CHECK_DEADLOCK FALSE
