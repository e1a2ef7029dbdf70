SPECIFICATION FairSpec
CONSTANTS
    ChunkMem = 3
    MaxThreads = 3
    Sizes <- MCSizes
    FaultSets <- NoFaults
INVARIANTS
    SlotsSuffice
CHECK_DEADLOCK FALSE
