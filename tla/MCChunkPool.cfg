SPECIFICATION FairSpec
CONSTANTS
    ChunkMem = 3
    MaxThreads = 3
    Sizes <- MCSizes
    FaultSets <- AllFaults
INVARIANTS
    TypeOK
    InOrder
    Complete
    OverrunOnlyAtFullBatch
PROPERTIES
    SequentialSpec
    SlotsNotReused
    UnalignedSucceeds
    Terminates
CHECK_DEADLOCK FALSE
