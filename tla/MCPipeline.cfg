SPECIFICATION FairSpec
CONSTANTS
    CompMem = 4
    CompThreads = 2
    SizeLen = 2
    PropsLen = 1
    EncMem = 8
    EncThreads = 2
    Block = 4
    ByteMax = 9
    GarbledSizes <- MCGarbledSizes
    Huge = 99
    Sizes <- MCSizes
INVARIANTS
    RoundTrip
    DamageContained
    UndefinedOnlyWhenCut
PROPERTIES
    FailsAtEdgesOnly
CHECK_DEADLOCK FALSE
