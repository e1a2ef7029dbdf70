SPECIFICATION Spec
CONSTANTS
    LitBits = 2
    Lc = 1
    Lp = 0
    Pb = 1
    LenLowBits = 1
    LenHighBits = 1
    PosSlotBits = 3
    EndPosModelIndex = 6
    AlignBits = 1
    DicMinBits = 2
    DictSize = 12
    NumFastBytes = 5
    Levels = {1, 9}
    CutBases = {1, 16}
    NumOpts = 9
    OptReserve = 3
    NearBits = 1
    DataSet <- MCData
INVARIANTS
    MatchesTrue
    FindsLongest
    LookaheadFits
    OptTable
PROPERTIES
    Implements
CHECK_DEADLOCK FALSE
