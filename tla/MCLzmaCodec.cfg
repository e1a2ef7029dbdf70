SPECIFICATION Spec
CONSTANTS
    Base = 8
    kBitModelTotal = 16
    MoveStep = 4
    LitBits = 2
    Lc = 1
    Lp = 0
    Pb = 1
    LenLowBits = 1
    LenHighBits = 1
    PosSlotBits = 3
    EndPosModelIndex = 6
    AlignBits = 1
    DicMinBits = 2
    DictSize = 9
    LZMA_REQUIRED_INPUT_MAX = 9
    DataSet <- MCData
    Changes = {1, 4}
INVARIANTS
    CarryFits
    RoundTrip
    CutRefused
    StaysInOutput
    DryRunAgrees
CHECK_DEADLOCK FALSE
