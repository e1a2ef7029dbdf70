SPECIFICATION Spec
CONSTANTS
    dh_p = 127
    dh_g = 5
    Words = 4
    WordSize = 128
    IntSize = 16384
    Draws <- MCDraws
    Texts <- MCTexts
INVARIANTS
    NoOverflow
    SameKey
    BlocksBack
CHECK_DEADLOCK FALSE
