----------------------------- MODULE LzmaFormat -----------------------------
(***************************************************************************)
(* What the LZMA encoder and decoder of src/src/lzma/ must agree on: the   *)
(* widths of the fields of the stream, as LzmaEnc.c and LzmaDec.c #define  *)
(* them each for itself, and the five bytes of properties that go with a   *)
(* compressed chunk.  The widths are constants in order to be small enough *)
(* to check; their values in the code are given beside them.               *)
(*                                                                         *)
(* A bit of the stream has the name of its probability, a tuple of the     *)
(* name of an array, which of several it is (two numbers), and the place   *)
(* in the array.                                                           *)
(***************************************************************************)
EXTENDS Integers

CONSTANTS
    LitBits,           \* bits of a byte of the data (8)
    Lc, Lp, Pb,        \* literal context, literal position, position bits (3, 0, 2)
    LenLowBits,        \* kLenNumLowBits (3)
    LenHighBits,       \* kLenNumHighBits (8)
    PosSlotBits,       \* kNumPosSlotBits (6)
    EndPosModelIndex,  \* kEndPosModelIndex (14)
    AlignBits,         \* kNumAlignBits (4)
    DicMinBits,        \* LZMA_DIC_MIN is 2 to this power (12)
    DictSize           \* the encoder's dictionary (COMP_DICT_SIZE, 2^24)

kNumStates == 12
kNumLitStates == 7
kNumLenToPosStates == 4
kStartPosModelIndex == 4
kMatchMinLen == 2
kLenNumLowSymbols == 2 ^ LenLowBits
kLenNumHighSymbols == 2 ^ LenHighBits
LZMA_MATCH_LEN_MAX == kMatchMinLen + 2 * kLenNumLowSymbols + kLenNumHighSymbols - 1
kNumFullDistances == 2 ^ (EndPosModelIndex \div 2)
EndMarkDistance == 2 ^ (2 ^ (PosSlotBits - 1)) - 1  \* all ones, 0xFFFFFFFF
LitSize == 2 ^ LitBits
RC_INIT_SIZE == 5
kNumReps == 4

\* Lengths, distances and the unit of a large dictionary's size are numbers of 32 bits
\* at most, and the distances of the encoder stay below the one that is the end marker.
ASSUME FormatAssumption ==
    /\ {LitBits, LenLowBits, LenHighBits} \subseteq 1 .. 32 /\ DicMinBits \in 1 .. 24
    /\ {PosSlotBits, AlignBits} \subseteq Nat \ {0}
    /\ {Lp, Pb} \subseteq Nat /\ Lc \in 0 .. LitBits
    /\ EndPosModelIndex \in Nat /\ EndPosModelIndex % 2 = 0
    /\ EndPosModelIndex > kStartPosModelIndex
    /\ AlignBits < EndPosModelIndex \div 2 - 1
    /\ PosSlotBits <= 6
    /\ DictSize \in 1 .. EndMarkDistance

(***************************************************************************)
(* Operators both sides compute alike.                                     *)
(***************************************************************************)
\* probs + m, for an array of probabilities or a place in one.
Node(probs, m) == [probs EXCEPT ![4] = @ + m]

PosState(pb, pos) == pos % 2 ^ pb
\* LIT_PROBS: which set of literal probabilities follows the byte before.
LitContext(lc, lp, pos, before) ==
    (pos % 2 ^ lp) * 2 ^ lc + before \div 2 ^ (LitBits - lc)

(***************************************************************************)
(* Properties: LzmaEnc_WriteProperties and LzmaProps_Decode.  The size of  *)
(* the dictionary is rounded up to 2^n or 3 * 2^n, at least LZMA_DIC_MIN.  *)
(***************************************************************************)
RoundedSize(i) == (2 + (i % 2)) * 2 ^ (i \div 2)
WriteProperties ==
    [d |-> (Pb * 5 + Lp) * 9 + Lc,
     dict |-> LET unit == 2 ^ (DicMinBits + 8)
                  i == CHOOSE i \in 2 * DicMinBits - 2 .. 64 :
                        /\ RoundedSize(i) >= DictSize
                        /\ \A j \in 2 * DicMinBits - 2 .. i - 1 : RoundedSize(j) < DictSize
              IN  IF DictSize >= 2 * unit THEN ((DictSize + unit - 1) \div unit) * unit
                  ELSE RoundedSize(i)]

PropsSupported(props) == props.d < 9 * 5 * 5
PropsDecode(props) ==
    [lc |-> props.d % 9, lp |-> (props.d \div 9) % 5, pb |-> props.d \div 45,
     dicSize |-> IF props.dict < 2 ^ DicMinBits THEN 2 ^ DicMinBits ELSE props.dict]
=============================================================================
