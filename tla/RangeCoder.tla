----------------------------- MODULE RangeCoder -----------------------------
(***************************************************************************)
(* The binary range coder on which the LZMA codec rests: the encoder of    *)
(* src/src/lzma/LzmaEnc.c, which keeps back a byte that a carry may still  *)
(* change, and the decoder of src/src/lzma/LzmaDec.c, with the two ways it *)
(* reads a bit: for real, adapting the bit's probability, and as a dry run *)
(* that adapts nothing and stops at the end of the input.                  *)
(*                                                                         *)
(* The widths are constants, in the proportions of the code: bytes of 8    *)
(* bits, a 32-bit range, probabilities of 11 bits moved by 1/32.           *)
(***************************************************************************)
EXTENDS Integers, Sequences

CONSTANTS
    Base,            \* values of a byte of the coded stream (2^8 in the code)
    kBitModelTotal,  \* the probability 1 (2^11)
    MoveStep         \* 2^kNumMoveBits (2^5)

kTopValue      == Base * Base * Base
Word           == kTopValue * Base    \* 2^32
kProbInitValue == kBitModelTotal \div 2

\* The smallest value repeated ones can bring a probability to: the first one
\* that a MoveStep-th of it no longer moves.
LowestProb == MoveStep - 1

\* One renormalisation is enough after any bit.
ASSUME WidthAssumption ==
    /\ Base \in Nat \ {0} /\ Base % 2 = 0
    /\ MoveStep \in Nat \ {0} /\ kBitModelTotal \in Nat /\ 2 * MoveStep <= kBitModelTotal
    /\ kTopValue % kBitModelTotal = 0
    /\ LowestProb * Base >= kBitModelTotal

(***************************************************************************)
(* Probabilities: a function from the bits met so far, every other bit     *)
(* having the initial value.                                               *)
(***************************************************************************)
Prob(probs, key) == IF key \in DOMAIN probs THEN probs[key] ELSE kProbInitValue
Moved(t, bit) ==
    IF bit = 0 THEN t + (kBitModelTotal - t) \div MoveStep
               ELSE t - t \div MoveStep
Adapt(probs, key, bit) ==
    [k \in DOMAIN probs \cup {key} |->
        IF k = key THEN Moved(Prob(probs, key), bit) ELSE probs[k]]

(***************************************************************************)
(* Encoder.                                                                *)
(***************************************************************************)
RangeEnc_Init ==
    [range |-> Word - 1, low |-> 0, cache |-> 0, cacheSize |-> 0, out |-> <<>>]

\* Mutant: the carry changes the cached byte and not the full ones behind it.
ShiftLowNoRipple(rc) ==
    LET low == rc.low % Word
        high == rc.low \div Word IN
    IF low < Word - kTopValue \/ high # 0
    THEN [rc EXCEPT !.low = (low * Base) % Word,
                    !.out = Append(@, (rc.cache + high) % Base)
                            \o [i \in 1 .. rc.cacheSize |-> Base - 1],
                    !.cache = low \div kTopValue, !.cacheSize = 0]
    ELSE [rc EXCEPT !.low = (low * Base) % Word, !.cacheSize = @ + 1]

\* Mutant: a full byte is not kept back.
ShiftLowEager(rc) ==
    LET low == rc.low % Word
        high == rc.low \div Word IN
    [rc EXCEPT !.low = (low * Base) % Word, !.out = Append(@, (rc.cache + high) % Base),
               !.cache = low \div kTopValue]

\* The top byte of low leaves.  Unless a carry into it is still possible, the
\* cached byte and the full bytes behind it are written, with the carry.
RangeEnc_ShiftLow(rc) ==
    LET low == rc.low % Word
        high == rc.low \div Word IN
    IF low < Word - kTopValue \/ high # 0
    THEN [rc EXCEPT !.low = (low * Base) % Word,
                    !.out = Append(@, (rc.cache + high) % Base)
                            \o [i \in 1 .. rc.cacheSize |-> (Base - 1 + high) % Base],
                    !.cache = low \div kTopValue, !.cacheSize = 0]
    ELSE [rc EXCEPT !.low = (low * Base) % Word, !.cacheSize = @ + 1]

RC_NORM(rc) ==
    IF rc.range < kTopValue
    THEN RangeEnc_ShiftLow([rc EXCEPT !.range = @ * Base])
    ELSE rc

\* RC_BIT, given the bit's probability.
RC_BIT(rc, t, bit) ==
    LET newBound == (rc.range \div kBitModelTotal) * t IN
    RC_NORM(IF bit = 0 THEN [rc EXCEPT !.range = newBound]
            ELSE [rc EXCEPT !.range = @ - newBound, !.low = @ + newBound])

\* A bit without a probability, as the middle bits of long distances are sent.
RC_DIRECT(rc, bit) ==
    LET half == rc.range \div 2 IN
    RC_NORM([rc EXCEPT !.range = half, !.low = IF bit = 0 THEN @ ELSE @ + half])

RangeEnc_FlushData(rc) ==
    LET shifted[i \in 0 .. 5] ==
            IF i = 0 THEN rc
            ELSE LET before == shifted[i - 1] IN RangeEnc_ShiftLow(before)
    IN  shifted[5]

(***************************************************************************)
(* Decoder.  A cursor d has, besides range and code, the source src, the   *)
(* number buf of its bytes taken, the last bit decoded, and whether this   *)
(* is a dry run.  Reading past the end of the source is noted in d.over.   *)
(***************************************************************************)
NextDigit(d) == IF d.buf < Len(d.src) THEN d.src[d.buf + 1] ELSE 0
Take(d) ==
    [d EXCEPT !.range = @ * Base, !.code = (@ * Base + NextDigit(d)) % Word,
              !.buf = @ + 1, !.over = @ \/ d.buf >= Len(d.src)]

NORMALIZE(d) == IF d.range < kTopValue THEN Take(d) ELSE d

\* Narrows a normalised cursor by one bit of probability t, and by one bit
\* without; a dry run that has met the end of the input stays there.
Narrow(d, t) ==
    LET bound == (d.range \div kBitModelTotal) * t IN
    IF d.eof THEN d
    ELSE IF d.code < bound THEN [d EXCEPT !.range = bound, !.bit = 0]
    ELSE [d EXCEPT !.range = @ - bound, !.code = @ - bound, !.bit = 1]

Halve(d) ==
    LET half == d.range \div 2 IN
    IF d.eof THEN d
    ELSE IF d.code >= half THEN [d EXCEPT !.range = half, !.code = @ - half, !.bit = 1]
                           ELSE [d EXCEPT !.range = half, !.bit = 0]

\* UPDATE_0 and UPDATE_1: the probability follows the bit.
Update(d, key) == [d EXCEPT !.probs = Adapt(@, key, d.bit)]

GET_BIT(d, key) == Update(Narrow(NORMALIZE(d), Prob(d.probs, key)), key)
GET_DIRECT(d) == Halve(NORMALIZE(d))

\* The dry run: at the limit it gives up, and then nothing moves any more.
NORMALIZE_CHECK(d) ==
    IF d.eof \/ d.range >= kTopValue THEN d
    ELSE IF d.buf >= Len(d.src) THEN [d EXCEPT !.eof = TRUE] ELSE Take(d)

GET_BIT_CHECK(d, key) == Narrow(NORMALIZE_CHECK(d), Prob(d.probs, key))
GET_DIRECT_CHECK(d) == Halve(NORMALIZE_CHECK(d))

\* One bit, for real or in the dry run.
ReadBit(d, key) == IF d.dry THEN GET_BIT_CHECK(d, key) ELSE GET_BIT(d, key)
ReadDirect(d) == IF d.dry THEN GET_DIRECT_CHECK(d) ELSE GET_DIRECT(d)
=============================================================================
