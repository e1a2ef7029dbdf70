------------------------------ MODULE LzmaDec -------------------------------
(***************************************************************************)
(* The LZMA decoder of one chunk (src/src/lzma/LzmaDec.c, LzmaUncompress): *)
(* LzmaDec_DecodeToDic either decodes in bulk, while more input is left    *)
(* than the longest symbol can take, or tries each symbol on a copy of the *)
(* range coder first (LzmaDec_TryDummy) and decodes it for real when all   *)
(* of it is there.  The dictionary is the output buffer itself.            *)
(*                                                                         *)
(* One call of LzmaDec_DecodeToDic gets the whole input, so the part of it *)
(* that resumes from p->tempBuf is never reached.                          *)
(***************************************************************************)
EXTENDS LzmaFormat, RangeCoder

CONSTANTS
    LZMA_REQUIRED_INPUT_MAX  \* input that is enough for any symbol (20)

VARIABLES
    dec  \* the decoder: CLzmaDec, the locals of DecodeToDic, and the result

kMatchSpecLenStart == LZMA_MATCH_LEN_MAX + 1
kMatchSpecLen_Error_Data == 2 * kMatchSpecLenStart

kRange0 == Word - 1
kBound0 == (kRange0 \div kBitModelTotal) * (kBitModelTotal \div 2)
kBadRepCode == kBound0 + ((kRange0 - kBound0) \div kBitModelTotal) * (kBitModelTotal \div 2)

dicPos(d) == Len(d.dic)
InSize(d) == Len(d.src) - d.buf

\* The byte dist before the end of the output; d.stray records that there is
\* none.
Behind(d, dist) == IF dist \in 1 .. Len(d.dic) THEN d.dic[Len(d.dic) + 1 - dist] ELSE 0
Reached(d, dist) == [d EXCEPT !.stray = @ \/ dist \notin 1 .. Len(d.dic)]

CopyOne(d, dist) == [Reached(d, dist) EXCEPT !.dic = Append(@, Behind(d, dist)),
                                             !.processedPos = @ + 1]
CopyMatch(d, dist, n) ==
    LET copied[i \in 0 .. n] ==
            IF i = 0 THEN d ELSE LET before == copied[i - 1] IN CopyOne(before, dist)
    IN  copied[n]

(***************************************************************************)
(* Fields, as d reads bits (ReadBit); the value goes to d.sym.             *)
(***************************************************************************)
Shift(d) == [d EXCEPT !.sym = 2 * @ + d.bit]
AddBit(d, m) == [d EXCEPT !.sym = @ + m * d.bit]

TREE_GET_BIT(d, probs) == Shift(ReadBit(d, Node(probs, d.sym)))
TREE_DECODE(d, probs, n) ==
    LET at[i \in 0 .. n] ==
            IF i = 0 THEN [d EXCEPT !.sym = 1] ELSE TREE_GET_BIT(at[i - 1], probs)
    IN  [at[n] EXCEPT !.sym = @ - 2 ^ n]

\* Each bit at the node of the value so far and its weight m.
REV_BIT(d, probs, m) == AddBit(ReadBit(d, Node(probs, m + d.sym)), m)
REV_DECODE(d, probs, n) ==
    LET at[i \in 0 .. n] ==
            IF i = 0 THEN [d EXCEPT !.sym = 0] ELSE REV_BIT(at[i - 1], probs, 2 ^ (i - 1))
    IN  at[n]

DIRECT_DECODE(d, n) ==
    LET at[i \in 0 .. n] ==
            IF i = 0 THEN [d EXCEPT !.sym = 0] ELSE Shift(ReadDirect(at[i - 1]))
    IN  at[n]

\* MATCHED_LITER_DEC: offs stays 0x100 while the literal follows the byte at
\* the last distance and is 0 from then on.
MATCHED_DECODE(d, probs, matchByte) ==
    LET at[i \in 0 .. LitBits] ==
            IF i = 0 THEN [d |-> [d EXCEPT !.sym = 1], offs |-> LitSize]
            ELSE LET before == at[i - 1]
                     matchBit == (matchByte \div 2 ^ (LitBits - i)) % 2
                     node == before.offs * (1 + matchBit) + before.d.sym
                     b == Shift(ReadBit(before.d, Node(probs, node)))
                 IN  [d |-> b, offs |-> IF b.bit = matchBit THEN before.offs ELSE 0]
    IN  [at[LitBits].d EXCEPT !.sym = @ - LitSize]

LiteralProbs(d) ==
    <<"Literal", 0, IF d.processedPos = 0 /\ d.checkDicSize = 0 THEN 0
                    ELSE LitContext(d.prop.lc, d.prop.lp, d.processedPos, Behind(d, 1)), 0>>

LiteralValue(d) ==
    IF d.state < kNumLitStates THEN TREE_DECODE(d, LiteralProbs(d), LitBits)
    ELSE MATCHED_DECODE(d, LiteralProbs(d), Behind(d, d.reps[1]))

\* A length, counted from 0, after its second choice, its first, and before.
LenLong(c, rep) ==
    IF c.bit = 0
    THEN [TREE_DECODE(c, <<"LenMid", rep, PosState(c.prop.pb, c.processedPos), 0>>, LenLowBits)
          EXCEPT !.sym = @ + kLenNumLowSymbols]
    ELSE [TREE_DECODE(c, <<"LenHigh", rep, 0, 0>>, LenHighBits)
          EXCEPT !.sym = @ + 2 * kLenNumLowSymbols]
LenChosen(c, rep) ==
    IF c.bit = 0
    THEN TREE_DECODE(c, <<"LenLow", rep, PosState(c.prop.pb, c.processedPos), 0>>, LenLowBits)
    ELSE LenLong(ReadBit(c, <<"LenChoice2", rep, 0, 0>>), rep)
LenValue(d, rep) == LenChosen(ReadBit(d, <<"LenChoice", rep, 0, 0>>), rep)

\* A distance, counted from 0, whose slot is d.sym.
AlignedDistance(d, high) ==
    [REV_DECODE(d, <<"Align", 0, 0, 0>>, AlignBits)
     EXCEPT !.sym = @ + d.sym * 2 ^ AlignBits + high]
SlotDistance(d) ==
    LET posSlot == d.sym
        numDirectBits == posSlot \div 2 - 1
        high == (2 + (posSlot % 2)) * 2 ^ numDirectBits
    IN  IF posSlot < kStartPosModelIndex THEN d
        ELSE IF posSlot < EndPosModelIndex
        THEN [REV_DECODE(d, <<"SpecPos", 0, 0, high>>, numDirectBits) EXCEPT !.sym = @ + high]
        ELSE AlignedDistance(DIRECT_DECODE(d, numDirectBits - AlignBits), high)

\* The distance of a match whose length is len.
DistanceValue(d, len) ==
    LET lenState == IF len < kNumLenToPosStates THEN len ELSE kNumLenToPosStates - 1
    IN  SlotDistance(TREE_DECODE(d, <<"PosSlot", 0, lenState, 0>>, PosSlotBits))

(***************************************************************************)
(* One symbol.                                                             *)
(***************************************************************************)
IsMatch(d) == <<"IsMatch", d.state, PosState(d.prop.pb, d.processedPos), 0>>
IsRep(d)   == <<"IsRep", d.state, 0, 0>>
IsRepG0(d) == <<"IsRepG0", d.state, 0, 0>>
IsRepG1(d) == <<"IsRepG1", d.state, 0, 0>>
IsRepG2(d) == <<"IsRepG2", d.state, 0, 0>>
IsRep0Long(d) == <<"IsRep0Long", d.state, PosState(d.prop.pb, d.processedPos), 0>>

StateAfterLiteral(s) == IF s < 4 THEN 0 ELSE IF s < 10 THEN s - 3 ELSE s - 6

\* Copies as much of a match of length len as the limit allows; at the limit
\* nothing is copied and the symbol loop breaks off.
CopyUpTo(d, limit, len) ==
    LET room == limit - dicPos(d)
        n == IF room < len THEN room ELSE len IN
    IF room = 0 THEN [d EXCEPT !.remainLen = len, !.break = TRUE]
    ELSE [CopyMatch(d, d.reps[1], n) EXCEPT !.remainLen = len - n]

PutLiteral(d) ==
    [d EXCEPT !.dic = Append(@, d.sym), !.processedPos = @ + 1, !.remainLen = 0,
              !.state = StateAfterLiteral(@)]
DecodeLiteral(d) ==
    PutLiteral(LiteralValue(IF d.state < kNumLitStates THEN d ELSE Reached(d, d.reps[1])))

ShortRep(d) ==
    [CopyOne(d, d.reps[1]) EXCEPT !.state = IF @ < kNumLitStates THEN 9 ELSE 11,
                                  !.remainLen = 0]

\* A repeat of the first of reps, whose length is d.sym.
CopyRep(d, reps, limit) ==
    CopyUpTo([d EXCEPT !.reps = reps, !.state = IF @ < kNumLitStates THEN 8 ELSE 11],
             limit, d.sym + kMatchMinLen)
LongRep(d, reps, limit) == CopyRep(LenValue(d, 1), reps, limit)

DecodeRep(d, limit) ==
    LET g0 == GET_BIT(d, IsRepG0(d))
        long == GET_BIT(g0, IsRep0Long(d))
        g1 == GET_BIT(g0, IsRepG1(d))
        g2 == GET_BIT(g1, IsRepG2(d))
        rep == d.reps
    IN  IF g0.bit = 0
        THEN IF long.bit = 0 THEN ShortRep(long) ELSE LongRep(long, rep, limit)
        ELSE IF g1.bit = 0 THEN LongRep(g1, <<rep[2], rep[1], rep[3], rep[4]>>, limit)
        ELSE LongRep(g2, IF g2.bit = 0 THEN <<rep[3], rep[1], rep[2], rep[4]>>
                                       ELSE <<rep[4], rep[1], rep[2], rep[3]>>, limit)

\* Mutant: the distance may be one more than what has been written.
TooFarByOne(d, distance) ==
    distance > (IF d.checkDicSize = 0 THEN d.processedPos ELSE d.checkDicSize)

TooFar(d, distance) ==
    distance >= (IF d.checkDicSize = 0 THEN d.processedPos ELSE d.checkDicSize)

\* A match of length len, whose distance is d.sym.
CopyFrom(d, len, limit) ==
    LET m == [d EXCEPT !.reps = <<d.sym + 1>> \o SubSeq(@, 1, kNumReps - 1),
                       !.state = IF @ < kNumLitStates THEN 7 ELSE 10]
    IN  IF d.sym = EndMarkDistance
        THEN [d EXCEPT !.remainLen = kMatchSpecLenStart, !.break = TRUE]
        ELSE IF TooFar(d, d.sym)
        THEN [m EXCEPT !.remainLen = len + kMatchSpecLen_Error_Data + kMatchMinLen,
                       !.break = TRUE]
        ELSE CopyUpTo(m, limit, len + kMatchMinLen)

\* d.sym is the length.
MatchOf(d, limit) == CopyFrom(DistanceValue(d, d.sym), d.sym, limit)
DecodeMatch(d, limit) == MatchOf(LenValue(d, 0), limit)

DecodeOne(d, limit) ==
    LET m == GET_BIT(d, IsMatch(d))
        r == GET_BIT(m, IsRep(d)) IN
    IF m.bit = 0 THEN DecodeLiteral(m)
    ELSE IF r.bit = 0 THEN DecodeMatch(r, limit) ELSE DecodeRep(r, limit)

\* A symbol read without being decoded.
TryMatch(d) == DistanceValue(d, d.sym)
TryRep(d) ==
    LET g0 == GET_BIT_CHECK(d, IsRepG0(d))
        long == GET_BIT_CHECK(g0, IsRep0Long(d))
        g1 == GET_BIT_CHECK(g0, IsRepG1(d))
    IN  IF g0.bit = 0 /\ long.bit = 0 THEN long
        ELSE LenValue(IF g0.bit = 0 THEN long ELSE IF g1.bit = 0 THEN g1
                      ELSE GET_BIT_CHECK(g1, IsRepG2(d)), 1)
TrySymbol(d) ==
    LET m == GET_BIT_CHECK(d, IsMatch(d))
        r == GET_BIT_CHECK(m, IsRep(d))
    IN  IF m.bit = 0 THEN LiteralValue(m)
        ELSE IF r.bit = 0 THEN TryMatch(LenValue(r, 0)) ELSE TryRep(r)

\* Mutant: the last normalisation of the symbol is not counted.
TryDummyShort(d) == TrySymbol([d EXCEPT !.dry = TRUE])

\* The next symbol tried on a copy of the decoder: what input it takes, or
\* that the input ends before it does.
LzmaDec_TryDummy(d) == NORMALIZE_CHECK(TrySymbol([d EXCEPT !.dry = TRUE]))

(***************************************************************************)
(* LzmaDec_DecodeToDic.                                                    *)
(***************************************************************************)
Returned(d, res, status) == [d EXCEPT !.pc = "done", !.res = res, !.status = status]

\* No decoder is running.
DecIdle == [pc |-> "idle"]

InitialCode(src) == src[2] * kTopValue + src[3] * Base * Base + src[4] * Base + src[5]

\* LzmaDecode up to the main loop: the decoder of source src into a buffer of
\* outSize bytes, or its refusal.
LzmaDecode(src, outSize, props) ==
    LET p == PropsDecode(props)
        d == [pc |-> "top", res |-> "none", status |-> "none",
              src |-> src, buf |-> RC_INIT_SIZE, range |-> Word - 1, code |-> 0, bit |-> 0,
              sym |-> 0, dry |-> FALSE, eof |-> FALSE, over |-> FALSE, stray |-> FALSE,
              break |-> FALSE,
              prop |-> [lc |-> p.lc, lp |-> p.lp, pb |-> p.pb],
              probs |-> <<>>, state |-> 0, reps |-> [i \in 1 .. kNumReps |-> 1],
              processedPos |-> 0, checkDicSize |-> 0, dicSize |-> p.dicSize,
              remainLen |-> 0, dic |-> <<>>, dicLimit |-> outSize,
              bufLimit |-> 0, dummyProcessed |-> -1, start |-> 0]
    IN  IF Len(src) < RC_INIT_SIZE THEN Returned(d, "INPUT_EOF", "none")
        ELSE IF ~PropsSupported(props) THEN Returned(d, "UNSUPPORTED", "none")
        ELSE IF src[1] # 0 \/ InitialCode(src) >= kBadRepCode THEN Returned(d, "DATA", "none")
        ELSE [d EXCEPT !.code = InitialCode(src)]

\* The match cut off at the last limit is copied on.
LzmaDec_WriteRem(d) ==
    LET room == d.dicLimit - dicPos(d)
        n == IF room < d.remainLen THEN room ELSE d.remainLen
        full == d.checkDicSize = 0 /\ d.dicSize - d.processedPos <= n
    IN  IF n = 0 THEN d
        ELSE [CopyMatch(d, d.reps[1], n)
              EXCEPT !.remainLen = @ - n, !.checkDicSize = IF full THEN d.dicSize ELSE @]

\* Mutant: running out of input is not made an error.
ChooseReadLenient(d, dummy) ==
    LET taken == dummy.buf - d.buf IN
    IF InSize(d) >= LZMA_REQUIRED_INPUT_MAX
    THEN [d EXCEPT !.pc = "real", !.dummyProcessed = -1, !.start = d.buf,
                   !.bufLimit = Len(d.src) - LZMA_REQUIRED_INPUT_MAX]
    ELSE IF dummy.eof THEN Returned(d, "OK", "NEEDS_MORE_INPUT")
    ELSE [d EXCEPT !.pc = "real", !.dummyProcessed = taken, !.start = d.buf,
                   !.bufLimit = d.buf]

\* How the next symbols are read: in bulk up to the last place from which any
\* symbol still fits, or one symbol, whose dry run is dummy.
ChooseRead(d, dummy) ==
    LET taken == dummy.buf - d.buf IN
    IF InSize(d) >= LZMA_REQUIRED_INPUT_MAX
    THEN [d EXCEPT !.pc = "real", !.dummyProcessed = -1, !.start = d.buf,
                   !.bufLimit = Len(d.src) - LZMA_REQUIRED_INPUT_MAX]
    ELSE IF dummy.eof THEN Returned(d, "INPUT_EOF", "NEEDS_MORE_INPUT")
    ELSE IF taken > LZMA_REQUIRED_INPUT_MAX THEN Returned(d, "FAIL", "none")
    ELSE [d EXCEPT !.pc = "real", !.dummyProcessed = taken, !.start = d.buf,
                   !.bufLimit = d.buf]

\* The top of the main loop, with LZMA_FINISH_ANY.
DecTop ==
    /\ dec.pc = "top"
    /\ dec' =
         IF dec.remainLen = kMatchSpecLenStart
         THEN IF dec.code # 0 THEN Returned(dec, "DATA", "none")
              ELSE Returned(dec, "OK", "FINISHED_WITH_MARK")
         ELSE LET d == LzmaDec_WriteRem(dec) IN
              IF dicPos(d) >= d.dicLimit
              THEN Returned(d, "OK", IF d.remainLen = 0 /\ d.code = 0
                                     THEN "MAYBE_FINISHED_WITHOUT_MARK" ELSE "NOT_FINISHED")
              ELSE ChooseRead(d, LzmaDec_TryDummy(d))

\* LzmaDec_DecodeReal2: inside the first dictionary it stops at its end.
RealLimit(d) ==
    LET rem == d.dicSize - d.processedPos IN
    IF d.checkDicSize = 0 /\ d.dicLimit - dicPos(d) > rem THEN dicPos(d) + rem ELSE d.dicLimit

\* After the symbols: the last normalisation, the end of the first dictionary
\* and what DecodeToDic makes of the result.
RealEnd(d) ==
    LET n == NORMALIZE(d)
        e == [n EXCEPT !.break = FALSE,
                       !.checkDicSize = IF @ = 0 /\ n.processedPos >= n.dicSize
                                        THEN n.dicSize ELSE @]
        processed == e.buf - e.start
    IN  IF IF e.dummyProcessed < 0 THEN processed > Len(e.src) - e.start
           ELSE processed # e.dummyProcessed
        THEN Returned(e, "FAIL", "none")
        ELSE IF e.remainLen >= kMatchSpecLen_Error_Data
        THEN Returned([e EXCEPT !.remainLen = kMatchSpecLen_Error_Data], "DATA", "none")
        ELSE [e EXCEPT !.pc = "top"]

AfterSymbol(d, limit) ==
    IF ~d.break /\ dicPos(d) < limit /\ d.buf < d.bufLimit THEN d ELSE RealEnd(d)

\* One round of the loop of LZMA_DECODE_REAL.
DecSymbol ==
    /\ dec.pc = "real"
    /\ dec' = AfterSymbol(DecodeOne(dec, RealLimit(dec)), RealLimit(dec))

DecNext == DecTop \/ DecSymbol
=============================================================================
