------------------------------ MODULE LzmaEnc -------------------------------
(***************************************************************************)
(* The LZMA encoder of one chunk (src/src/lzma/LzmaEnc.c, LzmaCompress):   *)
(* the first byte is sent as a literal, then one packet after the other    *)
(* until the data is used up, and the range coder is flushed.              *)
(*                                                                         *)
(* Which packet is sent next is GetOptimum's decision.  Here it is any     *)
(* packet that says the truth about the data: a literal, a short repeat, a *)
(* repeat of one of the four last distances or a match.  LzmaParse shows   *)
(* that the packets of GetOptimum and GetOptimumFast are among these.      *)
(***************************************************************************)
EXTENDS LzmaPackets, RangeCoder

VARIABLES
    data,  \* the chunk, a sequence of 0 .. LitSize - 1
    enc    \* the encoder

(***************************************************************************)
(* Fields as sequences of named bits.                                      *)
(***************************************************************************)
BitAs(key, bit) == [key |-> key, bit |-> bit]
BitOf(n, i) == (n \div 2 ^ i) % 2
Direct == <<"Direct", 0, 0, 0>>

\* Most significant bit first, each bit at the node of the bits before it.
TreeEncode(probs, n, sym) ==
    [i \in 1 .. n |->
        BitAs(Node(probs, 2 ^ (i - 1) + sym \div 2 ^ (n - i + 1)), BitOf(sym, n - i))]

\* Least significant bit first.
RcTree_ReverseEncode(probs, n, sym) ==
    LET m[i \in 1 .. n] == IF i = 1 THEN 1 ELSE 2 * m[i - 1] + BitOf(sym, i - 2)
    IN  [i \in 1 .. n |-> BitAs(Node(probs, m[i]), BitOf(sym, i - 1))]

LitEnc_Encode(context, sym) == TreeEncode(<<"Literal", 0, context, 0>>, LitBits, sym)

\* After a match the byte at the last distance predicts the literal, bit by
\* bit until the first bit on which they differ.
LitEnc_EncodeMatched(context, sym, matchByte) ==
    LET alike(i) == \A j \in LitBits - i + 1 .. LitBits - 1 :
                        BitOf(sym, j) = BitOf(matchByte, j)
        prefix(i) == 2 ^ (i - 1) + sym \div 2 ^ (LitBits - i + 1)
        index(i) == IF alike(i)
                    THEN LitSize * (1 + BitOf(matchByte, LitBits - i)) + prefix(i)
                    ELSE prefix(i)
    IN  [i \in 1 .. LitBits |->
            BitAs(<<"Literal", 0, context, index(i)>>, BitOf(sym, LitBits - i))]

\* rep is 1 for the length of a repeat and 0 for that of a match.
LenEnc_Encode(rep, sym, posState) ==
    LET low  == <<"LenLow", rep, posState, 0>>
        mid  == <<"LenMid", rep, posState, 0>>
        high == <<"LenHigh", rep, 0, 0>>
        choice  == <<"LenChoice", rep, 0, 0>>
        choice2 == <<"LenChoice2", rep, 0, 0>>
    IN  IF sym < kLenNumLowSymbols
        THEN <<BitAs(choice, 0)>> \o TreeEncode(low, LenLowBits, sym)
        ELSE IF sym < 2 * kLenNumLowSymbols
        THEN <<BitAs(choice, 1), BitAs(choice2, 0)>>
             \o TreeEncode(mid, LenLowBits, sym - kLenNumLowSymbols)
        ELSE <<BitAs(choice, 1), BitAs(choice2, 1)>>
             \o TreeEncode(high, LenHighBits, sym - 2 * kLenNumLowSymbols)

\* GetLenToPosState, of a length counted from 2.
GetLenToPosState(len) ==
    IF len < kNumLenToPosStates + 1 THEN len - 2 ELSE kNumLenToPosStates - 1

\* The position of the highest bit and the bit below it.
GetPosSlot(dist) ==
    IF dist < 2 THEN dist
    ELSE LET top == CHOOSE n \in 1 .. 31 : 2 ^ n <= dist /\ dist < 2 ^ (n + 1)
         IN  2 * top + BitOf(dist, top - 1)

DistanceBits(dist, len) ==
    LET posSlot == GetPosSlot(dist)
        footerBits == posSlot \div 2 - 1
        base == (2 + (posSlot % 2)) * 2 ^ footerBits
    IN  TreeEncode(<<"PosSlot", 0, GetLenToPosState(len), 0>>, PosSlotBits, posSlot)
        \o (IF dist < kStartPosModelIndex THEN <<>>
            ELSE IF dist < kNumFullDistances
            THEN RcTree_ReverseEncode(<<"SpecPos", 0, 0, base>>, footerBits, dist)
            ELSE [i \in 1 .. footerBits - AlignBits |->
                    BitAs(Direct, BitOf(dist, footerBits - i))]
                 \o RcTree_ReverseEncode(<<"Align", 0, 0, 0>>, AlignBits, dist))

(***************************************************************************)
(* The bits of a packet.                                                   *)
(***************************************************************************)
ByteAt(pos) == data[pos + 1]

\* Which repeat is meant.
RepBits(state, posState, p) ==
    LET G0(b) == BitAs(<<"IsRepG0", state, 0, 0>>, b)
        G1(b) == BitAs(<<"IsRepG1", state, 0, 0>>, b)
        G2(b) == BitAs(<<"IsRepG2", state, 0, 0>>, b)
        Long(b) == BitAs(<<"IsRep0Long", state, posState, 0>>, b)
    IN  CASE p.dist = 0 -> <<G0(0), Long(IF p.len = 1 THEN 0 ELSE 1)>>
          [] p.dist = 1 -> <<G0(1), G1(0)>>
          [] p.dist = 2 -> <<G0(1), G1(1), G2(0)>>
          [] p.dist = 3 -> <<G0(1), G1(1), G2(1)>>

\* The bits of packet p at position pos.
PacketBits(pos, state, reps, p) ==
    LET posState == PosState(Pb, pos)
        context == LitContext(Lc, Lp, pos, ByteAt(pos - 1))
        IsMatch(b) == BitAs(<<"IsMatch", state, posState, 0>>, b)
        IsRep(b) == BitAs(<<"IsRep", state, 0, 0>>, b)
    IN  IF p.dist = MARK_LIT
        THEN <<IsMatch(0)>>
             \o (IF state < kNumLitStates THEN LitEnc_Encode(context, ByteAt(pos))
                 ELSE LitEnc_EncodeMatched(context, ByteAt(pos), ByteAt(pos - reps[1])))
        ELSE IF p.dist < kNumReps
        THEN <<IsMatch(1), IsRep(1)>> \o RepBits(state, posState, p)
             \o (IF p.len = 1 THEN <<>> ELSE LenEnc_Encode(1, p.len - kMatchMinLen, posState))
        ELSE <<IsMatch(1), IsRep(0)>> \o LenEnc_Encode(0, p.len - kMatchMinLen, posState)
             \o DistanceBits(p.dist - kNumReps, p.len)

\* The encoder after it has sent the bits.
Encoded(e, bits) ==
    LET after[i \in 0 .. Len(bits)] ==
            IF i = 0 THEN e
            ELSE LET before == after[i - 1]
                     key == bits[i].key
                     b == bits[i].bit
                 IN  IF key = Direct THEN [before EXCEPT !.rc = RC_DIRECT(@, b)]
                     ELSE [before EXCEPT !.rc = RC_BIT(@, Prob(before.probs, key), b),
                                         !.probs = Adapt(@, key, b)]
    IN  after[Len(bits)]

(***************************************************************************)
(* Actions.                                                                *)
(***************************************************************************)
LzmaEnc_Init ==
    [rc |-> RangeEnc_Init, probs |-> <<>>, state |-> 0,
     reps |-> FirstReps, nowPos |-> 0, finished |-> FALSE]

\* The first byte: a literal without a byte before it.
CodeFirstByte ==
    /\ ~enc.finished /\ enc.nowPos = 0 /\ data # <<>>
    /\ enc' = [Encoded(enc, <<BitAs(<<"IsMatch", 0, 0, 0>>, 0)>> \o LitEnc_Encode(0, ByteAt(0)))
               EXCEPT !.nowPos = 1]
    /\ UNCHANGED data

CodePacket ==
    /\ ~enc.finished /\ enc.nowPos \in 1 .. Len(data) - 1
    /\ \E p \in TruePackets(data, enc.nowPos, enc.reps) :
         enc' = [Encoded(enc, PacketBits(enc.nowPos, enc.state, enc.reps, p))
                 EXCEPT !.state = NextState(@, p), !.reps = NextReps(@, p),
                        !.nowPos = @ + p.len]
    /\ UNCHANGED data

\* Flush, without an end marker (writeEndMark is 0).
Flush ==
    /\ ~enc.finished /\ enc.nowPos = Len(data)
    /\ enc' = [enc EXCEPT !.rc = RangeEnc_FlushData(@), !.finished = TRUE]
    /\ UNCHANGED data

EncNext == CodeFirstByte \/ CodePacket \/ Flush
=============================================================================
