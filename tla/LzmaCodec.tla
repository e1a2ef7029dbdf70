----------------------------- MODULE LzmaCodec ------------------------------
(***************************************************************************)
(* A chunk through the codec: LzmaCompress on the sending side and         *)
(* LzmaUncompress on the receiving one, with what can happen to the chunk  *)
(* in between (src/src/comp.c stores and reads it back without a checksum):*)
(* it arrives whole, it arrives cut short, or one byte of it has changed.  *)
(***************************************************************************)
EXTENDS LzmaEnc, LzmaDec

CONSTANTS
    DataSet, \* the chunks to compress
    Changes  \* bound: what may be added to a byte of a chunk on its way

ASSUME DataAssumption == \A d \in DataSet : d \in Seq(0 .. LitSize - 1) /\ d # <<>>
ASSUME ChangesAssumption == Changes \subseteq 1 .. Base - 1

VARIABLES
    fate  \* what happened to the chunk: "none" yet, "whole", "cut", "changed"

vars == <<data, enc, dec, fate>>

Init ==
    /\ data \in DataSet
    /\ enc = LzmaEnc_Init
    /\ dec = DecIdle
    /\ fate = "none"

Stream == enc.rc.out

\* outbuf_len is the original size of the chunk, which its header gives.
Start(src) == dec' = LzmaDecode(src, Len(data), WriteProperties)

ReceiveWhole ==
    /\ enc.finished /\ fate = "none"
    /\ Start(Stream)
    /\ fate' = "whole" /\ UNCHANGED <<data, enc>>

ReceiveCut ==
    /\ enc.finished /\ fate = "none"
    /\ \E n \in 0 .. Len(Stream) - 1 : Start(SubSeq(Stream, 1, n))
    /\ fate' = "cut" /\ UNCHANGED <<data, enc>>

ReceiveChanged ==
    /\ enc.finished /\ fate = "none"
    /\ \E i \in 1 .. Len(Stream) : \E step \in Changes :
         Start([Stream EXCEPT ![i] = (@ + step) % Base])
    /\ fate' = "changed" /\ UNCHANGED <<data, enc>>

Compress == EncNext /\ UNCHANGED <<dec, fate>>
Uncompress == DecNext /\ UNCHANGED <<data, enc, fate>>

Next == Compress \/ ReceiveWhole \/ ReceiveCut \/ ReceiveChanged \/ Uncompress

Spec == Init /\ [][Next]_vars

Done == dec.pc = "done"

(***************************************************************************)
(* Properties.                                                             *)
(***************************************************************************)
IsPrefix(s, t) == Len(s) <= Len(t) /\ s = SubSeq(t, 1, Len(s))

\* The carry can reach no further than the byte kept back: the sum of low and
\* range never exceeds two words less what a carried byte leaves room for, and
\* after every bit the range is wide enough for the next one.
CarryFits ==
    /\ enc.rc.low + enc.rc.range <= 2 * Word
    /\ enc.rc.range \in kTopValue .. Word - 1
    /\ enc.rc.cache \in 0 .. Base - 1
    /\ enc.rc.low >= Word => enc.rc.cache < Base - 1

\* Compressing and uncompressing gives the chunk back, whichever packets the
\* encoder chose, and uses up the stream to within its last bytes.
RoundTrip ==
    Done /\ fate = "whole" => dec.res = "OK" /\ dec.dic = data

\* A chunk cut short is either not missed (the decoder had all it needed) or
\* refused: LzmaUncompress never returns OK with part of the data, and what it
\* has written is the beginning of the data.
CutRefused ==
    fate = "cut" /\ Done =>
        /\ IsPrefix(dec.dic, data)
        /\ dec.res \in {"OK", "INPUT_EOF"}
        /\ dec.res = "OK" => dec.dic = data

\* Whatever arrives, the decoder copies only from output it has written and
\* writes no more than the buffer holds.
StaysInOutput == dec.pc # "idle" => ~dec.stray /\ dicPos(dec) <= dec.dicLimit

\* Whatever arrives, the dry run of a symbol and its decoding take the same input:
\* the decoder reads no more than there is, in bulk or near its end, and never ends
\* in SZ_ERROR_FAIL, its report of an internal error.
DryRunAgrees == dec.pc # "idle" => ~dec.over /\ dec.res # "FAIL"
=============================================================================
