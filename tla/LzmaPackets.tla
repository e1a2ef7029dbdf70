---------------------------- MODULE LzmaPackets -----------------------------
(***************************************************************************)
(* The packets an LZMA stream is made of (src/src/lzma/LzmaEnc.c): what a  *)
(* packet may say about the data, and what it does to the state and to the *)
(* four last distances, which the encoder and its parser both follow.      *)
(*                                                                         *)
(* A packet is the pair of backRes (dist) and length that GetOptimum       *)
(* returns.  dist is MARK_LIT, the number of one of the last distances     *)
(* (0 .. 3), or a distance, counted from 0, plus 4.                        *)
(***************************************************************************)
EXTENDS LzmaFormat, Sequences

MARK_LIT == -1

Packet(dist, len) == [dist |-> dist, len |-> len]

\* The len bytes at pos (from 0) of d repeat what lies back bytes before.
Repeats(d, pos, back, len) ==
    /\ back <= pos /\ pos + len <= Len(d)
    /\ \A i \in pos + 1 .. pos + len : d[i] = d[i - back]

\* The packets that say the truth at pos, given the last four distances.
TruePackets(d, pos, reps) ==
    LET lens == 2 .. LZMA_MATCH_LEN_MAX IN
    {Packet(MARK_LIT, 1)}
    \cup {p \in [dist : {0}, len : {1}] : Repeats(d, pos, reps[1], 1)}
    \cup {p \in [dist : 0 .. kNumReps - 1, len : lens] : Repeats(d, pos, reps[p.dist + 1], p.len)}
    \cup {p \in [dist : kNumReps .. DictSize - 1 + kNumReps, len : lens] :
            Repeats(d, pos, p.dist - kNumReps + 1, p.len)}

kLiteralNextStates  == <<0, 0, 0, 0, 1, 2, 3, 4, 5, 6, 4, 5>>
kMatchNextStates    == <<7, 7, 7, 7, 7, 7, 7, 10, 10, 10, 10, 10>>
kRepNextStates      == <<8, 8, 8, 8, 8, 8, 8, 11, 11, 11, 11, 11>>
kShortRepNextStates == <<9, 9, 9, 9, 9, 9, 9, 11, 11, 11, 11, 11>>

\* The last distances after packet p.
NextReps(reps, p) ==
    IF p.dist \in {MARK_LIT, 0} THEN reps
    ELSE IF p.dist < kNumReps
    THEN <<reps[p.dist + 1]>> \o SubSeq(reps, 1, p.dist) \o SubSeq(reps, p.dist + 2, kNumReps)
    ELSE <<p.dist - kNumReps + 1>> \o SubSeq(reps, 1, kNumReps - 1)

NextState(state, p) ==
    LET table == IF p.dist = MARK_LIT THEN kLiteralNextStates
                 ELSE IF p.dist >= kNumReps THEN kMatchNextStates
                 ELSE IF p.len = 1 THEN kShortRepNextStates ELSE kRepNextStates
    IN  table[state + 1]

FirstReps == [i \in 1 .. kNumReps |-> 1]
=============================================================================
