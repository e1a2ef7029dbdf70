---------------------------- MODULE MCLzmaCodec -----------------------------
(***************************************************************************)
(* Instances of LzmaCodec for TLC: two-bit bytes, every field of the       *)
(* stream at the smallest width that keeps all of its parts.               *)
(***************************************************************************)
EXTENDS LzmaCodec

Short == UNION {[1 .. n -> {0, 3}] : n \in 1 .. 3}

\* Every kind of packet, with four different last distances.
Mixed == <<3, 1, 2, 3, 1, 3, 1, 3, 1, 1, 1, 3>>

\* A distance long enough for direct bits, and more data than the decoder's
\* dictionary holds.
Far == <<2, 3, 1, 3, 1, 2, 3, 2, 2, 2, 3, 1, 3, 0>>

\* The longest match.
Run == <<1, 2, 1, 2, 1, 2, 1, 2, 1>>

MCData == Short \cup {Mixed, Far, Run}
=============================================================================
