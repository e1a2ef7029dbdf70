-------------------------- MODULE MCSecureChannel --------------------------
(* An instance for TLC: words and integers of 7 and 14 bits in the key     *)
(* exchange, the cipher at its full size; blocks with one byte set, in     *)
(* every place, and blocks that are full.                                  *)
EXTENDS SecureChannel
Series(first, step) == [k \in 1..4 |-> 2 + ((first + k * step) % (dh_p - 2))]
MCDraws == {[client |-> Series(c, 71), server |-> Series(s, 113)] : c \in {0, 5}, s \in {0, 248}}
OneByte == {[k \in 1..16 |-> IF k = at THEN v ELSE 0] : at \in 1..16, v \in {1, 128}}
MCTexts == OneByte \cup {[k \in 1..16 |-> (k * f) % 256] : f \in {1, 17, 37}}
=============================================================================
