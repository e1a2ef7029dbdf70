---------------------------- MODULE MCLzmaParse -----------------------------
(***************************************************************************)
(* Instances of LzmaParse for TLC.  The widths are those of MCLzmaCodec;   *)
(* the table is filled by less than two of the longest matches.            *)
(***************************************************************************)
EXTENDS LzmaParse

\* Short chunks: every one of two letters, and those of four that begin with
\* the letters in order.
TwoLetters == UNION {[1 .. n -> {1, 2}] : n \in {1, 2, 3, 7}}
FourLetters == {<<0, 1, 2, 3>> \o s : s \in [1 .. 4 -> 0 .. 3]}

\* Strings with one hash on both sides of a third in the order of the tree,
\* which is replaced by itself before one of them comes again.
Sorted == <<0, 2, 0, 2, 0, 2, 1, 1, 1, 1, 1, 1, 0, 2, 0, 2, 0>>

\* Four different last distances, and the third and the fourth in turn.
Repeats34 == <<2, 2, 0, 0, 3, 2, 0, 2, 0, 2, 0, 3, 0, 3, 3, 3, 3, 3>>

\* The beginning comes again one byte further than the dictionary reaches.
Edge == <<0, 0, 1, 0, 1, 0, 1, 1, 1, 1, 1, 1, 1, 0, 0, 1, 0>>

\* Matches that go on to the end of the table of nodes.
Wide == <<1, 2, 1, 2, 1, 1, 1, 2, 2, 2, 2, 0, 1, 2, 2>>

\* A run longer than two of the longest matches, broken once.
Run == <<1, 1, 1, 1, 1, 1, 1, 1, 2, 1, 1, 1, 1, 1, 1, 1, 1, 1, 1, 1>>

MCData == TwoLetters \cup FourLetters \cup {Sorted, Repeats34, Edge, Wide, Run}
=============================================================================
