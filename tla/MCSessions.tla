----------------------------- MODULE MCSessions -----------------------------
(* An instance of Sessions for TLC: one get and two puts, of versions of   *)
(* different lengths, with a child for each client or one too few.         *)
EXTENDS Sessions
CONSTANTS g1, p1, p2, v0
MCClients == {g1, p1, p2}
MCGetters == {g1}
MCChunksOf == [c \in MCClients \cup {v0} |-> IF c = p1 THEN 1 ELSE IF c = p2 THEN 3 ELSE 2]
MCMaxProcs == {2, 3}
MCDenied == {1}
MCEphemeral == {5, 6, 7}
=============================================================================
