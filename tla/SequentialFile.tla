--------------------------- MODULE SequentialFile ---------------------------
(***************************************************************************)
(* What comp_file, enc_file and dec_file would do without threads: take    *)
(* the input from its start to its end, a chunk at a time, and stop with   *)
(* "ok" at the end or with an error anywhere before.  ChunkPool refines    *)
(* this module.                                                            *)
(***************************************************************************)
EXTENDS Integers

CONSTANT ChunkMem

VARIABLES size,    \* bytes of input
          pos,     \* bytes of input whose result has been written
          res      \* the result, "none" while the function runs

vars == <<size, pos, res>>

Init == pos = 0 /\ res = "none"

TakeChunk ==
    /\ res = "none" /\ pos < size
    /\ pos' = IF pos + ChunkMem < size THEN pos + ChunkMem ELSE size
    /\ UNCHANGED <<size, res>>

Finish ==
    /\ res = "none" /\ pos = size
    /\ res' = "ok"
    /\ UNCHANGED <<size, pos>>

GiveUp ==
    /\ res = "none"
    /\ res' \in {"error", "crash"}
    /\ UNCHANGED <<size, pos>>

Next == TakeChunk \/ Finish \/ GiveUp

Spec == Init /\ [][Next]_vars
=============================================================================
