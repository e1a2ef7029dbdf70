----------------------------- MODULE CompStream -----------------------------
(***************************************************************************)
(* What comp_file (src/src/comp.c:276-501) writes: for every chunk of the  *)
(* file an EC header, then either LZMA properties and compressed data or   *)
(* the chunk as it was.  A byte of the stream is known by the chunk it     *)
(* belongs to and its place there; what it is does not matter here.        *)
(***************************************************************************)
EXTENDS Integers, SequencesExt

CONSTANTS
    CompMem, CompThreads,  \* COMP_THREAD_MAX_MEM, COMP_MAX_THREADS
    SizeLen,               \* sizeof(size_t)
    PropsLen               \* LZMA_PROPS_SIZE

ASSUME CompAssumption ==
    /\ CompMem \in Nat \ {0} /\ CompThreads \in Nat \ {0}
    /\ SizeLen \in Nat \ {0} /\ PropsLen \in Nat

C == INSTANCE Chunks WITH ChunkMem <- CompMem, MaxThreads <- CompThreads

EC_HEADER_SIZE == 1 + SizeLen + SizeLen

Byte(k, at) == <<k, at>>

(* The lengths of the chunks of a file, in the order they are written.     *)
ChunkLens(size) ==
    FlattenSeq([b \in 1..C!NumBatches(size) |->
        [t \in 1..C!NumThreads(size, b - 1) |-> C!ReadLen(size, b - 1, t - 1)]])

(* The headers compress_chunk_of_file may give a chunk of len bytes.  How  *)
(* far the data shrinks is left open; with its properties it must be       *)
(* smaller than the chunk.                                                 *)
compress_chunk_of_file(len) ==
    {[compressed |-> FALSE, orig_size |-> len, proc_size |-> len]} \cup
    {[compressed |-> TRUE, orig_size |-> len, proc_size |-> outbuf_len] :
         outbuf_len \in 1..(len - PropsLen - 1)}

(* The headers of a whole file.                                            *)
Headers(size) ==
    LET lens == ChunkLens(size)
    IN  {hs \in [1..Len(lens) -> UNION {compress_chunk_of_file(lens[k]) : k \in 1..Len(lens)}] :
             \A k \in 1..Len(lens) : hs[k] \in compress_chunk_of_file(lens[k])}

num_props_bytes(h) == IF h.compressed THEN PropsLen ELSE 0

RecordLen(h) == EC_HEADER_SIZE + num_props_bytes(h) + h.proc_size

comp_file(hs) ==
    FlattenSeq([k \in 1..Len(hs) |-> [at \in 1..RecordLen(hs[k]) |-> Byte(k, at)]])

(* fwrite of an empty chunk counts as a failure; only the last can be.     *)
comp_file_fails(size) == \E k \in 1..Len(ChunkLens(size)) : ChunkLens(size)[k] = 0
=============================================================================
