------------------------------- MODULE Chunks -------------------------------
(***************************************************************************)
(* How comp_file, enc_file and dec_file cut a file into chunks of at most  *)
(* ChunkMem bytes and group the chunks in batches of MaxThreads: the       *)
(* arithmetic alone.  The three functions share it line for line, with     *)
(* COMP_THREAD_MAX_MEM, COMP_MAX_THREADS or ENC_THREAD_MAX_MEM,            *)
(* ENC_MAX_THREADS for the two constants.  Batches and threads count from  *)
(* 0 as in the code.                                                       *)
(***************************************************************************)
EXTENDS Integers

CONSTANTS ChunkMem, MaxThreads

ASSUME ChunksAssumption ==
    ChunkMem \in Nat \ {0} /\ MaxThreads \in Nat \ {0}

max_bytes_per_batch == ChunkMem * MaxThreads

(* Mutant: the remainder is forgotten.                                     *)
NumBatchesFloor(size) ==
    IF size > max_bytes_per_batch THEN size \div max_bytes_per_batch ELSE 1

(* A file of exactly one full batch is not "bigger than the limit" and a   *)
(* file of n > 1 full batches gets one more: the division is not ceiled.   *)
NumBatches(size) ==
    IF size > max_bytes_per_batch
    THEN (size \div max_bytes_per_batch) + 1
    ELSE 1

(* Mutant: the last batch is taken to be one later.                        *)
LastBatchLate(size, b) == b = NumBatches(size)

LastBatch(size, b) == b = NumBatches(size) - 1

NumThreads(size, b) ==
    IF LastBatch(size, b)
    THEN ((size - b * max_bytes_per_batch) \div ChunkMem) + 1
    ELSE MaxThreads

LastThread(size, b, t) == LastBatch(size, b) /\ t = NumThreads(size, b) - 1

(* Mutant: every batch reads from the start of the file.                   *)
OffsetInBatch(b, t) == t * ChunkMem

Offset(b, t) == b * max_bytes_per_batch + t * ChunkMem

(* Mutant: the last thread reads a whole chunk too.                        *)
ReadLenFull(size, b, t) == ChunkMem

ReadLen(size, b, t) ==
    IF LastThread(size, b, t) THEN size - Offset(b, t) ELSE ChunkMem
=============================================================================
