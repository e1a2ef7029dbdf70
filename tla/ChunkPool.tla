----------------------------- MODULE ChunkPool -----------------------------
(***************************************************************************)
(* The fork-join pool that comp_file, enc_file and dec_file each spell out *)
(* (here after enc_file, src/src/enc.c:168-393): batch by batch, the       *)
(* calling thread assigns a chunk of the input to every slot of args,      *)
(* starts a worker for each slot but the last, does the last chunk itself, *)
(* joins the workers in order and writes their results in order.           *)
(*                                                                         *)
(* A chunk is the interval of the input it was read from; what is written  *)
(* for it (encrypted, decrypted, compressed) stands for that interval.     *)
(***************************************************************************)
EXTENDS Chunks, Sequences

CONSTANTS
    Sizes,     \* sizes of input files
    FaultSets  \* the sets of faults, of FaultKinds, a call may meet

FaultKinds ==
    { "open",      \* fopen of the output or of a reader, or malloc, fails
      "create",    \* pthread_create fails
      "chunk",     \* a chunk cannot be read or transformed
      "write" }    \* fwrite fails

ASSUME PoolAssumption == Sizes \subseteq Nat /\ FaultSets \subseteq SUBSET FaultKinds

VARIABLES
    size,      \* st_size of the input file
    faults,    \* the faults this call may meet
    pc,        \* the calling thread's control point
    batch,     \* batch_index
    t,         \* thread_index, the index of the current loop over threads
    args,      \* the chunk each slot was assigned
    worker,    \* what the thread of each slot is doing
    product,   \* the chunk whose transformed bytes are in the slot's buffer
    out,       \* the chunks written to the output file
    ret        \* what the function returned

vars == <<size, faults, pc, batch, t, args, worker, product, out, ret>>

(* args has MaxThreads elements; slot MaxThreads is past its end.          *)
Slots == 0..MaxThreads
Chunk == [off : Nat, len : Nat]
NoChunk == [off |-> 0, len |-> 0]

num_threads == NumThreads(size, batch)
ChunkOf(b, k) == [off |-> Offset(b, k), len |-> ReadLen(size, b, k)]

Init ==
    /\ size \in Sizes /\ faults \in FaultSets
    /\ pc = "open" /\ batch = 0 /\ t = 0
    /\ args = [k \in Slots |-> NoChunk]
    /\ worker = [k \in Slots |-> "idle"]
    /\ product = [k \in Slots |-> NoChunk]
    /\ out = <<>>
    /\ ret = "none"

(* Every error path is a plain return: workers are not joined.             *)
Fail ==
    /\ pc' = "returned" /\ ret' = "error"
    /\ UNCHANGED <<size, faults, batch, t, args, worker, product, out>>

OpenOutput ==
    /\ pc = "open"
    /\ \/ /\ pc' = "assign"
          /\ UNCHANGED <<size, faults, batch, t, args, worker, product, out, ret>>
       \/ "open" \in faults /\ Fail

(* STA: one turn of the loop that fills in args[t].  Past the end of args  *)
(* the writes are undefined: they can hit nothing that matters, or crash.  *)
Assign ==
    /\ pc = "assign"
    /\ \/ /\ args' = [args EXCEPT ![t] = ChunkOf(batch, t)]
          /\ IF t + 1 < num_threads
             THEN t' = t + 1 /\ UNCHANGED pc
             ELSE t' = 0 /\ pc' = IF num_threads = 1 THEN "own" ELSE "create"
          /\ UNCHANGED <<size, faults, batch, worker, product, out, ret>>
       \/ /\ t = MaxThreads
          /\ pc' = "returned" /\ ret' = "crash"
          /\ UNCHANGED <<size, faults, batch, t, args, worker, product, out>>
       \/ "open" \in faults /\ Fail

(* Mutant: the loop starts one worker too few.                             *)
CreateShort ==
    /\ pc = "create"
    /\ worker' = [worker EXCEPT ![t] = "running"]
    /\ IF t + 1 < num_threads - 2
       THEN t' = t + 1 /\ UNCHANGED pc
       ELSE t' = 0 /\ pc' = "own"
    /\ UNCHANGED <<size, faults, batch, args, product, out, ret>>

(* RT1: start a worker for every slot but the last.                        *)
Create ==
    /\ pc = "create"
    /\ \/ /\ worker' = [worker EXCEPT ![t] = "running"]
          /\ IF t + 1 < num_threads - 1
             THEN t' = t + 1 /\ UNCHANGED pc
             ELSE t' = 0 /\ pc' = "own"
          /\ UNCHANGED <<size, faults, batch, args, product, out, ret>>
       \/ "create" \in faults /\ Fail

(* RT2: the calling thread does the last chunk itself.                     *)
Own ==
    /\ pc = "own"
    /\ \/ LET k == num_threads - 1
          IN  /\ product' = [product EXCEPT ![k] = args[k]]
              /\ worker' = [worker EXCEPT ![k] = "joined"]
              /\ pc' = IF k = 0 THEN "write" ELSE "join"
              /\ UNCHANGED <<size, faults, batch, t, args, out, ret>>
       \/ "chunk" \in faults /\ Fail

(* Mutant: the results are used without joining the workers.               *)
JoinNot ==
    /\ pc = "join"
    /\ t' = 0 /\ pc' = "write"
    /\ UNCHANGED <<size, faults, batch, args, worker, product, out, ret>>

(* RT3: join the workers in order and look at what each returned.          *)
Join ==
    /\ pc = "join" /\ worker[t] \in {"done", "failed"}
    /\ \/ /\ worker[t] = "done"
          /\ worker' = [worker EXCEPT ![t] = "joined"]
          /\ IF t + 1 < num_threads - 1
             THEN t' = t + 1 /\ UNCHANGED pc
             ELSE t' = 0 /\ pc' = "write"
          /\ UNCHANGED <<size, faults, batch, args, product, out, ret>>
       \/ /\ worker[t] = "failed"
          /\ pc' = "returned" /\ ret' = "error"
          /\ worker' = [worker EXCEPT ![t] = "idle"]
          /\ UNCHANGED <<size, faults, batch, t, args, product, out>>

(* MUTW: write the results in order.  fwrite of an empty buffer returns 0, *)
(* which the code takes for a failure.                                     *)
Write ==
    /\ pc = "write"
    /\ \/ /\ args[t].len > 0
          /\ out' = Append(out, product[t])
          /\ worker' = [worker EXCEPT ![t] = IF @ = "joined" THEN "idle" ELSE @]
          /\ IF t + 1 < num_threads
             THEN t' = t + 1 /\ UNCHANGED <<pc, batch>>
             ELSE /\ t' = 0
                  /\ IF LastBatch(size, batch)
                     THEN pc' = "close" /\ UNCHANGED batch
                     ELSE pc' = "assign" /\ batch' = batch + 1
          /\ UNCHANGED <<size, faults, args, product, ret>>
       \/ args[t].len = 0 /\ Fail
       \/ "write" \in faults /\ Fail

Close ==
    /\ pc = "close"
    /\ pc' = "returned" /\ ret' = "ok"
    /\ UNCHANGED <<size, faults, batch, t, args, worker, product, out>>

(* A worker reads and transforms the chunk its slot holds.  It does not    *)
(* know whether the function that started it still runs.                   *)
WorkerDone(k) ==
    /\ worker[k] = "running"
    /\ \/ /\ worker' = [worker EXCEPT ![k] = "done"]
          /\ product' = [product EXCEPT ![k] = args[k]]
       \/ /\ "chunk" \in faults
          /\ worker' = [worker EXCEPT ![k] = "failed"]
          /\ UNCHANGED product
    /\ UNCHANGED <<size, faults, pc, batch, t, args, out, ret>>

Caller == OpenOutput \/ Assign \/ Create \/ Own \/ Join \/ Write \/ Close
Next == Caller \/ \E k \in Slots : WorkerDone(k)

Spec == Init /\ [][Next]_vars

(* The caller and every worker are threads that run until they are done;   *)
(* only pthread_join blocks.                                               *)
FairSpec ==
    /\ Spec
    /\ WF_vars(Caller)
    /\ \A k \in Slots : WF_vars(WorkerDone(k))

-----------------------------------------------------------------------------
(* The thread loops stay within the slots and the batch loop within the    *)
(* batches of the file; the rest is typing.                                *)
TypeOK ==
    /\ size \in Nat /\ faults \in SUBSET FaultKinds
    /\ pc \in {"open", "assign", "create", "own", "join", "write", "close", "returned"}
    /\ batch \in 0..(NumBatches(size) - 1)
    /\ t \in Slots
    /\ args \in [Slots -> Chunk]
    /\ worker \in [Slots -> {"idle", "running", "done", "failed", "joined"}]
    /\ product \in [Slots -> Chunk]
    /\ out \in Seq(Chunk)
    /\ ret \in {"none", "ok", "error", "crash"}

(* What is in the output is always a prefix of the transformed input: the  *)
(* chunks are written without a gap, an overlap or a swap, whatever order  *)
(* the workers finish in and whichever step fails.                         *)
InOrder ==
    \A i \in 1..Len(out) :
        /\ out[i].off = (i - 1) * ChunkMem
        /\ i < Len(out) => out[i].len = ChunkMem

(* The function returns 0 only when the output stands for the whole input. *)
Complete ==
    ret = "ok" =>
        /\ out # <<>>
        /\ out[Len(out)].off + out[Len(out)].len = size

(* How much of the input the output stands for.                            *)
Written == IF out = <<>> THEN 0 ELSE out[Len(out)].off + out[Len(out)].len

(* Refinement: for whoever looks at the output and at the value returned,  *)
(* the pool does what a loop over the chunks would do.                     *)
Sequential == INSTANCE SequentialFile WITH pos <- Written, res <- ret
SequentialSpec == Sequential!Spec

(* The array of MaxThreads slots is overrun by a file of exactly one full  *)
(* batch, and by no other.                                                 *)
OverrunOnlyAtFullBatch ==
    num_threads > MaxThreads => size = max_bytes_per_batch

(* A file whose size is not a multiple of the chunk size is transformed,   *)
(* across every boundary of a batch, if no call into the system fails      *)
(* (the loop over batches of enc_file, src/src/enc.c:223-382).             *)
UnalignedSucceeds == <>(ret = "ok" \/ size % ChunkMem = 0 \/ faults # {})

(* The inductive invariant behind the properties above: what the caller's  *)
(* control point says of the slots, of the workers and of the output.      *)
Holding ==
    /\ pc = "assign" =>
         t < num_threads /\ \A k \in 0..(t - 1) : args[k] = ChunkOf(batch, k)
    /\ pc \in {"create", "own", "join", "write"} =>
         \A k \in 0..(num_threads - 1) : args[k] = ChunkOf(batch, k)
    /\ \A k \in Slots : worker[k] \in {"done", "joined"} => product[k] = args[k]

Working ==
    /\ pc \in {"open", "assign"} => \A k \in Slots : worker[k] = "idle"
    /\ pc = "create" =>
         t < num_threads - 1 /\ \A k \in Slots : k >= t => worker[k] = "idle"
    /\ pc = "own" =>
         t = 0 /\ \A k \in Slots : k >= num_threads - 1 => worker[k] = "idle"
    /\ pc = "join" =>
         /\ t < num_threads - 1
         /\ \A k \in Slots : /\ k < t \/ k = num_threads - 1 => worker[k] = "joined"
                             /\ k >= num_threads => worker[k] = "idle"
    /\ pc = "write" =>
         /\ t < num_threads
         /\ \A k \in Slots :
              worker[k] = IF t <= k /\ k < num_threads THEN "joined" ELSE "idle"

Counting ==
    /\ pc = "open" => batch = 0 /\ t = 0 /\ out = <<>>
    /\ pc \in {"open", "assign"} => t < num_threads
    /\ pc \in {"assign", "create", "own", "join"} => Len(out) = batch * MaxThreads
    /\ pc = "write" => Len(out) = batch * MaxThreads + t
    /\ pc \notin {"close", "returned"} =>
         \A i \in 1..Len(out) : out[i].len = ChunkMem
    /\ pc = "close" \/ ret = "ok" =>
         /\ out # <<>> /\ Written = size
         /\ out[Len(out)].len \in 1..(ChunkMem - 1)
    /\ pc # "returned" => ret = "none"

PoolInv == TypeOK /\ Holding /\ Working /\ Counting /\ InOrder

(* Action property: a slot is given another chunk only when no worker is   *)
(* still on it and its last result has been written.                       *)
SlotsNotReused ==
    [][\A k \in Slots : args'[k] # args[k] => worker[k] = "idle"]_vars

(* The function returns, and when it did every worker it started comes to  *)
(* an end: no join waits for a worker that was never started.              *)
Terminates == <>[](pc = "returned" /\ \A k \in Slots : worker[k] # "running")

(* "each thread encrypting an assigned part of the file before             *)
(* pthread_join'ing back to the main thread" (src/src/enc.c:215-217): no   *)
(* worker runs on after the function that owns its arguments has returned. *)
WorkersJoined ==
    pc = "returned" => \A k \in Slots : worker[k] \notin {"running", "done", "failed"}

(* "the number of jobs is always sufficient to encrypt the whole file"     *)
(* (src/src/enc.c:197-198), in an array of ENC_MAX_THREADS jobs.           *)
SlotsSuffice == t < MaxThreads

(* "Set the number of threads to how many 'ENC_THREAD_MAX_MEM' byte chunks *)
(* of the file are left" (src/src/enc.c:230-231), a "'Ceiled' division"    *)
(* (197-198): each thread then has a chunk, and a file that is not empty   *)
(* is refused only if a call into the system fails.                        *)
ErrorsHaveCauses == ret = "error" /\ size > 0 => faults # {}
=============================================================================
