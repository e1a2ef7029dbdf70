-------------------------- MODULE ChunkPoolProofs --------------------------
(***************************************************************************)
(* ChunkPool for every chunk size, every number of threads, every file     *)
(* size and every set of faults: its inductive invariant, the order and    *)
(* completeness of the output, and the refinement of SequentialFile.       *)
(***************************************************************************)
EXTENDS ChunkPool, TLAPS

(* Lemmas about the batch and chunk arithmetic of Chunks come first.       *)

(* The quotient of two numbers, by its two bounds.                         *)
LEMMA DivBounds ==
    ASSUME NEW n \in Nat, NEW d \in Nat \ {0}
    PROVE  /\ n \div d \in Nat
           /\ d * (n \div d) <= n
           /\ n < d * (n \div d) + d
  OBVIOUS

(* A product grows with its factor.                                        *)
LEMMA TimesMonotone ==
    ASSUME NEW d \in Nat, NEW a \in Nat, NEW b \in Nat, a <= b
    PROVE  d * a <= d * b
  OBVIOUS

LEMMA BatchSize ==
    /\ max_bytes_per_batch \in Nat \ {0}
    /\ ChunkMem <= max_bytes_per_batch
  BY ChunksAssumption DEF max_bytes_per_batch

(* The last batch starts inside the file (or at its end) and what is left  *)
(* there fits one batch; it fills it only in a file of exactly one batch.  *)
LEMMA LastBatchStart ==
    ASSUME NEW len \in Nat
    PROVE  LET b == NumBatches(len) - 1
           IN  /\ b \in Nat
               /\ len - b * max_bytes_per_batch \in Nat
               /\ \/ len - b * max_bytes_per_batch < max_bytes_per_batch
                  \/ len = max_bytes_per_batch /\ b = 0
  <1> DEFINE M == max_bytes_per_batch
             q == len \div M
  <1>1. M \in Nat \ {0}
    BY BatchSize
  <1>2. q \in Nat /\ M * q <= len /\ len < M * q + M
    BY <1>1, DivBounds
  <1>3. CASE len > M
    <2>1. NumBatches(len) - 1 = q
      BY <1>2, <1>3 DEF NumBatches
    <2>2. M * q = q * M
      BY <1>1, <1>2
    <2> HIDE DEF q, M
    <2> QED
      BY <1>1, <1>2, <2>1, <2>2 DEF M
  <1>4. CASE ~(len > M)
    <2>1. NumBatches(len) - 1 = 0
      BY <1>4 DEF NumBatches
    <2>2. 0 * M = 0
      BY <1>1
    <2> HIDE DEF M
    <2> QED
      BY <1>1, <1>4, <2>1, <2>2 DEF M
  <1> QED
    BY <1>3, <1>4

(* Every batch has a thread; it has at most MaxThreads of them, except the *)
(* one batch of a file of exactly max_bytes_per_batch bytes.               *)
LEMMA ThreadCount ==
    ASSUME NEW len \in Nat, NEW b \in 0..(NumBatches(len) - 1)
    PROVE  /\ NumThreads(len, b) \in 1..(MaxThreads + 1)
           /\ NumThreads(len, b) > MaxThreads => len = max_bytes_per_batch
  <1> DEFINE M == max_bytes_per_batch
             r == len - b * M
             q == r \div ChunkMem
  <1>1. CASE LastBatch(len, b)
    <2>1. b = NumBatches(len) - 1
      BY <1>1 DEF LastBatch
    <2>2. r \in Nat /\ (r < M \/ (len = M /\ r = M))
      <3>1. b = 0 => b * M = 0
        BY BatchSize
      <3> QED
        BY <2>1, <3>1, LastBatchStart
    <2>3. q \in Nat /\ ChunkMem * q <= r /\ r < ChunkMem * q + ChunkMem
      BY <2>2, DivBounds, ChunksAssumption
    <2>4. NumThreads(len, b) = q + 1
      BY <1>1 DEF NumThreads
    <2>5. M = ChunkMem * MaxThreads
      BY DEF max_bytes_per_batch
    <2> HIDE DEF r, q, M
    <2>6. q <= MaxThreads
      <3>1. SUFFICES ASSUME q >= MaxThreads + 1 PROVE FALSE
        BY <2>3, ChunksAssumption
      <3>2. ChunkMem * (MaxThreads + 1) <= ChunkMem * q
        BY <2>3, <3>1, TimesMonotone, ChunksAssumption
      <3>3. ChunkMem * (MaxThreads + 1) = M + ChunkMem
        BY <2>5, ChunksAssumption
      <3> QED
        BY <2>2, <2>3, <3>2, <3>3, ChunksAssumption, BatchSize DEF M
    <2>7. q = MaxThreads => len = M
      BY <2>2, <2>3, <2>5, ChunksAssumption
    <2> QED
      BY <2>3, <2>4, <2>6, <2>7, ChunksAssumption DEF M
  <1>2. CASE ~LastBatch(len, b)
    BY <1>2, ChunksAssumption DEF NumThreads
  <1> QED
    BY <1>1, <1>2

(* The offset of chunk k of batch b is that of chunk b * MaxThreads + k of *)
(* the file.                                                               *)
LEMMA ChunkNumber ==
    ASSUME NEW b \in Nat, NEW k \in Nat
    PROVE  /\ Offset(b, k) \in Nat
           /\ Offset(b, k) = (b * MaxThreads + k) * ChunkMem
  BY ChunksAssumption DEF Offset, max_bytes_per_batch

(* The last thread reads less than a chunk, possibly nothing, and every    *)
(* other thread reads exactly one.                                         *)
LEMMA ReadLength ==
    ASSUME NEW len \in Nat, NEW b \in 0..(NumBatches(len) - 1),
           NEW k \in 0..(NumThreads(len, b) - 1)
    PROVE  /\ ReadLen(len, b, k) \in 0..ChunkMem
           /\ LastThread(len, b, k) =>
                /\ ReadLen(len, b, k) < ChunkMem
                /\ Offset(b, k) + ReadLen(len, b, k) = len
           /\ ~LastThread(len, b, k) => ReadLen(len, b, k) = ChunkMem
  <1> DEFINE M == max_bytes_per_batch
             r == len - b * M
             q == r \div ChunkMem
  <1>1. CASE LastThread(len, b, k)
    <2>1. LastBatch(len, b) /\ b = NumBatches(len) - 1
      BY <1>1 DEF LastThread, LastBatch
    <2>2. r \in Nat
      BY <2>1, LastBatchStart
    <2>3. q \in Nat /\ ChunkMem * q <= r /\ r < ChunkMem * q + ChunkMem
      BY <2>2, DivBounds, ChunksAssumption
    <2>4. k = q
      BY <1>1, <2>1, <2>3 DEF LastThread, NumThreads
    <2>5. Offset(b, k) = b * M + ChunkMem * q
      BY <2>3, <2>4, ChunksAssumption DEF Offset
    <2>6. b * M \in Int
      BY BatchSize
    <2>7. ReadLen(len, b, k) = len - (b * M + ChunkMem * q)
      BY <1>1, <2>5 DEF ReadLen
    <2>8. ChunkMem * q \in Int
      BY <2>3, ChunksAssumption
    <2> DEFINE x == b * M
               y == ChunkMem * q
    <2>9. r = len - x
      OBVIOUS
    <2>10. x \in Int /\ y \in Int /\ y <= r /\ r < y + ChunkMem
      BY <2>3, <2>6, <2>8
    <2>11. ReadLen(len, b, k) = len - (x + y) /\ Offset(b, k) = x + y
      BY <2>5, <2>7
    <2> HIDE DEF x, y, r
    <2> QED
      BY <1>1, <2>9, <2>10, <2>11, ChunksAssumption
  <1>2. CASE ~LastThread(len, b, k)
    BY <1>2, ChunksAssumption DEF ReadLen
  <1> QED
    BY <1>1, <1>2

(* A chunk that is not the file's last one lies inside the file.           *)
LEMMA WholeChunkInside ==
    ASSUME NEW len \in Nat, NEW b \in 0..(NumBatches(len) - 1),
           NEW k \in 0..(NumThreads(len, b) - 1), ~LastThread(len, b, k)
    PROVE  Offset(b, k) + ChunkMem <= len
  <1> DEFINE M == max_bytes_per_batch
             e == NumBatches(len) - 1
  <1>1. M \in Nat /\ M = ChunkMem * MaxThreads /\ ChunkMem \in Nat /\ MaxThreads \in Nat
    BY BatchSize, ChunksAssumption DEF max_bytes_per_batch
  <1>2. e \in Nat /\ len - e * M \in Nat
    BY LastBatchStart
  <1>3. b \in Nat /\ k \in Nat
    OBVIOUS
  <1>4. Offset(b, k) + ChunkMem = b * M + ChunkMem * (k + 1)
    BY <1>1, <1>3 DEF Offset
  <1>5. CASE LastBatch(len, b)
    <2> DEFINE r == len - b * M
               q == r \div ChunkMem
    <2>1. b = e /\ r \in Nat
      BY <1>2, <1>5 DEF LastBatch
    <2>2. q \in Nat /\ ChunkMem * q <= r
      BY <2>1, DivBounds, ChunksAssumption
    <2>3. k + 1 <= q
      BY <1>3, <1>5, <2>2 DEF LastThread, NumThreads
    <2>4. ChunkMem * (k + 1) <= ChunkMem * q
      BY <1>1, <1>3, <2>2, <2>3, TimesMonotone
    <2>5. b * M \in Int /\ ChunkMem * (k + 1) \in Int /\ ChunkMem * q \in Int
      BY <1>1, <1>3, <2>2
    <2>6. r = len - b * M
      OBVIOUS
    <2> HIDE DEF r, q
    <2> DEFINE x == b * M
               y == ChunkMem * (k + 1)
               z == ChunkMem * q
    <2>7. x \in Int /\ y \in Int /\ z \in Int /\ y <= z /\ z <= r /\ r = len - x
      BY <2>2, <2>4, <2>5, <2>6
    <2>8. Offset(b, k) + ChunkMem = x + y
      BY <1>4
    <2> HIDE DEF x, y, z
    <2> QED
      BY <2>1, <2>7, <2>8
  <1>6. CASE ~LastBatch(len, b)
    <2>1. b + 1 <= e /\ k + 1 <= MaxThreads
      BY <1>1, <1>2, <1>3, <1>6 DEF LastBatch, NumThreads
    <2>2. ChunkMem * (k + 1) <= M
      BY <1>1, <1>3, <2>1, TimesMonotone
    <2>3. M * (b + 1) <= M * e
      BY <1>1, <1>2, <1>3, <2>1, TimesMonotone
    <2> HIDE DEF M, e
    <2>4. M * (b + 1) = b * M + M /\ M * e = e * M /\ b * M \in Int /\ e * M \in Int
      BY <1>1, <1>2, <1>3
    <2>5. ChunkMem * (k + 1) \in Int
      BY <1>1, <1>3
    <2> DEFINE x == b * M
               y == ChunkMem * (k + 1)
               z == e * M
    <2>6. x \in Int /\ y \in Int /\ z \in Int /\ y <= M /\ x + M <= z /\ len - z \in Nat
      BY <1>2, <2>2, <2>3, <2>4, <2>5
    <2>7. Offset(b, k) + ChunkMem = x + y
      BY <1>4
    <2> HIDE DEF x, y, z
    <2> QED
      BY <1>1, <2>6, <2>7
  <1> QED
    BY <1>5, <1>6

-----------------------------------------------------------------------------
(* The facts about the current batch that the steps below use.             *)
LEMMA Batch ==
    ASSUME TypeOK
    PROVE  /\ num_threads \in 1..(MaxThreads + 1)
           /\ num_threads > MaxThreads => size = max_bytes_per_batch
           /\ ~LastBatch(size, batch) => num_threads = MaxThreads
           /\ NumBatches(size) \in Nat
           /\ \A k \in Nat : ChunkOf(batch, k) \in Chunk
  <1>1. size \in Nat /\ batch \in 0..(NumBatches(size) - 1) /\ batch \in Nat
    BY DEF TypeOK
  <1>2. NumBatches(size) \in Nat
    BY <1>1, BatchSize, DivBounds DEF NumBatches
  <1>3. /\ num_threads \in 1..(MaxThreads + 1)
        /\ num_threads > MaxThreads => size = max_bytes_per_batch
    BY <1>1, ThreadCount DEF num_threads
  <1>4. ~LastBatch(size, batch) => num_threads = MaxThreads
    BY DEF num_threads, NumThreads
  <1>5. ASSUME NEW k \in Nat
        PROVE  ChunkOf(batch, k) \in Chunk
    <2>1. CASE LastThread(size, batch, k)
      <3>1. k \in 0..(NumThreads(size, batch) - 1)
        BY <1>3, <2>1 DEF LastThread, num_threads
      <3> QED
        BY <1>1, <3>1, ReadLength, ChunkNumber, ChunksAssumption DEF ChunkOf, Chunk
    <2>2. CASE ~LastThread(size, batch, k)
      BY <1>1, <2>2, ChunkNumber, ChunksAssumption DEF ChunkOf, Chunk, ReadLen
    <2> QED
      BY <2>1, <2>2
  <1> QED
    BY <1>2, <1>3, <1>4, <1>5

(* Type correctness.  The part that is not syntactic is that the loops     *)
(* never leave the slots 0..MaxThreads or the batches of the file.         *)
LEMMA TypeInit == Init => TypeOK
  <1> SUFFICES ASSUME Init PROVE TypeOK
    OBVIOUS
  <1>1. size \in Nat /\ faults \in SUBSET FaultKinds
    BY PoolAssumption DEF Init
  <1>2. NumBatches(size) - 1 \in Nat
    BY <1>1, LastBatchStart
  <1>3. 0 \in 0..(NumBatches(size) - 1)
    BY <1>2
  <1> QED
    BY <1>1, <1>3, ChunksAssumption DEF Init, TypeOK, Slots, Chunk, NoChunk

LEMMA TypeStep == TypeOK /\ [Next]_vars => TypeOK'
  <1> SUFFICES ASSUME TypeOK, [Next]_vars PROVE TypeOK'
    OBVIOUS
  <1> USE DEF TypeOK, Slots
  <1>0. /\ num_threads \in 1..(MaxThreads + 1)
        /\ NumBatches(size) \in Nat
        /\ \A k \in Nat : ChunkOf(batch, k) \in Chunk
    BY Batch
  <1>1. CASE Fail
    BY <1>1 DEF Fail
  <1>2. CASE OpenOutput
    BY <1>1, <1>2 DEF OpenOutput
  <1>3. CASE Assign
    <2>1. t \in Nat /\ ChunkOf(batch, t) \in Chunk
      BY <1>0, ChunksAssumption
    <2> QED
      BY <1>0, <1>1, <1>3, <2>1, ChunksAssumption DEF Assign
  <1>4. CASE Create
    BY <1>0, <1>1, <1>4, ChunksAssumption DEF Create
  <1>5. CASE Own
    BY <1>0, <1>1, <1>5, ChunksAssumption DEF Own
  <1>6. CASE Join
    BY <1>0, <1>6, ChunksAssumption, SMTT(60) DEF Join
  <1>7. CASE Write
    <2>1. CASE Fail
      BY <1>1, <2>1
    <2>2. CASE ~Fail
      <3>1. /\ pc' \in {"write", "close", "assign"}
            /\ t' \in Slots
            /\ UNCHANGED <<size, faults, args, product, ret>>
        BY <1>0, <1>7, <2>2, ChunksAssumption DEF Write
      <3>2. batch' \in 0..(NumBatches(size) - 1)
        BY <1>0, <1>7, <2>2 DEF Write, LastBatch
      <3>3. out' = Append(out, product[t]) /\ product[t] \in Chunk
        BY <1>7, <2>2 DEF Write
      <3>4. worker' \in [Slots -> {"idle", "running", "done", "failed", "joined"}]
        BY <1>7, <2>2 DEF Write
      <3> QED
        BY <3>1, <3>2, <3>3, <3>4
    <2> QED
      BY <2>1, <2>2
  <1>8. CASE Close
    BY <1>8 DEF Close
  <1>9. ASSUME NEW k \in Slots, WorkerDone(k) PROVE TypeOK'
    BY <1>9 DEF WorkerDone
  <1>10. CASE UNCHANGED vars
    BY <1>10 DEF vars
  <1> QED
    BY <1>2, <1>3, <1>4, <1>5, <1>6, <1>7, <1>8, <1>9, <1>10 DEF Next, Caller

(* The caller's state has its types in every reachable state: no loop runs *)
(* past one slot beyond args, and batch_index stays below num_batches.     *)
THEOREM Typed == Spec => []TypeOK
  BY TypeInit, TypeStep, PTL DEF Spec

(* args is overrun only by a file of exactly one full batch, whatever the  *)
(* chunk size and the number of threads.                                   *)
THEOREM Overrun == Spec => []OverrunOnlyAtFullBatch
  <1>1. TypeOK => OverrunOnlyAtFullBatch
    BY Batch DEF OverrunOnlyAtFullBatch
  <1> QED
    BY <1>1, Typed, PTL

-----------------------------------------------------------------------------
(* A chunk's length and offset, for the current batch.                     *)
LEMMA BatchChunk ==
    ASSUME TypeOK, NEW k \in 0..(num_threads - 1)
    PROVE  LET ch == ChunkOf(batch, k)
           IN  /\ ch.off = (batch * MaxThreads + k) * ChunkMem
               /\ ch.len \in 0..ChunkMem
               /\ LastBatch(size, batch) /\ k = num_threads - 1 =>
                    ch.len < ChunkMem /\ ch.off + ch.len = size
               /\ ~(LastBatch(size, batch) /\ k = num_threads - 1) =>
                    ch.len = ChunkMem
  <1>1. /\ size \in Nat /\ batch \in 0..(NumBatches(size) - 1)
        /\ k \in 0..(NumThreads(size, batch) - 1)
        /\ batch \in Nat /\ k \in Nat
    BY Batch DEF TypeOK, num_threads
  <1>2. /\ ChunkOf(batch, k).off = Offset(batch, k)
        /\ ChunkOf(batch, k).len = ReadLen(size, batch, k)
    BY DEF ChunkOf
  <1>3. LastThread(size, batch, k) <=> LastBatch(size, batch) /\ k = num_threads - 1
    BY DEF LastThread, num_threads
  <1> QED
    BY <1>1, <1>2, <1>3, ReadLength, ChunkNumber

LEMMA InvInit == Init => PoolInv
  <1> SUFFICES ASSUME Init PROVE PoolInv
    OBVIOUS
  <1>1. TypeOK
    BY TypeInit
  <1>2. num_threads > 0
    BY <1>1, Batch
  <1>3. 0 * MaxThreads = 0
    BY ChunksAssumption
  <1> QED
    BY <1>1, <1>2, <1>3
       DEF Init, PoolInv, Holding, Working, Counting, InOrder, Slots

LEMMA InvStep == PoolInv /\ [Next]_vars => PoolInv'
  <1> SUFFICES ASSUME PoolInv, [Next]_vars PROVE PoolInv'
    OBVIOUS
  <1> USE DEF PoolInv
  <1>0. /\ TypeOK'
        /\ num_threads \in 1..(MaxThreads + 1)
        /\ \A k \in Nat : ChunkOf(batch, k) \in Chunk
        /\ batch \in Nat /\ t \in Nat
        /\ Len(out) \in Nat
    BY TypeStep, Batch, ChunksAssumption DEF TypeOK, Slots
  <1>1. CASE Fail
    BY <1>0, <1>1 DEF Fail, Holding, Working, Counting, InOrder, Written
  <1>2. CASE OpenOutput
    <2>1. CASE Fail
      BY <1>1, <2>1
    <2>2. CASE ~Fail
      <3>0. /\ pc = "open" /\ pc' = "assign"
            /\ UNCHANGED <<size, faults, batch, t, args, worker, product, out, ret>>
        BY <1>2, <2>2 DEF OpenOutput
      <3>2. Holding'
        BY <1>0, <3>0 DEF Holding, Working, Counting, num_threads
      <3>3. Working'
        BY <3>0 DEF Working
      <3>4. Counting' /\ InOrder'
        <4>1. 0 * MaxThreads = 0
          BY ChunksAssumption
        <4> QED
          BY <1>0, <3>0, <4>1 DEF Counting, InOrder, Written, num_threads
      <3> QED
        BY <1>0, <3>2, <3>3, <3>4
    <2> QED
      BY <2>1, <2>2
  <1>3. CASE Assign
    <2>1. CASE Fail
      BY <1>1, <2>1
    <2>2. CASE ret' = "crash"
      BY <1>0, <1>3, <2>2 DEF Assign, Fail, Holding, Working, Counting, InOrder, Written, TypeOK
    <2>3. CASE ~Fail /\ ret' # "crash"
      <3>0. /\ pc = "assign"
            /\ args' = [args EXCEPT ![t] = ChunkOf(batch, t)]
            /\ \/ t + 1 < num_threads /\ t' = t + 1 /\ pc' = pc
               \/ /\ ~(t + 1 < num_threads) /\ t' = 0
                  /\ pc' = IF num_threads = 1 THEN "own" ELSE "create"
            /\ UNCHANGED <<size, faults, batch, worker, product, out, ret>>
            /\ t < num_threads
            /\ \A k \in 0..(t - 1) : args[k] = ChunkOf(batch, k)
            /\ \A k \in Slots : worker[k] = "idle"
        BY <1>3, <2>3 DEF Assign, Holding, Working
      <3>1. \A k \in 0..t : args'[k] = ChunkOf(batch, k)
        BY <1>0, <3>0 DEF TypeOK, Slots
      <3>2. Holding'
        <4>1. num_threads' = num_threads
          BY <3>0 DEF num_threads
        <4>2. \A k \in 0..t : args'[k] = ChunkOf(batch, k)'
          BY <3>0, <3>1 DEF ChunkOf
        <4>3. pc' = "assign" =>
                t' < num_threads' /\ \A k \in 0..(t' - 1) : args'[k] = ChunkOf(batch, k)'
          BY <1>0, <3>0, <4>1, <4>2
        <4>4. pc' # "assign" => pc' \in {"create", "own"} /\ num_threads' - 1 = t
          BY <1>0, <3>0, <4>1
        <4>5. \A k \in Slots : worker'[k] = "idle"
          BY <3>0
        <4> QED
          BY <4>2, <4>3, <4>4, <4>5 DEF Holding
      <3>3. Working'
        BY <1>0, <3>0 DEF Working, TypeOK, Slots, num_threads
      <3>4. Counting' /\ InOrder'
        BY <1>0, <3>0 DEF Counting, InOrder, Written, TypeOK, num_threads
      <3> QED
        BY <1>0, <3>2, <3>3, <3>4
    <2> QED
      BY <2>1, <2>2, <2>3
  <1>4. CASE Create
    <2>1. CASE Fail
      BY <1>1, <2>1
    <2>2. CASE ~Fail
      <3>0. /\ pc = "create"
            /\ worker' = [worker EXCEPT ![t] = "running"]
            /\ \/ t + 1 < num_threads - 1 /\ t' = t + 1 /\ pc' = pc
               \/ ~(t + 1 < num_threads - 1) /\ t' = 0 /\ pc' = "own"
            /\ UNCHANGED <<size, faults, batch, args, product, out, ret>>
        BY <1>4, <2>2 DEF Create
      <3>1. \A k \in Slots : worker'[k] \in {"done", "joined"} => worker[k] = worker'[k]
        BY <3>0 DEF TypeOK
      <3>2. Holding'
        <4>1. pc' \in {"create", "own"} /\ num_threads' = num_threads
          BY <3>0 DEF num_threads
        <4>2. \A k \in 0..(num_threads - 1) : args'[k] = ChunkOf(batch, k)'
          BY <3>0 DEF Holding, ChunkOf
        <4>3. \A k \in Slots : worker'[k] \in {"done", "joined"} => product'[k] = args'[k]
          BY <3>0, <3>1 DEF Holding
        <4> QED
          BY <4>1, <4>2, <4>3 DEF Holding
      <3>3. Working'
        BY <1>0, <3>0 DEF Working, TypeOK, Slots, num_threads
      <3>4. Counting' /\ InOrder'
        BY <1>0, <3>0 DEF Counting, InOrder, Written, TypeOK, num_threads
      <3> QED
        BY <1>0, <3>2, <3>3, <3>4
    <2> QED
      BY <2>1, <2>2
  <1>5. CASE Own
    <2>1. CASE Fail
      BY <1>1, <2>1
    <2>2. CASE ~Fail
      <3> DEFINE n == num_threads - 1
      <3>0. /\ pc = "own"
            /\ product' = [product EXCEPT ![n] = args[n]]
            /\ worker' = [worker EXCEPT ![n] = "joined"]
            /\ pc' = IF n = 0 THEN "write" ELSE "join"
            /\ UNCHANGED <<size, faults, batch, t, args, out, ret>>
        BY <1>5, <2>2 DEF Own
      <3>1. n \in Slots /\ t = 0
        <4>1. n \in Slots
          BY <1>0, ChunksAssumption DEF Slots
        <4> QED
          BY <3>0, <4>1 DEF Working
      <3>2. \A k \in Slots : worker'[k] \in {"done", "joined"} => product'[k] = args[k]
        BY <3>0, <3>1 DEF Holding, TypeOK
      <3>3. Holding'
        BY <3>0, <3>2 DEF Holding, num_threads, ChunkOf
      <3>4. Working'
        BY <1>0, <3>0, <3>1 DEF Working, TypeOK, Slots, num_threads
      <3>5. batch * MaxThreads + 0 = batch * MaxThreads
        BY <1>0, ChunksAssumption
      <3>6. Counting' /\ InOrder'
        BY <3>0, <3>1, <3>5 DEF Counting, InOrder, Written
      <3> QED
        BY <1>0, <3>3, <3>4, <3>6
    <2> QED
      BY <2>1, <2>2
  <1>6. CASE Join
    <2>1. CASE worker[t] = "failed"
      BY <1>0, <1>6, <2>1 DEF Join, Holding, Working, Counting, InOrder, Written, TypeOK
    <2>2. CASE worker[t] # "failed"
      <3>0. /\ pc = "join" /\ worker[t] = "done"
            /\ worker' = [worker EXCEPT ![t] = "joined"]
            /\ \/ t + 1 < num_threads - 1 /\ t' = t + 1 /\ pc' = pc
               \/ ~(t + 1 < num_threads - 1) /\ t' = 0 /\ pc' = "write"
            /\ UNCHANGED <<size, faults, batch, args, product, out, ret>>
        BY <1>6, <2>2 DEF Join
      <3>1. \A k \in Slots : worker'[k] \in {"done", "joined"} => product[k] = args[k]
        BY <3>0 DEF Holding, TypeOK
      <3>2. Holding'
        BY <3>0, <3>1 DEF Holding, num_threads, ChunkOf
      <3>3. Working'
        BY <1>0, <3>0 DEF Working, TypeOK, Slots, num_threads
      <3>4. batch * MaxThreads + 0 = batch * MaxThreads
        BY <1>0, ChunksAssumption
      <3>5. Counting' /\ InOrder'
        BY <3>0, <3>4 DEF Counting, InOrder, Written
      <3> QED
        BY <1>0, <3>2, <3>3, <3>5
    <2> QED
      BY <2>1, <2>2
  <1>7. CASE Write
    <2>1. CASE Fail
      BY <1>1, <2>1
    <2>2. CASE ~Fail
      <3> DEFINE ch == ChunkOf(batch, t)
      <3>0. /\ pc = "write" /\ args[t].len > 0
            /\ out' = Append(out, product[t])
            /\ worker' = [worker EXCEPT ![t] = IF @ = "joined" THEN "idle" ELSE @]
            /\ UNCHANGED <<size, faults, args, product, ret>>
            /\ t < num_threads /\ worker[t] = "joined"
            /\ Len(out) = batch * MaxThreads + t
        BY <1>0, <1>7, <2>2 DEF Write, Working, Counting, TypeOK
      <3>1. product[t] = ch /\ args[t] = ch
        BY <1>0, <3>0 DEF Holding, TypeOK
      <3>2. /\ ch.off = Len(out) * ChunkMem
            /\ ch.len \in 1..ChunkMem
            /\ LastBatch(size, batch) /\ t = num_threads - 1 =>
                 ch.len < ChunkMem /\ ch.off + ch.len = size
            /\ ~(LastBatch(size, batch) /\ t = num_threads - 1) =>
                 ch.len = ChunkMem
        BY <1>0, <3>0, <3>1, BatchChunk
      <3>3. /\ out \in Seq(Chunk) /\ Len(out') = Len(out) + 1
            /\ \A i \in 1..Len(out) : out'[i] = out[i] /\ out[i].len = ChunkMem
            /\ out'[Len(out')] = ch
        BY <1>0, <3>0, <3>1 DEF TypeOK, Counting
      <3> HIDE DEF ch
      <3>4. InOrder'
        <4> SUFFICES ASSUME NEW i \in 1..Len(out')
                     PROVE  /\ out'[i].off = (i - 1) * ChunkMem
                            /\ i < Len(out') => out'[i].len = ChunkMem
          BY DEF InOrder
        <4>1. CASE i = Len(out')
          BY <1>0, <3>2, <3>3, <4>1
        <4>2. CASE i # Len(out')
          <5>1. i \in 1..Len(out)
            BY <1>0, <3>3, <4>2
          <5> QED
            BY <3>3, <5>1 DEF InOrder
        <4> QED
          BY <4>1, <4>2
      <3>5. \A k \in Slots : worker'[k] \in {"done", "joined"} => product'[k] = args'[k]
        BY <1>0, <3>0 DEF Holding, TypeOK, Slots
      <3>6. \A k \in Slots :
              worker'[k] = IF t + 1 <= k /\ k < num_threads THEN "joined" ELSE "idle"
        BY <1>0, <3>0 DEF Working, TypeOK, Slots
      <3>7. CASE t + 1 < num_threads
        <4>1. t' = t + 1 /\ UNCHANGED <<pc, batch>> /\ num_threads' = num_threads
          BY <1>7, <2>2, <3>0, <3>7 DEF Write, num_threads
        <4>2. Holding'
          BY <3>0, <3>5, <4>1 DEF Holding, ChunkOf
        <4>3. Working'
          BY <3>0, <3>6, <3>7, <4>1 DEF Working
        <4>4. Counting'
          <5>1. \A i \in 1..Len(out') : out'[i].len = ChunkMem
            BY <1>0, <3>2, <3>3, <3>7
          <5>2. batch * MaxThreads \in Int
            BY <1>0, ChunksAssumption
          <5> QED
            BY <1>0, <3>0, <3>3, <4>1, <5>1, <5>2 DEF Counting
        <4> QED
          BY <1>0, <3>4, <4>2, <4>3, <4>4
      <3>8. CASE ~(t + 1 < num_threads) /\ LastBatch(size, batch)
        <4>1. pc' = "close"
          BY <1>7, <2>2, <3>0, <3>8 DEF Write
        <4>2. t = num_threads - 1
          BY <1>0, <3>0, <3>8
        <4>3. Holding' /\ Working'
          BY <3>5, <4>1 DEF Holding, Working
        <4>4. Counting'
          <5>1. out' # <<>>
            BY <1>0, <3>3
          <5> QED
            BY <3>0, <3>2, <3>3, <3>8, <4>1, <4>2, <5>1, ChunksAssumption
               DEF Counting, Written
        <4> QED
          BY <1>0, <3>4, <4>3, <4>4
      <3>9. CASE ~(t + 1 < num_threads) /\ ~LastBatch(size, batch)
        <4>1. t' = 0 /\ pc' = "assign" /\ batch' = batch + 1
          BY <1>7, <2>2, <3>0, <3>9 DEF Write
        <4>2. num_threads = MaxThreads /\ t = MaxThreads - 1
          BY <1>0, <3>0, <3>9, Batch, ChunksAssumption
        <4>3. num_threads' > 0
          <5>1. (num_threads \in 1..(MaxThreads + 1))'
            BY <1>0, Batch, PTL
          <5> QED
            BY <5>1, ChunksAssumption
        <4>4. Holding'
          BY <3>5, <4>1, <4>3 DEF Holding
        <4>5. Working'
          BY <1>0, <3>6, <4>1, <4>2, ChunksAssumption DEF Working, Slots
        <4>6. Counting'
          <5>1. \A i \in 1..Len(out') : out'[i].len = ChunkMem
            BY <1>0, <3>2, <3>3, <3>9
          <5>2. (batch + 1) * MaxThreads = batch * MaxThreads + MaxThreads
            BY <1>0, ChunksAssumption
          <5>3. batch * MaxThreads \in Int
            BY <1>0, ChunksAssumption
          <5>4. Len(out') = batch' * MaxThreads
            BY <1>0, <3>0, <3>3, <4>1, <4>2, <5>2, <5>3, ChunksAssumption
          <5> QED
            BY <3>0, <4>1, <4>3, <5>1, <5>4 DEF Counting
        <4> QED
          BY <1>0, <3>4, <4>4, <4>5, <4>6
      <3> QED
        BY <3>7, <3>8, <3>9
    <2> QED
      BY <2>1, <2>2
  <1>8. CASE Close
    BY <1>0, <1>8 DEF Close, Holding, Working, Counting, InOrder, Written,
        num_threads, ChunkOf
  <1>9. ASSUME NEW k \in Slots, WorkerDone(k) PROVE PoolInv'
    <2>0. /\ worker[k] = "running"
          /\ \/ /\ worker' = [worker EXCEPT ![k] = "done"]
                /\ product' = [product EXCEPT ![k] = args[k]]
             \/ worker' = [worker EXCEPT ![k] = "failed"] /\ product' = product
          /\ UNCHANGED <<size, faults, pc, batch, t, args, out, ret>>
          /\ num_threads' = num_threads
      BY <1>9 DEF WorkerDone, num_threads
    <2>1. \A j \in Slots :
            /\ worker'[j] \in {"done", "joined"} => product'[j] = args[j]
            /\ worker[j] \in {"idle", "joined"} => worker'[j] = worker[j]
      BY <1>9, <2>0 DEF Holding, TypeOK
    <2>2. Holding'
      BY <2>0, <2>1 DEF Holding, ChunkOf
    <2>3. Working'
      BY <2>0, <2>1 DEF Working
    <2>4. Counting' /\ InOrder'
      BY <2>0 DEF Counting, InOrder, Written
    <2> QED
      BY <1>0, <2>2, <2>3, <2>4
  <1>10. CASE UNCHANGED vars
    BY <1>0, <1>10 DEF vars, Holding, Working, Counting, InOrder, Written,
        num_threads, ChunkOf
  <1> QED
    BY <1>2, <1>3, <1>4, <1>5, <1>6, <1>7, <1>8, <1>9, <1>10 DEF Next, Caller

(* The inductive invariant holds in every reachable state.                 *)
THEOREM Inductive == Spec => []PoolInv
  BY InvInit, InvStep, PTL DEF Spec

(* The output is a prefix of the transformed input in every state, in      *)
(* whatever order the workers run and whichever step fails.                *)
THEOREM Ordered == Spec => []InOrder
  <1>1. PoolInv => InOrder
    BY DEF PoolInv
  <1> QED
    BY <1>1, Inductive, PTL

(* A call that returns 0 has written the whole input.                      *)
THEOREM Whole == Spec => []Complete
  <1>1. PoolInv => Complete
    BY DEF PoolInv, Counting, Complete, Written
  <1> QED
    BY <1>1, Inductive, PTL

(* No slot is assigned a new chunk while a worker is on it or its result   *)
(* is still to be written.                                                 *)
THEOREM NoReuse == Spec => SlotsNotReused
  <1>1. ASSUME PoolInv, [Next]_vars, NEW k \in Slots, args'[k] # args[k]
        PROVE  worker[k] = "idle"
    <2>1. args' # args
      BY <1>1
    <2>2. Assign
      BY <1>1, <2>1 DEF Next, Caller, OpenOutput, Create, Own, Join, Write,
          Close, Fail, WorkerDone, vars
    <2> QED
      BY <1>1, <2>2 DEF Assign, PoolInv, Working
  <1>2. PoolInv /\ [Next]_vars =>
          [\A k \in Slots : args'[k] # args[k] => worker[k] = "idle"]_vars
    BY <1>1
  <1> QED
    BY <1>2, Inductive, PTL DEF Spec, SlotsNotReused

-----------------------------------------------------------------------------
(* How far the output has got: a whole number of chunks until the last one *)
(* is written, and the size of the file after that.                        *)
LEMMA Progress ==
    ASSUME PoolInv, pc # "close", pc # "returned"
    PROVE  Written = Len(out) * ChunkMem
  <1>1. CASE out = <<>>
    BY <1>1, ChunksAssumption DEF Written
  <1>2. CASE out # <<>>
    <2>1. Len(out) \in Nat \ {0}
      BY <1>2 DEF PoolInv, TypeOK
    <2>2. /\ out[Len(out)].len = ChunkMem
          /\ out[Len(out)].off = (Len(out) - 1) * ChunkMem
      BY <2>1 DEF PoolInv, Counting, InOrder
    <2> QED
      BY <1>2, <2>1, <2>2, ChunksAssumption DEF Written
  <1> QED
    BY <1>1, <1>2

(* Writing a chunk is a step of the sequential loop.                       *)
LEMMA WriteStep ==
    ASSUME PoolInv, Write, ~Fail
    PROVE  Sequential!TakeChunk
  <1>0. /\ pc = "write" /\ args[t].len > 0
        /\ out' = Append(out, product[t])
        /\ UNCHANGED <<size, ret>>
        /\ t < num_threads /\ worker[t] = "joined" /\ t \in Nat
        /\ Len(out) = batch * MaxThreads + t
        /\ ret = "none"
    BY Batch DEF Write, PoolInv, Working, Counting, TypeOK, Slots
  <1> DEFINE ch == ChunkOf(batch, t)
  <1>1. t \in 0..(num_threads - 1)
    BY <1>0, Batch DEF PoolInv
  <1>2. product[t] = ch /\ args[t] = ch
    BY <1>0, <1>1 DEF PoolInv, Holding, TypeOK
  <1>3. ch.off = Len(out) * ChunkMem
    BY <1>0, <1>1, BatchChunk DEF PoolInv
  <1>4. Written = ch.off
    BY <1>0, <1>3, Progress
  <1>5. Written' = ch.off + ch.len
    <2>1. out \in Seq(Chunk) /\ ch \in Chunk
      BY <1>0, Batch DEF PoolInv, TypeOK
    <2>2. Len(out') = Len(out) + 1 /\ out'[Len(out')] = ch /\ out' # <<>>
      BY <1>0, <1>2, <2>1
    <2> QED
      BY <2>2 DEF Written
  <1>6. /\ ch.len \in 1..ChunkMem
        /\ ch.off \in Nat
        /\ ch.off + ch.len <= size
        /\ ch.len < ChunkMem => ch.off + ch.len = size
    <2>1. ch.len \in 1..ChunkMem /\ ch.off \in Nat
      BY <1>0, <1>1, <1>2, BatchChunk, Batch DEF PoolInv, Chunk
    <2>2. CASE LastBatch(size, batch) /\ t = num_threads - 1
      BY <1>1, <2>1, <2>2, BatchChunk DEF PoolInv
    <2>3. CASE ~(LastBatch(size, batch) /\ t = num_threads - 1)
      <3>1. ch.len = ChunkMem
        BY <1>1, <2>3, BatchChunk DEF PoolInv
      <3>2. Offset(batch, t) + ChunkMem <= size
        BY <1>1, <2>3, WholeChunkInside DEF PoolInv, TypeOK, num_threads, LastThread
      <3> QED
        BY <2>1, <3>1, <3>2 DEF ChunkOf
    <2> QED
      BY <2>2, <2>3
  <1> HIDE DEF ch
  <1> QED
    BY <1>0, <1>4, <1>5, <1>6, ChunksAssumption
       DEF Sequential!TakeChunk, PoolInv, TypeOK

(* The pool implements the sequential loop: every step of its threads is a *)
(* step of the loop or leaves its state alone.                             *)
THEOREM Refinement == Spec => SequentialSpec
  <1>1. Init => Sequential!Init
    BY DEF Init, Sequential!Init, Written
  <1>2. ASSUME PoolInv, [Next]_vars
        PROVE  [Sequential!Next]_(Sequential!vars)
    <2> USE DEF Sequential!Next, Sequential!vars
    <2>1. ASSUME pc # "returned", Fail PROVE Sequential!GiveUp
      BY <1>2, <2>1 DEF Fail, Sequential!GiveUp, PoolInv, Counting, Written
    <2>2. ASSUME UNCHANGED <<size, out, ret>> PROVE UNCHANGED Sequential!vars
      BY <2>2 DEF Written
    <2>3. CASE OpenOutput
      BY <2>1, <2>2, <2>3 DEF OpenOutput
    <2>4. CASE Assign
      <3>1. CASE ret' = "crash" /\ UNCHANGED <<size, out>>
        BY <1>2, <2>4, <3>1
           DEF Assign, Sequential!GiveUp, PoolInv, Counting, Written
      <3> QED
        BY <2>1, <2>2, <2>4, <3>1 DEF Assign
    <2>5. CASE Create
      BY <2>1, <2>2, <2>5 DEF Create
    <2>6. CASE Own
      BY <2>1, <2>2, <2>6 DEF Own
    <2>7. CASE Join
      <3>1. CASE ret' = "error" /\ UNCHANGED <<size, out>>
        BY <1>2, <2>7, <3>1
           DEF Join, Sequential!GiveUp, PoolInv, Counting, Written
      <3> QED
        BY <2>2, <2>7, <3>1 DEF Join
    <2>8. CASE Write
      <3>1. CASE Fail
        BY <2>1, <2>8, <3>1 DEF Write
      <3>2. CASE ~Fail
        BY <1>2, <2>8, <3>2, WriteStep
      <3> QED
        BY <3>1, <3>2
    <2>9. CASE Close
      BY <1>2, <2>9
         DEF Close, Sequential!Finish, PoolInv, Counting, Written
    <2>10. ASSUME NEW k \in Slots, WorkerDone(k)
           PROVE  UNCHANGED Sequential!vars
      BY <2>2, <2>10 DEF WorkerDone
    <2>11. CASE UNCHANGED vars
      BY <2>2, <2>11 DEF vars
    <2> QED
      BY <1>2, <2>3, <2>4, <2>5, <2>6, <2>7, <2>8, <2>9, <2>10, <2>11
         DEF Next, Caller
  <1> QED
    BY <1>1, <1>2, Inductive, PTL DEF Spec, SequentialSpec, Sequential!Spec
=============================================================================
