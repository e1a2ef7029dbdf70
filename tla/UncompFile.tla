----------------------------- MODULE UncompFile -----------------------------
(***************************************************************************)
(* uncomp_file (src/src/comp.c:512-726): the calling thread walks the EC   *)
(* headers of the stream to give each slot of args a chunk, starts a       *)
(* worker for each but the last, does the last itself, joins and writes,   *)
(* batch after batch until no bytes are left.  Unlike comp_file it learns  *)
(* how many chunks there are only by running into the end of the stream.   *)
(***************************************************************************)
EXTENDS CompStream, FiniteSets

CONSTANTS
    GarbledSizes,  \* sizes a damaged header may hold
    Huge           \* one of them, beyond what malloc gives

ASSUME GarbledAssumption == GarbledSizes \subseteq Nat

VARIABLES
    headers,      \* the headers comp_file gave the chunks of the file
    stream,       \* the bytes of the input file
    faults,       \* whether a call into the system may fail
    pc,           \* the calling thread's control point
    in_file,      \* position of the stream the headers are read from
    cur_pos,      \* position the readers are sent to
    bytes_left,
    num_threads,
    t,            \* thread_index, or t, of the current loop
    args,         \* the header and the reader's position of each slot
    worker,       \* what the thread of each slot is doing
    product,      \* outbuf of each slot
    out,          \* the outbufs written to the output file
    ret           \* what the function returned

walkVars == <<in_file, cur_pos, bytes_left>>
uncompVars == <<pc, in_file, cur_pos, bytes_left, num_threads, t, args, worker, product, out, ret>>

Slots == 0..(CompThreads - 1)
NoHeader == [compressed |-> FALSE, orig_size |-> 0, proc_size |-> 0]
NoArg == [chunk |-> 0, echeader |-> NoHeader, input_reader |-> 0]
NoPiece == [chunk |-> 0, len |-> 0, held |-> 0, intact |-> FALSE]

UncompInit ==
    /\ in_file = 0 /\ cur_pos = 0 /\ bytes_left = 0 /\ num_threads = CompThreads /\ t = 0
    /\ args = [k \in Slots |-> NoArg]
    /\ worker = [k \in Slots |-> "idle"]
    /\ product = [k \in Slots |-> NoPiece]
    /\ out = <<>> /\ ret = "none"

Return(r) == pc' = "returned" /\ ret' = r

(* Every error path is a plain return: workers are not joined.             *)
Fail ==
    /\ Return("error")
    /\ UNCHANGED <<walkVars, num_threads, t, args, worker, product, out>>

(* fopen, malloc, pthread_create, a read or a write fails.                 *)
CallFails == faults /\ pc \in {"header", "create", "own", "join", "write"} /\ Fail

(* What read_ec_header may find after position p: a field whose bytes are  *)
(* all there is as it was written, another holds anything.                 *)
HeadersAt(p) ==
    LET k == stream[p + 1][1]
        Intact(first, last) == \A i \in first..last : stream[p + i] = Byte(k, i)
        Field(intact, value, any) == IF intact THEN {value} ELSE any
    IN  [compressed : Field(Intact(1, 1), headers[k].compressed, BOOLEAN),
         orig_size : Field(Intact(2, SizeLen + 1), headers[k].orig_size, GarbledSizes),
         proc_size : Field(Intact(SizeLen + 2, EC_HEADER_SIZE), headers[k].proc_size, GarbledSizes)]

(* Mutant: the properties are not counted when the readers are placed.     *)
WalkNoProps(h) ==
    LET used == RecordLen(h)
    IN  /\ in_file' = in_file + used
        /\ cur_pos' = cur_pos + used - num_props_bytes(h)
        /\ bytes_left' = bytes_left - used

(* Mutant: the properties stay among the bytes left.                       *)
WalkPropsLeft(h) ==
    LET used == RecordLen(h)
    IN  /\ in_file' = in_file + used
        /\ cur_pos' = cur_pos + used
        /\ bytes_left' = bytes_left - used + num_props_bytes(h)

(* STA6, STA7: on to the next header, which may be past the end.           *)
Walk(h) ==
    LET used == RecordLen(h)
    IN  /\ in_file' = in_file + used
        /\ cur_pos' = cur_pos + used
        /\ bytes_left' = bytes_left - used

(* RT1 starts no thread when there is only one chunk.                      *)
StartThreads(n) ==
    /\ num_threads' = n /\ t' = 0
    /\ pc' = IF n = 1 THEN "own" ELSE "create"

(* STA: one turn of the loop that reads a header and fills in args[t].     *)
ReadHeader ==
    /\ pc = "header" /\ in_file + EC_HEADER_SIZE <= Len(stream)
    /\ \E h \in HeadersAt(in_file) :
         \/ /\ h.proc_size = Huge \/ (h.compressed /\ h.orig_size = Huge)
            /\ Fail
         \/ /\ h.proc_size # Huge /\ (h.compressed => h.orig_size # Huge)
            /\ args' = [args EXCEPT ![t] =
                  [chunk |-> stream[in_file + 1][1], echeader |-> h,
                   input_reader |-> cur_pos + EC_HEADER_SIZE]]
            /\ Walk(h)
            /\ IF t + 1 < CompThreads
               THEN t' = t + 1 /\ UNCHANGED <<pc, num_threads>>
               ELSE StartThreads(CompThreads)
            /\ UNCHANGED <<worker, product, out, ret>>

(* STA1: the header runs into the end of the file: the last chunk has been *)
(* read.  When this batch has no chunk at all, the thread's own chunk is   *)
(* args[-1] and what happens is undefined.                                 *)
ReadPastEnd ==
    /\ pc = "header" /\ in_file + EC_HEADER_SIZE > Len(stream)
    /\ in_file' = IF in_file < Len(stream) THEN Len(stream) ELSE in_file
    /\ IF t = 0
       THEN Return("undefined") /\ UNCHANGED <<num_threads, t>>
       ELSE StartThreads(t) /\ UNCHANGED ret
    /\ UNCHANGED <<cur_pos, bytes_left, args, worker, product, out>>

Create ==
    /\ pc = "create"
    /\ worker' = [worker EXCEPT ![t] = "running"]
    /\ IF t + 1 < num_threads - 1 THEN t' = t + 1 /\ UNCHANGED pc ELSE t' = 0 /\ pc' = "own"
    /\ UNCHANGED <<walkVars, num_threads, args, product, out, ret>>

(* uncompress_chunk_of_file: the pieces outbuf may come to hold, none if   *)
(* the chunk cannot be read or uncompressed.  Damaged LZMA data may go     *)
(* unnoticed; raw data has nothing to notice it by.                        *)
uncompress_chunk_of_file(arg) ==
    LET h == arg.echeader
        readlen == num_props_bytes(h) + h.proc_size
        intact ==
            /\ h = headers[arg.chunk]
            /\ \A i \in 1..readlen :
                 stream[arg.input_reader + i] = Byte(arg.chunk, EC_HEADER_SIZE + i)
    IN  IF arg.input_reader + readlen > Len(stream)
        THEN {}
        ELSE {[chunk |-> arg.chunk, len |-> h.orig_size, intact |-> intact,
               held |-> IF h.compressed THEN h.orig_size ELSE h.proc_size]}

MayFail(arg) ==
    \/ uncompress_chunk_of_file(arg) = {}
    \/ arg.echeader.compressed /\ \E p \in uncompress_chunk_of_file(arg) : ~p.intact

(* RT2: the calling thread does the last chunk itself.                     *)
Own ==
    /\ pc = "own"
    /\ LET k == num_threads - 1
       IN  \/ \E p \in uncompress_chunk_of_file(args[k]) :
                /\ product' = [product EXCEPT ![k] = p]
                /\ worker' = [worker EXCEPT ![k] = "joined"]
                /\ pc' = IF k = 0 THEN "write" ELSE "join"
                /\ UNCHANGED <<walkVars, num_threads, t, args, out, ret>>
           \/ MayFail(args[k]) /\ Fail

WorkerDone(k) ==
    /\ worker[k] = "running"
    /\ \/ \E p \in uncompress_chunk_of_file(args[k]) :
             /\ product' = [product EXCEPT ![k] = p]
             /\ worker' = [worker EXCEPT ![k] = "done"]
       \/ /\ faults \/ MayFail(args[k])
          /\ worker' = [worker EXCEPT ![k] = "failed"]
          /\ UNCHANGED product
    /\ UNCHANGED <<pc, walkVars, num_threads, t, args, out, ret>>

(* Mutant: the results are used without joining the workers.               *)
JoinNot ==
    /\ pc = "join"
    /\ t' = 0 /\ pc' = "write"
    /\ UNCHANGED <<walkVars, num_threads, args, worker, product, out, ret>>

Join ==
    /\ pc = "join"
    /\ \/ /\ worker[t] = "done"
          /\ worker' = [worker EXCEPT ![t] = "joined"]
          /\ IF t + 1 < num_threads - 1 THEN t' = t + 1 /\ UNCHANGED pc ELSE t' = 0 /\ pc' = "write"
          /\ UNCHANGED <<walkVars, num_threads, args, product, out, ret>>
       \/ worker[t] = "failed" /\ Fail

(* MUTW: an empty outbuf counts as a failed write, and one said to be      *)
(* longer than the buffer it points to is read past its end.               *)
Write ==
    /\ pc = "write"
    /\ \/ /\ product[t].len \in 1..product[t].held
          /\ out' = Append(out, product[t])
          /\ worker' = [worker EXCEPT ![t] = "idle"]
          /\ IF t + 1 < num_threads
             THEN t' = t + 1 /\ UNCHANGED <<pc, ret>>
             ELSE /\ t' = 0
                  /\ IF bytes_left > 0
                     THEN pc' = "header" /\ UNCHANGED ret
                     ELSE Return("ok")
          /\ UNCHANGED <<walkVars, num_threads, args, product>>
       \/ product[t].len = 0 /\ Fail
       \/ /\ product[t].len > product[t].held
          /\ Return("undefined")
          /\ UNCHANGED <<walkVars, num_threads, t, args, worker, product, out>>

UncompCaller == ReadHeader \/ ReadPastEnd \/ Create \/ Own \/ Join \/ Write \/ CallFails
UncompNext ==
    /\ UncompCaller \/ \E k \in Slots : WorkerDone(k)
    /\ UNCHANGED <<headers, stream, faults>>
=============================================================================
