------------------------------ MODULE Pipeline ------------------------------
(***************************************************************************)
(* A file's way from one end to the other (src/src/ecftp.c:159-312):       *)
(* comp_file, enc_file, the data connection, dec_file, uncomp_file.  The   *)
(* connection delivers the stream, or the beginning of it when the sender  *)
(* goes away: the receiver cannot tell the two apart and processes either. *)
(* Temporary files and replies are Transfer's.                             *)
(***************************************************************************)
EXTENDS CryptStream, UncompFile

CONSTANT Sizes  \* sizes of files to send

ASSUME PipelineAssumption ==
    /\ Sizes \subseteq Nat
    /\ Block < EC_HEADER_SIZE /\ EncMem % Block = 0
    /\ Huge \in GarbledSizes

VARIABLES
    size,  \* size of the file
    sent,  \* how long the encrypted stream was
    fate   \* whether it arrived whole

vars == <<headers, stream, faults, uncompVars, size, sent, fate>>

Init ==
    /\ size \in Sizes /\ headers \in Headers(size)
    /\ stream = <<>> /\ sent = 0 /\ fate = "whole"
    /\ faults \in BOOLEAN
    /\ pc = "compress" /\ UncompInit

(* A file of exactly one full batch has a thread too many (ChunkPool): the *)
(* call fails or runs over args.                                           *)
FullBatch(n, max) == IF n = max THEN {"error", "undefined"} ELSE {"error"}

End(r) == Return(r) /\ UNCHANGED <<walkVars, num_threads, t, args, worker, product, out, stream>>
On(next) ==
    /\ pc' = next
    /\ UNCHANGED <<walkVars, num_threads, t, args, worker, product, out, ret>>

Compress ==
    /\ pc = "compress"
    /\ \/ /\ ~comp_file_fails(size)
          /\ stream' = comp_file(headers)
          /\ On("encrypt")
       \/ /\ comp_file_fails(size)
          /\ \E r \in FullBatch(size, C!max_bytes_per_batch) : End(r)
    /\ UNCHANGED <<headers, faults, size, sent, fate>>

EncryptFile ==
    /\ pc = "encrypt"
    /\ \/ /\ ~enc_file_fails(stream)
          /\ stream' = enc_file(stream) /\ sent' = Len(stream')
          /\ On("send")
       \/ /\ enc_file_fails(stream) /\ UNCHANGED sent
          /\ \E r \in FullBatch(Len(stream), E!max_bytes_per_batch) : End(r)
    /\ UNCHANGED <<headers, faults, size, fate>>

(* The data connection keeps order; it ends early when the sender does.    *)
Receive ==
    /\ pc = "send"
    /\ \E n \in 0..sent :
         /\ stream' = SubSeq(stream, 1, n)
         /\ fate' = IF n = sent THEN "whole" ELSE "cut"
    /\ On("decrypt")
    /\ UNCHANGED <<headers, faults, size, sent>>

(* Then uncomp_file opens what dec_file wrote.                             *)
DecryptFile ==
    /\ pc = "decrypt"
    /\ \E d \in dec_file(stream) :
         \/ /\ d.ret = "ok"
            /\ stream' = d.stream /\ bytes_left' = Len(d.stream)
            /\ pc' = "header"
            /\ UNCHANGED <<in_file, cur_pos, num_threads, t, args, worker, product, out, ret>>
         \/ /\ d.ret # "ok"
            /\ \E r \in {d.ret} \cup FullBatch(Len(stream), E!max_bytes_per_batch) : End(r)
    /\ UNCHANGED <<headers, faults, size, sent, fate>>

(* Any of the four files may also fail for the system's reasons.           *)
StepFails ==
    /\ faults /\ pc \in {"compress", "encrypt", "decrypt"}
    /\ End("error")
    /\ UNCHANGED <<headers, faults, size, sent, fate>>

Uncompress == UncompNext /\ UNCHANGED <<size, sent, fate>>

Next == Compress \/ EncryptFile \/ Receive \/ DecryptFile \/ StepFails \/ Uncompress
Spec == Init /\ [][Next]_vars

(* All of these are threads that run until they are done; only the join    *)
(* waits.  The connection ends, one way or the other.                      *)
FairSpec ==
    /\ Spec
    /\ WF_vars(Compress \/ EncryptFile \/ Receive \/ DecryptFile)
    /\ WF_vars(UncompCaller /\ UNCHANGED <<headers, stream, faults, size, sent, fate>>)
    /\ \A k \in Slots :
         WF_vars(WorkerDone(k) /\ UNCHANGED <<headers, stream, faults, size, sent, fate>>)

-----------------------------------------------------------------------------
comp_len == Len(comp_file(headers))

(* A stream that arrived whole and was processed with success comes out as *)
(* the file that went in: every chunk, in order, undamaged                 *)
(* (src/src/comp.c:701-707, src/src/enc.c:425).                            *)
RoundTrip ==
    ret = "ok" /\ fate = "whole" =>
        /\ Len(out) = Len(headers)
        /\ \A k \in 1..Len(out) : out[k].chunk = k /\ out[k].intact

(* Where nothing fails and the stream arrives whole, the file comes out,   *)
(* whatever its size, except at three edges: a file of full chunks, a      *)
(* compressed stream of full chunks, or an encrypted one.  The last edge   *)
(* is met only at the receiver, after the sender was told all went well    *)
(* (src/src/enc.c:575-577, 617-620).                                       *)
FailsAtEdgesOnly ==
    <>(\/ faults \/ fate = "cut"
       \/ IF \/ size % CompMem = 0
             \/ comp_len % EncMem \in {0} \cup {EncMem - n : n \in 1..Block}
          THEN ret \in {"error", "undefined"}
          ELSE ret = "ok")

(* A stream cut short can still be processed with success.  What is stored *)
(* then is the beginning of the file, whole chunks of it in order; only    *)
(* the last one can be damaged, where the cut fell in the block of its     *)
(* last bytes (src/src/enc.c:409-428, src/src/comp.c:595-605).             *)
DamageContained ==
    ret = "ok" =>
        /\ Len(out) \in 1..Len(headers)
        /\ \A k \in 1..Len(out) :
             /\ out[k].chunk = k
             /\ ~out[k].intact => k = Len(out) /\ fate = "cut"

(* A length below zero in dec_file, a batch without chunks and a chunk     *)
(* longer than its buffer in uncomp_file need a stream that was cut: what  *)
(* comp_file and enc_file write leads to none of them, apart from the      *)
(* slot too many of a full batch (src/src/enc.c:425, src/src/comp.c:680).  *)
UndefinedOnlyWhenCut ==
    ret = "undefined" /\ fate = "whole" =>
        \/ size = C!max_bytes_per_batch
        \/ comp_len = E!max_bytes_per_batch
        \/ sent = E!max_bytes_per_batch
=============================================================================
