---------------------------- MODULE CryptStream ----------------------------
(***************************************************************************)
(* What enc_file (src/src/enc.c:168-393) makes of a stream of bytes and    *)
(* dec_file (445-638) of what arrives of it.  The cipher works on whole    *)
(* blocks: an encrypted byte says nothing without the rest of its block.   *)
(* The end of the stream carries the padding: its last byte says how many  *)
(* bytes to take off.                                                      *)
(***************************************************************************)
EXTENDS CompStream

CONSTANTS
    EncMem, EncThreads,  \* ENC_THREAD_MAX_MEM, ENC_MAX_THREADS
    Block,               \* the 16 bytes of a cipher block
    ByteMax              \* largest value of a byte

ASSUME CryptAssumption ==
    EncMem \in Nat \ {0} /\ EncThreads \in Nat \ {0} /\ Block \in Nat \ {0}
ASSUME ByteMaxAssumption == ByteMax \in Nat

E == INSTANCE Chunks WITH ChunkMem <- EncMem, MaxThreads <- EncThreads

(* Bytes of no chunk: padding of n bytes, each saying so, and leftovers.   *)
Padding(n) == [j \in 1..n |-> Byte(0, n)]
Junk(n) == [j \in 1..n |-> Byte(0, 0)]

(* The chunks a stream of the given bytes is cut into.                     *)
Cut(s) ==
    FlattenSeq([b \in 1..E!NumBatches(Len(s)) |->
        [t \in 1..E!NumThreads(Len(s), b - 1) |->
            LET off == E!Offset(b - 1, t - 1)
            IN  SubSeq(s, off + 1, off + E!ReadLen(Len(s), b - 1, t - 1))]])

Encrypt(text) == [i \in 1..Block |-> <<"encrypted", text, i>>]

Decrypt(code) ==
    IF \A i \in 1..Block : code[i] = <<"encrypted", code[1][2], i>>
    THEN code[1][2]
    ELSE Junk(Block)

BlockAt(s, i) == SubSeq(s, (i - 1) * Block + 1, i * Block)

(* Encrypts whole blocks; bytes stranded after the last are padded.        *)
encrypt_chunk_of_file(inbuf) ==
    LET num_stranded_bytes == Len(inbuf) % Block
        padded == num_stranded_bytes # 0
        text == IF padded THEN inbuf \o Padding(Block - num_stranded_bytes) ELSE inbuf
    IN  [padded |-> padded,
         outbuf |-> FlattenSeq([i \in 1..(Len(text) \div Block) |-> Encrypt(BlockAt(text, i))])]

(* Mutant: a chunk that ends at a block needs no padding block.            *)
enc_fileUnpadded(s) ==
    LET inbufs == Cut(s)
    IN  FlattenSeq([k \in 1..Len(inbufs) |-> encrypt_chunk_of_file(inbufs[k]).outbuf])

(* If the final chunk is not padded yet, a block of padding follows it.    *)
enc_file(s) ==
    LET inbufs == Cut(s)
        last == encrypt_chunk_of_file(Last(inbufs))
    IN  FlattenSeq([k \in 1..Len(inbufs) |-> encrypt_chunk_of_file(inbufs[k]).outbuf])
        \o (IF last.padded THEN <<>> ELSE Encrypt(Padding(Block)))

(* fwrite of an empty chunk counts as a failure, here and in dec_file.     *)
enc_file_fails(s) == <<>> \in Range(Cut(s))

(* The values num_pad_bytes may have: the byte is data in a cut stream.    *)
PadBytes(byte) ==
    IF byte \in {Byte(0, n) : n \in 1..Block} THEN {byte[2]} ELSE 0..ByteMax

(* Bytes stranded after the last block are never decrypted: outbuf is left *)
(* as it was allocated there.                                              *)
Decrypted(inbuf) ==
    LET blocks == Len(inbuf) \div Block
    IN  FlattenSeq([i \in 1..blocks |-> Decrypt(BlockAt(inbuf, i))])
        \o Junk(Len(inbuf) % Block)

(* The lengths decrypt_chunk_of_file may give outbuf: trimming happens at  *)
(* the last block of the last chunk and only if the chunk ends there.  The *)
(* subtraction is unsigned: below 0 stands for a length beyond any buffer. *)
outbuf_lens(inbuf, padded) ==
    IF padded /\ Len(inbuf) > 0 /\ Len(inbuf) % Block = 0
    THEN {Len(inbuf) - n : n \in PadBytes(Last(Decrypted(inbuf)))}
    ELSE {Len(inbuf)}

(* The ways dec_file may end: the stream it wrote and what it returned.    *)
dec_file(s) ==
    LET inbufs == Cut(s)
        n == Len(inbufs)
        whole == FlattenSeq([k \in 1..(n - 1) |-> Decrypted(inbufs[k])])
    IN  {IF len > 0
         THEN [ret |-> "ok", stream |-> whole \o SubSeq(Decrypted(inbufs[n]), 1, len)]
         ELSE [ret |-> IF len = 0 THEN "error" ELSE "undefined", stream |-> <<>>] :
             len \in outbuf_lens(inbufs[n], TRUE)}
=============================================================================
