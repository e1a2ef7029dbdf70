--------------------------- MODULE PipelineProofs ---------------------------
(***************************************************************************)
(* Pipeline for every file, every size of chunk, block and header, every   *)
(* number of threads, every place where the stream is cut and every        *)
(* reading of a damaged header: the inductive invariant of uncomp_file's   *)
(* walk and of its workers, and the three promises that follow from it.    *)
(***************************************************************************)
EXTENDS Pipeline, StreamProofs

Arg == [chunk : Nat, echeader : Header, input_reader : Nat]
Piece == [chunk : Nat, len : Nat, held : Nat, intact : BOOLEAN]
Started == {"running", "done", "failed"}

(* An argument is that of chunk k, of which the stream has what comes      *)
(* before place m, and a piece is what a worker made of it.                *)
ArgFits(hs, a, k, m) ==
    /\ a \in Arg /\ k \in 1..Len(hs)
    /\ a.chunk = k /\ a.input_reader = Starts(hs)[k - 1] + EC_HEADER_SIZE
    /\ Starts(hs)[k - 1] < m
    /\ Starts(hs)[k - 1] + EC_HEADER_SIZE <= m => a.echeader = hs[k]

PieceFits(hs, p, k, m) ==
    /\ p \in Piece /\ k \in 1..Len(hs)
    /\ p.chunk = k /\ Starts(hs)[k - 1] < m
    /\ Starts(hs)[k] <= m => p.intact /\ p.len <= p.held

(* Until uncomp_file has its input nothing of it has happened, and the     *)
(* stream is what the sender's two steps made of the file, or the part of  *)
(* it that came.                                                           *)
BeforeUncomp ==
    /\ pc \in {"compress", "encrypt", "send", "decrypt"} => UncompInit
    /\ pc \in {"compress", "encrypt", "send"} => fate = "whole"
    /\ pc = "encrypt" => stream = comp_file(headers)
    /\ pc = "send" => stream = enc_file(comp_file(headers)) /\ sent = Len(stream)
    /\ pc = "decrypt" =>
         /\ sent = Len(enc_file(comp_file(headers)))
         /\ \E n \in 0..sent : /\ stream = SubSeq(enc_file(comp_file(headers)), 1, n)
                               /\ fate = "whole" <=> n = sent

(* Chunks written before this batch, and those of it that have their slot. *)
base == Len(out) - (IF pc = "write" THEN t ELSE 0)
given == IF pc = "header" THEN t ELSE num_threads

Agrees(m) ==
    /\ AgreesTo(stream, comp_file(headers), m) /\ Len(stream) \in Nat
    /\ fate = "whole" => m = Len(stream) /\ m = Len(comp_file(headers))

(* Where the walk over the headers is: at the next record, or beyond what  *)
(* the stream has of the file.                                             *)
Walked(m) ==
    /\ base \in Nat /\ base + given <= Len(headers)
    /\ cur_pos \in Nat /\ bytes_left = Len(stream) - cur_pos
    /\ cur_pos = Starts(headers)[base + given] \/ (cur_pos > m /\ fate = "cut")
    /\ in_file = cur_pos \/ (in_file = Len(stream) /\ fate = "cut")
    /\ pc = "header" /\ t = 0 => bytes_left > 0

Given(m) == \A j \in 0..(given - 1) : ArgFits(headers, args[j], base + j + 1, m)
Made(m) ==
    \A j \in 0..(num_threads - 1) :
        worker[j] \in {"done", "joined"} => PieceFits(headers, product[j], base + j + 1, m)
Written(m) == out \in Seq(Piece) /\ \A k \in 1..Len(out) : PieceFits(headers, out[k], k, m)

(* What the workers do while the calling thread is where it is.            *)
Working ==
    /\ num_threads \in 1..CompThreads
    /\ worker \in [Slots -> {"idle", "joined"} \cup Started]
    /\ DOMAIN product = Slots /\ DOMAIN args = Slots
    /\ pc = "header" => t \in 0..(CompThreads - 1) /\ \A k \in Slots : worker[k] = "idle"
    /\ pc = "create" => /\ t \in 0..(num_threads - 2)
                        /\ \A k \in Slots : k < t => worker[k] \in Started
                        /\ \A k \in Slots : k >= t => worker[k] = "idle"
    /\ pc = "own" => /\ t = 0
                     /\ \A k \in Slots : k < num_threads - 1 => worker[k] \in Started
                     /\ \A k \in Slots : k >= num_threads - 1 => worker[k] = "idle"
    /\ pc = "join" => /\ t \in 0..(num_threads - 2)
                      /\ \A k \in Slots : k < t => worker[k] = "joined"
                      /\ \A k \in Slots : k >= t /\ k < num_threads - 1 => worker[k] \in Started
                      /\ \A k \in Slots : k = num_threads - 1 => worker[k] = "joined"
                      /\ \A k \in Slots : k >= num_threads => worker[k] = "idle"
    /\ pc = "write" => /\ t \in 0..(num_threads - 1)
                       /\ \A k \in Slots : k < t => worker[k] = "idle"
                       /\ \A k \in Slots : k >= t /\ k < num_threads => worker[k] = "joined"
                       /\ \A k \in Slots : k >= num_threads => worker[k] = "idle"

Uncompressing == {"header", "create", "own", "join", "write"}

(* The stream has the first m bytes of comp_file's, and what the function  *)
(* has read, uncompressed and written fits them.                           *)
Fits(m) == Agrees(m) /\ Walked(m) /\ Given(m) /\ Made(m) /\ Written(m)
UncompFits == Working /\ \E m : Fits(m)

PipelineInv ==
    /\ HeadersFit(headers) /\ fate \in {"whole", "cut"}
    /\ pc \in {"compress", "encrypt", "send", "decrypt", "returned"} \cup Uncompressing
    /\ pc # "returned" => ret = "none"
    /\ BeforeUncomp
    /\ pc \in Uncompressing => UncompFits
    /\ RoundTrip /\ DamageContained /\ UndefinedOnlyWhenCut

(* The records of chunks are one after the other in comp_file's stream.    *)
RecordsInOrder(hs, P) ==
    /\ P[0] = 0 /\ \A k \in 0..Len(hs) : P[k] \in Nat
    /\ \A k \in 1..Len(hs) : P[k] = P[k - 1] + RecordLen(hs[k]) /\ P[k - 1] + EC_HEADER_SIZE <= P[k]
    /\ \A j \in 0..Len(hs) : \A k \in j..Len(hs) : P[j] <= P[k]
    /\ Len(comp_file(hs)) = P[Len(hs)] /\ Len(hs) \in Nat
    /\ \A k \in 1..Len(hs) : \A at \in 1..RecordLen(hs[k]) :
         comp_file(hs)[P[k - 1] + at] = Byte(k, at)

LEMMA StartFacts ==
    ASSUME NEW hs, HeadersFit(hs)
    PROVE  RecordsInOrder(hs, Starts(hs)) /\ comp_file(hs) \in Seq(Bytes)
  <1> DEFINE n == Len(hs)
             P == Starts(hs)
             lens == [k \in 1..n |-> RecordLen(hs[k])]
  <1>1. hs \in Seq(Header) /\ n \in Nat
    BY DEF HeadersFit
  <1>2. IsCompFile(comp_file(hs), hs)
    BY <1>1, CompFileIs
  <1>3. AreSums(P, n, lens)
    BY <1>2 DEF IsCompFile
  <1>4. \A k \in 1..n : hs[k] \in Header
    BY <1>1
  <1>5. P[0] = 0 /\ \A k \in 0..n : P[k] \in Nat
    BY <1>3 DEF AreSums
  <1>6. \A k \in 1..n : P[k] = P[k - 1] + RecordLen(hs[k])
    BY <1>3 DEF AreSums
  <1>7. \A k \in 1..n : P[k - 1] + EC_HEADER_SIZE <= P[k]
    <2> SUFFICES ASSUME NEW k \in 1..n PROVE P[k - 1] + EC_HEADER_SIZE <= P[k]
      OBVIOUS
    <2>1. P[k - 1] \in Nat
      BY <1>5
    <2>2. RecordLen(hs[k]) >= EC_HEADER_SIZE /\ RecordLen(hs[k]) \in Nat /\ EC_HEADER_SIZE \in Nat
      BY <1>4, RecordLenType
    <2> QED
      BY <1>6, <2>1, <2>2
  <1> HIDE DEF P, lens, n
  <1>8. ASSUME NEW j \in 0..n, NEW k \in j..n PROVE P[j] <= P[k]
    BY <1>1, <1>3, SumsGrow
  <1>9. /\ comp_file(hs) \in Seq(Bytes) /\ Len(comp_file(hs)) = P[n]
        /\ \A k \in 1..n : \A at \in 1..RecordLen(hs[k]) :
             comp_file(hs)[P[k - 1] + at] = Byte(k, at)
    BY <1>2 DEF IsCompFile, P, n
  <1> QED
    BY <1>1, <1>5, <1>6, <1>7, <1>8, <1>9 DEF RecordsInOrder, P, n

(* What read_ec_header finds where the next record is.                     *)
LEMMA HeaderRead ==
    ASSUME HeadersFit(headers), NEW m \in Nat, AgreesTo(stream, comp_file(headers), m),
           NEW k \in 1..Len(headers), NEW p, p = Starts(headers)[k - 1], p < m,
           NEW h \in HeadersAt(p)
    PROVE  /\ stream[p + 1][1] = k /\ h \in Header
           /\ p + EC_HEADER_SIZE <= m => h = headers[k]
  <1>0. SizeLen \in Nat \ {0} /\ EC_HEADER_SIZE \in Nat /\ EC_HEADER_SIZE = 1 + SizeLen + SizeLen
    BY CompAssumption DEF EC_HEADER_SIZE
  <1>1. RecordsInOrder(headers, Starts(headers))
    BY StartFacts
  <1> DEFINE len == RecordLen(headers[k])
             c == comp_file(headers)
             P == Starts(headers)
  <1>2. /\ p \in Nat /\ len \in Nat /\ len >= EC_HEADER_SIZE
        /\ \A at \in 1..len : c[p + at] = Byte(k, at)
        /\ headers[k] \in Header
    <2>1. headers[k] \in Header
      BY DEF HeadersFit
    <2>2. len \in Nat /\ len >= EC_HEADER_SIZE
      BY <2>1, RecordLenType
    <2>3. k - 1 \in 0..Len(headers)
      BY <1>1 DEF RecordsInOrder
    <2> QED
      BY <1>1, <2>1, <2>2, <2>3 DEF RecordsInOrder
  <1>3. \A x \in 1..m : stream[x] = c[x]
    BY DEF AgreesTo
  <1> HIDE DEF len, c
  <1>4. stream[p + 1][1] = k
    <2>1. p + 1 \in 1..m /\ 1 \in 1..len
      BY <1>0, <1>2
    <2>2. stream[p + 1] = Byte(k, 1)
      BY <1>2, <1>3, <2>1
    <2> QED
      BY <2>2 DEF Byte
  <1> DEFINE Intact(first, last) == \A i \in first..last : stream[p + i] = Byte(k, i)
             Field(intact, value, any) == IF intact THEN {value} ELSE any
  <1>5. h \in [compressed : Field(Intact(1, 1), headers[k].compressed, BOOLEAN),
               orig_size : Field(Intact(2, SizeLen + 1), headers[k].orig_size, GarbledSizes),
               proc_size : Field(Intact(SizeLen + 2, EC_HEADER_SIZE), headers[k].proc_size,
                                 GarbledSizes)]
    BY <1>4 DEF HeadersAt
  <1>6. ASSUME p + EC_HEADER_SIZE <= m
        PROVE  Intact(1, 1) /\ Intact(2, SizeLen + 1) /\ Intact(SizeLen + 2, EC_HEADER_SIZE)
    <2>1. ASSUME NEW i \in 1..EC_HEADER_SIZE PROVE stream[p + i] = Byte(k, i)
      <3>1. p + i \in 1..m /\ i \in 1..len
        BY <1>0, <1>2, <1>6
      <3> QED
        BY <1>2, <1>3, <3>1
    <2>2. 1..1 \subseteq 1..EC_HEADER_SIZE /\ 2..(SizeLen + 1) \subseteq 1..EC_HEADER_SIZE
          /\ (SizeLen + 2)..EC_HEADER_SIZE \subseteq 1..EC_HEADER_SIZE
      BY <1>0
    <2> QED
      BY <2>1, <2>2
  <1> HIDE DEF Intact
  <1>7. headers[k] = [compressed |-> headers[k].compressed, orig_size |-> headers[k].orig_size,
                      proc_size |-> headers[k].proc_size]
        /\ headers[k].compressed \in BOOLEAN /\ headers[k].orig_size \in Nat
        /\ headers[k].proc_size \in Nat
    BY <1>2 DEF Header
  <1>8. h = [compressed |-> h.compressed, orig_size |-> h.orig_size, proc_size |-> h.proc_size]
        /\ h.compressed \in Field(Intact(1, 1), headers[k].compressed, BOOLEAN)
        /\ h.orig_size \in Field(Intact(2, SizeLen + 1), headers[k].orig_size, GarbledSizes)
        /\ h.proc_size \in Field(Intact(SizeLen + 2, EC_HEADER_SIZE), headers[k].proc_size,
                                 GarbledSizes)
    <2> HIDE DEF Field
    <2> QED
      BY <1>5
  <1>9. h \in Header
    <2>1. h.compressed \in BOOLEAN
      BY <1>7, <1>8
    <2>2. h.orig_size \in Nat /\ h.proc_size \in Nat
      BY <1>7, <1>8, GarbledAssumption
    <2> HIDE DEF Field
    <2> QED
      BY <1>8, <2>1, <2>2 DEF Header
  <1>10. ASSUME p + EC_HEADER_SIZE <= m PROVE h = headers[k]
    <2>1. h.compressed = headers[k].compressed /\ h.orig_size = headers[k].orig_size
          /\ h.proc_size = headers[k].proc_size
      BY <1>6, <1>8, <1>10
    <2> HIDE DEF Field
    <2> QED
      BY <1>7, <1>8, <2>1
  <1> QED
    BY <1>4, <1>9, <1>10

(* What a worker makes of an argument that fits.                           *)
LEMMA PieceMade ==
    ASSUME HeadersFit(headers), NEW m \in Nat, AgreesTo(stream, comp_file(headers), m),
           NEW k, NEW a, ArgFits(headers, a, k, m),
           NEW p \in uncompress_chunk_of_file(a)
    PROVE  PieceFits(headers, p, k, m)
  <1> DEFINE P == Starts(headers)
             len == RecordLen(headers[k])
             c == comp_file(headers)
             h == a.echeader
             readlen == num_props_bytes(h) + h.proc_size
             intact == /\ h = headers[a.chunk]
                       /\ \A i \in 1..readlen :
                            stream[a.input_reader + i] = Byte(a.chunk, EC_HEADER_SIZE + i)
  <1>1. /\ a \in Arg /\ k \in 1..Len(headers) /\ a.chunk = k
        /\ a.input_reader = P[k - 1] + EC_HEADER_SIZE /\ P[k - 1] < m
        /\ P[k - 1] + EC_HEADER_SIZE <= m => h = headers[k]
    BY DEF ArgFits
  <1>2. RecordsInOrder(headers, P)
    BY StartFacts
  <1>3. headers[k] \in Header /\ (~headers[k].compressed => headers[k].proc_size = headers[k].orig_size)
    BY <1>1 DEF HeadersFit
  <1>4. p = [chunk |-> a.chunk, len |-> h.orig_size, intact |-> intact,
             held |-> IF h.compressed THEN h.orig_size ELSE h.proc_size]
    <2> HIDE DEF intact
    <2>1. p \in IF a.input_reader + readlen > Len(stream)
                THEN {}
                ELSE {[chunk |-> a.chunk, len |-> h.orig_size, intact |-> intact,
                       held |-> IF h.compressed THEN h.orig_size ELSE h.proc_size]}
      BY DEF uncompress_chunk_of_file, intact
    <2> QED
      BY <2>1
  <1>5. h \in Header /\ a.chunk \in Nat
    BY <1>1 DEF Arg
  <1>6. p \in Piece
    <2>1. intact \in BOOLEAN
      OBVIOUS
    <2> HIDE DEF intact, h
    <2>2. h.orig_size \in Nat /\ h.proc_size \in Nat
      BY <1>5 DEF Header
    <2> QED
      BY <1>4, <1>5, <2>1, <2>2 DEF Piece
  <1>7. ASSUME P[k] <= m PROVE p.intact /\ p.len <= p.held
    <2>1. /\ P[k] = P[k - 1] + len /\ P[k - 1] \in Nat /\ P[k - 1] + EC_HEADER_SIZE <= P[k]
          /\ P[k] \in Nat
      <3>1. k - 1 \in 0..Len(headers) /\ k \in 0..Len(headers)
        BY <1>1, <1>2 DEF RecordsInOrder
      <3> QED
        BY <1>1, <1>2, <3>1 DEF RecordsInOrder
    <2>2. /\ len = EC_HEADER_SIZE + (num_props_bytes(headers[k]) + headers[k].proc_size)
          /\ num_props_bytes(headers[k]) \in Nat /\ headers[k].proc_size \in Nat
          /\ EC_HEADER_SIZE \in Nat
      BY <1>3, RecordLenType DEF Header
    <2>3. h = headers[k]
      <3>1. P[k - 1] + EC_HEADER_SIZE <= m
        BY <1>7, <2>1, <2>2
      <3> QED
        BY <1>1, <3>1
    <2>4. ASSUME NEW i \in 1..readlen
          PROVE  stream[a.input_reader + i] = Byte(a.chunk, EC_HEADER_SIZE + i)
      <3> DEFINE at == EC_HEADER_SIZE + i
      <3>1. at \in 1..len /\ i \in Nat
        BY <2>2, <2>3
      <3>2. P[k - 1] + at \in 1..m /\ a.input_reader + i = P[k - 1] + at
        BY <1>1, <1>7, <2>1, <2>2, <3>1, SMTT(60)
      <3>3. c[P[k - 1] + at] = Byte(k, at)
        BY <1>1, <1>2, <3>1 DEF RecordsInOrder
      <3>4. stream[P[k - 1] + at] = c[P[k - 1] + at]
        BY <3>2 DEF AgreesTo
      <3> QED
        BY <1>1, <3>2, <3>3, <3>4
    <2>5. intact
      BY <1>1, <2>3, <2>4
    <2> HIDE DEF intact
    <2>6. p.intact
      BY <1>4, <2>5
    <2>7. p.len <= p.held
      <3>1. p.len = headers[k].orig_size
            /\ p.held = IF headers[k].compressed THEN headers[k].orig_size ELSE headers[k].proc_size
        BY <1>4, <2>3
      <3>2. headers[k].orig_size \in Nat
        BY <1>3 DEF Header
      <3> QED
        BY <1>3, <3>1, <3>2
    <2> QED
      BY <2>6, <2>7
  <1>8. p.chunk = k
    BY <1>1, <1>4
  <1> QED
    BY <1>1, <1>6, <1>7, <1>8 DEF PieceFits

(* The ways the function can end.                                          *)
LEMMA EndsFailed ==
    ASSUME PipelineInv, UNCHANGED <<headers, fate>>, pc' = "returned", ret' = "error"
    PROVE  PipelineInv'
  BY DEF PipelineInv, BeforeUncomp, RoundTrip, DamageContained, UndefinedOnlyWhenCut, Uncompressing

LEMMA EndsUndefined ==
    ASSUME PipelineInv, UNCHANGED <<headers, fate>>, pc' = "returned", ret' = "undefined",
           UndefinedOnlyWhenCut'
    PROVE  PipelineInv'
  BY DEF PipelineInv, BeforeUncomp, RoundTrip, DamageContained, Uncompressing

(* The way it goes on.                                                     *)
LEMMA GoesOn ==
    ASSUME PipelineInv, UNCHANGED <<headers, fate, ret>>, pc \in Uncompressing,
           pc' \in Uncompressing, Working', NEW m, Fits(m)'
    PROVE  PipelineInv'
  <1>1. UncompFits'
    BY DEF UncompFits
  <1>2. ret' = "none"
    BY DEF PipelineInv, Uncompressing
  <1> QED
    BY <1>1, <1>2
    DEF PipelineInv, BeforeUncomp, RoundTrip, DamageContained, UndefinedOnlyWhenCut, Uncompressing

(* What is known of the function while it runs.                            *)
LEMMA Running ==
    ASSUME PipelineInv, pc \in Uncompressing
    PROVE  Working /\ HeadersFit(headers) /\ fate \in {"whole", "cut"} /\ \E m : Fits(m)
  BY DEF PipelineInv, UncompFits

(* What is known of the walk, and of the records it goes over.             *)
Walking(m, R, P) ==
    /\ m \in Nat /\ R \in 0..Len(headers) /\ Len(stream) \in Nat /\ Len(headers) \in Nat
    /\ EC_HEADER_SIZE \in Nat \ {0} /\ m <= Len(stream) /\ Len(stream) - m < EC_HEADER_SIZE
    /\ m <= P[Len(headers)] /\ \A k \in 0..Len(headers) : P[k] \in Nat
    /\ in_file \in Nat /\ cur_pos \in Nat
    /\ \A j \in 0..Len(headers) : \A k \in j..Len(headers) : P[j] <= P[k]
    /\ R < Len(headers) => /\ P[R + 1] = P[R] + RecordLen(headers[R + 1])
                           /\ P[R] + EC_HEADER_SIZE <= P[Len(headers)]
    /\ fate = "whole" => /\ m = Len(stream) /\ m = P[Len(headers)]
                         /\ cur_pos = P[R] /\ in_file = cur_pos

LEMMA WalkFacts ==
    ASSUME HeadersFit(headers), NEW m, Agrees(m), Walked(m), given \in Nat
    PROVE  Walking(m, base + given, Starts(headers))
  <1> DEFINE P == Starts(headers)
             n == Len(headers)
             R == base + given
  <1>1. RecordsInOrder(headers, P)
    BY StartFacts
  <1>2. n \in Nat
    BY <1>1 DEF RecordsInOrder
  <1>3. EC_HEADER_SIZE \in Nat \ {0}
    BY CompAssumption DEF EC_HEADER_SIZE
  <1>4. Block \in Nat \ {0} /\ Block < EC_HEADER_SIZE
    BY CryptAssumption, PipelineAssumption
  <1>5. base \in Nat /\ R <= n
    BY DEF Walked
  <1>6. R \in 0..n
    BY <1>2, <1>5
  <1>7. /\ m \in Nat /\ m <= Len(stream) /\ m <= P[n] /\ Len(stream) \in Nat
        /\ Len(stream) - m < Block
        /\ fate = "whole" => m = Len(stream) /\ m = P[n]
    BY <1>1 DEF Agrees, AgreesTo, RecordsInOrder
  <1>8. Len(stream) - m < EC_HEADER_SIZE
    BY <1>3, <1>4, <1>7
  <1>9. \A k \in 0..n : P[k] \in Nat
    BY <1>1 DEF RecordsInOrder
  <1>10. cur_pos \in Nat /\ in_file \in Nat
    BY <1>7 DEF Walked
  <1>11. \A j \in 0..n : \A k \in j..n : P[j] <= P[k]
    BY <1>1 DEF RecordsInOrder
  <1>12. ASSUME R < n
         PROVE  P[R + 1] = P[R] + RecordLen(headers[R + 1]) /\ P[R] + EC_HEADER_SIZE <= P[n]
    <2>1. R + 1 \in 1..n /\ (R + 1) - 1 = R /\ n \in (R + 1)..n /\ R + 1 \in 0..n
      BY <1>2, <1>6, <1>12
    <2>2. P[R + 1] = P[R] + RecordLen(headers[R + 1]) /\ P[R] + EC_HEADER_SIZE <= P[R + 1]
      BY <1>1, <2>1 DEF RecordsInOrder
    <2>3. P[R + 1] <= P[n]
      BY <1>11, <2>1
    <2>4. P[R] \in Nat /\ P[R + 1] \in Nat /\ P[n] \in Nat
      BY <1>2, <1>6, <1>9, <2>1
    <2> HIDE DEF R, P, n
    <2> QED
      BY <1>3, <2>2, <2>3, <2>4
  <1>13. fate = "whole" => cur_pos = P[R] /\ in_file = cur_pos
    BY DEF Walked
  <1> QED
    BY <1>2, <1>3, <1>6, <1>7, <1>8, <1>9, <1>10, <1>11, <1>12, <1>13 DEF Walking

(* A stream that came whole ends at the end of a record.                   *)
LEMMA NotPastEnd ==
    ASSUME NEW m, NEW R, NEW P, Walking(m, R, P), fate = "whole", in_file < Len(stream)
    PROVE  in_file + EC_HEADER_SIZE <= Len(stream)
  <1>1. in_file = P[R] /\ Len(stream) = P[Len(headers)] /\ R \in 0..Len(headers)
    BY DEF Walking
  <1>2. R # Len(headers)
    BY <1>1 DEF Walking
  <1>3. R < Len(headers)
    BY <1>1, <1>2 DEF Walking
  <1> QED
    BY <1>1, <1>3 DEF Walking

(* Where a header can be read is a record of the file, in the part that    *)
(* came.                                                                   *)
LEMMA NextRecord ==
    ASSUME NEW m, NEW R, NEW P, Walking(m, R, P), in_file + EC_HEADER_SIZE <= Len(stream),
           cur_pos = P[R] \/ (cur_pos > m /\ fate = "cut"),
           in_file = cur_pos \/ (in_file = Len(stream) /\ fate = "cut")
    PROVE  in_file = P[R] /\ cur_pos = P[R] /\ P[R] < m /\ R < Len(headers)
  <1>1. in_file < m
    BY DEF Walking
  <1>2. in_file = cur_pos
    BY DEF Walking
  <1>3. cur_pos = P[R]
    BY <1>1, <1>2 DEF Walking
  <1>4. R # Len(headers)
    BY <1>1, <1>2, <1>3 DEF Walking
  <1> QED
    BY <1>1, <1>2, <1>3, <1>4 DEF Walking

(* The counters of the current batch.                                      *)
LEMMA Counters ==
    ASSUME Working, pc \in Uncompressing
    PROVE  /\ given \in Nat /\ num_threads \in 1..CompThreads /\ t \in 0..(CompThreads - 1)
           /\ CompThreads \in Nat \ {0} /\ (pc # "header" => t < num_threads)
  <1>1. CompThreads \in Nat \ {0} /\ num_threads \in 1..CompThreads
    BY CompAssumption DEF Working
  <1>2. t \in 0..(CompThreads - 1) /\ (pc # "header" => t < num_threads)
    BY <1>1 DEF Working, Uncompressing
  <1> QED
    BY <1>1, <1>2 DEF given

LEMMA FirstSlots ==
    ASSUME NEW n \in 1..CompThreads
    PROVE  0..(n - 1) \subseteq Slots
  <1>1. CompThreads \in Nat /\ n \in Nat /\ n <= CompThreads
    BY CompAssumption
  <1>2. \A j \in 0..(n - 1) : j \in 0..(CompThreads - 1)
    BY <1>1
  <1> QED
    BY <1>2 DEF Slots

LEMMA ReadHeaderKeeps ==
    ASSUME PipelineInv, ReadHeader, UNCHANGED <<headers, stream, fate>>
    PROVE  PipelineInv'
  <1>0. pc = "header" /\ pc \in Uncompressing
    BY DEF ReadHeader, Uncompressing
  <1>1. Working /\ HeadersFit(headers) /\ fate \in {"whole", "cut"}
    BY <1>0, Running
  <1>2. PICK m : Fits(m)
    BY <1>0, Running
  <1>3. PICK h \in HeadersAt(in_file) :
         \/ Fail
         \/ /\ args' = [args EXCEPT ![t] =
                  [chunk |-> stream[in_file + 1][1], echeader |-> h,
                   input_reader |-> cur_pos + EC_HEADER_SIZE]]
            /\ Walk(h)
            /\ IF t + 1 < CompThreads
               THEN t' = t + 1 /\ UNCHANGED <<pc, num_threads>>
               ELSE StartThreads(CompThreads)
            /\ UNCHANGED <<worker, product, out, ret>>
    BY DEF ReadHeader
  <1>4. CASE Fail
    BY <1>4, EndsFailed DEF Fail, Return
  <1>5. CASE ~Fail
    <2> DEFINE P == Starts(headers)
               R == base + given
               k == R + 1
               len == RecordLen(h)
    <2>1. /\ args' = [args EXCEPT ![t] =
                  [chunk |-> stream[in_file + 1][1], echeader |-> h,
                   input_reader |-> cur_pos + EC_HEADER_SIZE]]
          /\ UNCHANGED <<worker, product, out, ret>>
          /\ in_file' = in_file + len /\ cur_pos' = cur_pos + len /\ bytes_left' = bytes_left - len
      BY <1>3, <1>5 DEF Walk
    <2>2. \/ t + 1 < CompThreads /\ t' = t + 1 /\ UNCHANGED <<pc, num_threads>>
          \/ /\ ~(t + 1 < CompThreads)
             /\ num_threads' = CompThreads /\ t' = 0
             /\ pc' = IF CompThreads = 1 THEN "own" ELSE "create"
      BY <1>3, <1>5 DEF StartThreads
    <2>3. /\ given = t /\ base = Len(out) /\ t \in 0..(CompThreads - 1)
          /\ CompThreads \in Nat \ {0} /\ given \in Nat /\ num_threads \in 1..CompThreads
      BY <1>0, <1>1, Counters DEF given, base
    <2>4. Walking(m, R, P)
      BY <1>1, <1>2, <2>3, WalkFacts DEF Fits
    <2>5. in_file = P[R] /\ cur_pos = P[R] /\ P[R] < m /\ R < Len(headers)
      BY <1>0, <1>2, <2>4, NextRecord DEF Fits, Walked, ReadHeader
    <2>6. base \in Nat
      BY <1>2 DEF Fits, Walked
    <2>7. k \in 1..Len(headers) /\ k - 1 = R /\ m \in Nat /\ Len(headers) \in Nat
      BY <2>3, <2>4, <2>5, <2>6 DEF Walking
    <2>8. stream[in_file + 1][1] = k /\ h \in Header
          /\ (in_file + EC_HEADER_SIZE <= m => h = headers[k])
      <3>1. in_file = P[k - 1] /\ in_file < m
        BY <2>5, <2>7
      <3>2. AgreesTo(stream, comp_file(headers), m)
        BY <1>2 DEF Fits, Agrees
      <3> HIDE DEF k, R
      <3>3. HeadersFit(headers) /\ m \in Nat /\ k \in 1..Len(headers)
            /\ in_file = Starts(headers)[k - 1]
        BY <1>1, <2>7, <3>1
      <3> HIDE DEF P, len
      <3>4. h \in HeadersAt(in_file)
        BY <1>3
      <3> QED
        BY <3>1, <3>2, <3>3, <3>4, HeaderRead
    <2>9. len \in Nat /\ len >= EC_HEADER_SIZE /\ EC_HEADER_SIZE \in Nat \ {0} /\ P[R] \in Nat
      BY <2>4, <2>8, RecordLenType DEF Walking
    <2>10. /\ base' = base /\ given' = given + 1 /\ base + (given + 1) = k
           /\ pc' \in {"header", "create", "own"} /\ (pc' = "header" => t' # 0)
      <3>1. CASE t + 1 < CompThreads
        BY <1>0, <2>1, <2>2, <2>3, <2>6, <3>1 DEF base, given
      <3>2. CASE ~(t + 1 < CompThreads)
        <4>1. pc' \in {"create", "own"} /\ num_threads' = t + 1
          BY <2>2, <2>3, <3>2
        <4> QED
          BY <2>1, <2>3, <2>6, <4>1 DEF base, given
      <3> QED
        BY <3>1, <3>2
    <2>11. Working'
      <3>1. /\ worker \in [Slots -> {"idle", "joined"} \cup Started]
            /\ DOMAIN product = Slots /\ DOMAIN args = Slots
            /\ \A j \in Slots : worker[j] = "idle"
        BY <1>0, <1>1 DEF Working
      <3>2. DOMAIN args' = Slots
        BY <2>1, <3>1
      <3>3. CASE t + 1 < CompThreads
        <4>1. pc' = "header" /\ t' \in 0..(CompThreads - 1) /\ num_threads' \in 1..CompThreads
          BY <1>0, <2>2, <2>3, <3>3
        <4> QED
          BY <2>1, <3>1, <3>2, <4>1 DEF Working
      <3>4. CASE ~(t + 1 < CompThreads)
        <4>1. num_threads' = CompThreads /\ t' = 0 /\ num_threads' \in 1..CompThreads
          BY <2>2, <2>3, <3>4
        <4>2. CASE CompThreads = 1
          <5>1. pc' = "own"
            BY <2>2, <3>4, <4>2
          <5>2. \A j \in Slots : ~(j < num_threads' - 1)
            BY <2>3, <4>1, <4>2 DEF Slots
          <5> QED
            BY <2>1, <3>1, <3>2, <4>1, <5>1, <5>2 DEF Working
        <4>3. CASE CompThreads # 1
          <5>1. pc' = "create" /\ t' \in 0..(num_threads' - 2)
            BY <2>2, <2>3, <3>4, <4>1, <4>3
          <5>2. \A j \in Slots : ~(j < t')
            BY <2>3, <4>1 DEF Slots
          <5> QED
            BY <2>1, <3>1, <3>2, <4>1, <5>1, <5>2 DEF Working
        <4> QED
          BY <4>2, <4>3
      <3> QED
        BY <3>3, <3>4
    <2>12. Agrees(m)'
      BY <1>2 DEF Fits, Agrees
    <2>13. Walked(m)'
      <3>1. P' = P /\ (base + given)' = k
        BY <2>10
      <3>2. cur_pos' = P[k] \/ (cur_pos' > m /\ fate = "cut")
        <4>1. CASE in_file + EC_HEADER_SIZE <= m
          <5>1. h = headers[k]
            BY <2>8, <4>1
          <5>2. P[k] = P[R] + RecordLen(headers[k])
            BY <2>4, <2>5 DEF Walking
          <5> QED
            BY <2>1, <2>5, <5>1, <5>2
        <4>2. CASE ~(in_file + EC_HEADER_SIZE <= m)
          <5>1. fate # "whole"
            BY <2>4, <4>2 DEF Walking, ReadHeader
          <5>2. cur_pos' > m
            <6> HIDE DEF len, P, R
            <6> QED
              BY <2>1, <2>5, <2>7, <2>9, <4>2
          <5> QED
            BY <1>1, <5>1, <5>2
        <4> QED
          BY <4>1, <4>2
      <3>3. in_file' = cur_pos'
        BY <2>1, <2>5
      <3>4. cur_pos' \in Nat /\ bytes_left' = Len(stream) - cur_pos'
        <4>1. bytes_left = Len(stream) - cur_pos /\ Len(stream) \in Nat /\ cur_pos \in Nat
          BY <1>2, <2>4 DEF Fits, Walked, Walking
        <4> HIDE DEF len
        <4> QED
          BY <2>1, <2>9, <4>1
      <3>5. k <= Len(headers)
        BY <2>7
      <3> HIDE DEF P, k, R, len
      <3> QED
        BY <2>6, <2>10, <3>1, <3>2, <3>3, <3>4, <3>5 DEF Walked, P
    <2>14. Given(m)'
      <3>1. ArgFits(headers, args'[t], k, m)
        <4>1. args'[t] = [chunk |-> k, echeader |-> h, input_reader |-> P[R] + EC_HEADER_SIZE]
          BY <1>1, <2>1, <2>3, <2>5, <2>8 DEF Working, Slots
        <4>2. args'[t] \in Arg
          BY <2>7, <2>8, <2>9, <4>1 DEF Arg
        <4> QED
          BY <2>5, <2>7, <2>8, <4>1, <4>2 DEF ArgFits
      <3>2. ASSUME NEW j \in 0..given PROVE ArgFits(headers, args'[j], base + j + 1, m)
        <4>1. CASE j = t
          BY <2>3, <3>1, <4>1
        <4>2. CASE j # t
          <5>1. args'[j] = args[j] /\ j \in 0..(given - 1)
            BY <1>1, <2>1, <2>3, <3>2, <4>2 DEF Working, Slots
          <5> QED
            BY <1>2, <5>1 DEF Fits, Given
        <4> QED
          BY <4>1, <4>2
      <3>3. given' - 1 = given
        BY <2>3, <2>10
      <3> QED
        BY <2>10, <3>2, <3>3 DEF Given
    <2>15. Made(m)'
      <3>1. \A j \in Slots : worker'[j] = "idle"
        BY <1>0, <1>1, <2>1 DEF Working
      <3>2. num_threads' \in 1..CompThreads
        BY <2>2, <2>3
      <3>3. 0..(num_threads' - 1) \subseteq Slots
        BY <3>2, FirstSlots
      <3>4. \A j \in 0..(num_threads' - 1) : worker'[j] \notin {"done", "joined"}
        BY <3>1, <3>3
      <3> QED
        BY <3>4 DEF Made
    <2>16. Written(m)'
      BY <1>2, <2>1 DEF Fits, Written
    <2>17. Fits(m)'
      BY <2>12, <2>13, <2>14, <2>15, <2>16 DEF Fits
    <2>18. pc' \in Uncompressing
      BY <2>10 DEF Uncompressing
    <2> HIDE DEF P, R, k, len
    <2> QED
      BY <1>0, <2>1, <2>11, <2>17, <2>18, GoesOn
  <1> QED
    BY <1>4, <1>5

(* A step that leaves the walk where it is.                                *)
LEMMA SameWalk ==
    ASSUME NEW m, Walked(m), UNCHANGED <<headers, stream, fate, walkVars>>,
           base' \in Nat, base' + given' = base + given,
           pc' = "header" /\ t' = 0 => bytes_left > 0
    PROVE  Walked(m)'
  BY DEF Walked, walkVars

LEMMA ReadPastEndKeeps ==
    ASSUME PipelineInv, ReadPastEnd, UNCHANGED <<headers, stream, size, sent, fate>>
    PROVE  PipelineInv'
  <1>0. pc = "header" /\ pc \in Uncompressing
    BY DEF ReadPastEnd, Uncompressing
  <1>1. Working /\ HeadersFit(headers) /\ fate \in {"whole", "cut"}
    BY <1>0, Running
  <1>2. PICK m : Fits(m)
    BY <1>0, Running
  <1>3. /\ given = t /\ base = Len(out) /\ t \in 0..(CompThreads - 1)
        /\ CompThreads \in Nat \ {0} /\ given \in Nat /\ num_threads \in 1..CompThreads
    BY <1>0, <1>1, Counters DEF given, base
  <1>4. Walking(m, base + given, Starts(headers))
    BY <1>1, <1>2, <1>3, WalkFacts DEF Fits
  <1>5. Len(stream) \in Nat /\ in_file \in Nat /\ cur_pos \in Nat /\ EC_HEADER_SIZE \in Nat
    BY <1>4 DEF Walking
  <1>6. fate = "whole" => in_file >= Len(stream) /\ in_file = cur_pos
    <2>1. ASSUME fate = "whole", in_file < Len(stream) PROVE FALSE
      <3>1. in_file + EC_HEADER_SIZE <= Len(stream)
        BY <1>4, <2>1, NotPastEnd
      <3> QED
        BY <1>5, <3>1 DEF ReadPastEnd
    <2> QED
      BY <1>4, <1>5, <2>1 DEF Walking
  <1>7. CASE t = 0
    <2>1. pc' = "returned" /\ ret' = "undefined"
      BY <1>7 DEF ReadPastEnd, Return
    <2>2. bytes_left > 0 /\ bytes_left = Len(stream) - cur_pos
      BY <1>0, <1>2, <1>7 DEF Fits, Walked
    <2>3. fate # "whole"
      BY <1>5, <1>6, <2>2
    <2>4. UndefinedOnlyWhenCut'
      BY <2>3 DEF UndefinedOnlyWhenCut
    <2> QED
      BY <2>1, <2>4, EndsUndefined
  <1>8. CASE t # 0
    <2>1. /\ num_threads' = t /\ t' = 0 /\ pc' = IF t = 1 THEN "own" ELSE "create"
          /\ UNCHANGED <<cur_pos, bytes_left, args, worker, product, out, ret>>
      BY <1>8 DEF ReadPastEnd, StartThreads
    <2>2. base' = base /\ given' = given /\ base \in Nat /\ pc' \in {"own", "create"}
      <3>1. pc' \in {"own", "create"}
        BY <2>1
      <3>2. base \in Nat
        BY <1>2 DEF Fits, Walked
      <3> QED
        BY <1>3, <2>1, <3>1, <3>2 DEF base, given
    <2>3. num_threads' \in 1..CompThreads
      BY <1>3, <1>8, <2>1
    <2>4. \A j \in Slots : worker[j] = "idle"
      BY <1>0, <1>1 DEF Working
    <2>5. Working'
      <3>1. /\ worker \in [Slots -> {"idle", "joined"} \cup Started]
            /\ DOMAIN product = Slots /\ DOMAIN args = Slots
        BY <1>1 DEF Working
      <3>2. CASE t = 1
        <4>1. pc' = "own" /\ \A j \in Slots : ~(j < num_threads' - 1)
          BY <1>3, <2>1, <3>2 DEF Slots
        <4> QED
          BY <2>1, <2>3, <2>4, <3>1, <4>1 DEF Working
      <3>3. CASE t # 1
        <4>1. pc' = "create" /\ t' \in 0..(num_threads' - 2) /\ \A j \in Slots : ~(j < t')
          BY <1>3, <1>8, <2>1, <3>3 DEF Slots
        <4> QED
          BY <2>1, <2>3, <2>4, <3>1, <4>1 DEF Working
      <3> QED
        BY <3>2, <3>3
    <2>6. Walked(m)'
      <3>1. in_file' = cur_pos \/ (in_file' = Len(stream) /\ fate = "cut")
        <4>1. in_file = cur_pos \/ (in_file = Len(stream) /\ fate = "cut")
          BY <1>2 DEF Fits, Walked
        <4>2. CASE in_file < Len(stream)
          <5>1. fate = "cut"
            BY <1>1, <1>5, <1>6, <4>2
          <5> QED
            BY <4>2, <5>1 DEF ReadPastEnd
        <4>3. CASE ~(in_file < Len(stream))
          BY <4>1, <4>3 DEF ReadPastEnd
        <4> QED
          BY <4>2, <4>3
      <3>2. pc' # "header"
        BY <2>2
      <3> QED
        BY <1>2, <2>1, <2>2, <3>1, <3>2 DEF Fits, Walked
    <2>7. Agrees(m)'
      BY <1>2 DEF Fits, Agrees
    <2>8. Given(m)'
      BY <1>2, <2>1, <2>2 DEF Fits, Given
    <2>9. Made(m)'
      <3>1. \A j \in 0..(num_threads' - 1) : worker'[j] \notin {"done", "joined"}
        BY <2>1, <2>3, <2>4, FirstSlots
      <3> QED
        BY <3>1 DEF Made
    <2>10. Written(m)'
      BY <1>2, <2>1 DEF Fits, Written
    <2>11. Fits(m)'
      BY <2>6, <2>7, <2>8, <2>9, <2>10 DEF Fits
    <2>12. pc' \in Uncompressing
      BY <2>2 DEF Uncompressing
    <2> QED
      BY <1>0, <2>1, <2>5, <2>11, <2>12, GoesOn
  <1> QED
    BY <1>7, <1>8

LEMMA CreateKeeps ==
    ASSUME PipelineInv, Create, UNCHANGED <<headers, stream, fate>>
    PROVE  PipelineInv'
  <1>0. pc = "create" /\ pc \in Uncompressing
    BY DEF Create, Uncompressing
  <1>1. Working
    BY <1>0, Running
  <1>2. PICK m : Fits(m)
    BY <1>0, Running
  <1>3. /\ worker' = [worker EXCEPT ![t] = "running"]
        /\ \/ t + 1 < num_threads - 1 /\ t' = t + 1 /\ pc' = "create"
           \/ ~(t + 1 < num_threads - 1) /\ t' = 0 /\ pc' = "own"
        /\ UNCHANGED <<walkVars, num_threads, args, product, out, ret>>
    BY DEF Create
  <1>4. /\ num_threads \in 1..CompThreads /\ CompThreads \in Nat \ {0}
        /\ t \in 0..(num_threads - 2)
        /\ \A k \in Slots : k < t => worker[k] \in Started
        /\ \A k \in Slots : k >= t => worker[k] = "idle"
        /\ worker \in [Slots -> {"idle", "joined"} \cup Started]
        /\ DOMAIN product = Slots /\ DOMAIN args = Slots
    BY <1>0, <1>1, CompAssumption DEF Working
  <1>5. base' = base /\ given' = given /\ pc' \in {"create", "own"}
    BY <1>0, <1>3 DEF base, given
  <1>6. base \in Nat
    BY <1>2 DEF Fits, Walked
  <1>7. /\ worker' \in [Slots -> {"idle", "joined"} \cup Started]
        /\ \A k \in Slots : k < t + 1 => worker'[k] \in Started
        /\ \A k \in Slots : k >= t + 1 => worker'[k] = "idle"
        /\ \A k \in Slots : worker'[k] \in {"done", "joined"} => worker[k] = worker'[k]
    <2>1. t \in Slots
      BY <1>4 DEF Slots
    <2>2. worker' \in [Slots -> {"idle", "joined"} \cup Started]
      BY <1>3, <1>4 DEF Started
    <2>3. \A k \in Slots : k < t + 1 => worker'[k] \in Started
      BY <1>3, <1>4 DEF Slots, Started
    <2>4. \A k \in Slots : k >= t + 1 => worker'[k] = "idle"
      BY <1>3, <1>4 DEF Slots
    <2>5. \A k \in Slots : worker'[k] \in {"done", "joined"} => worker[k] = worker'[k]
      BY <1>3, <1>4
    <2> QED
      BY <2>2, <2>3, <2>4, <2>5
  <1>8. Working'
    <2>1. CASE t + 1 < num_threads - 1
      <3>1. t' = t + 1 /\ pc' = "create" /\ t' \in 0..(num_threads' - 2)
        BY <1>3, <1>4, <2>1
      <3> QED
        BY <1>3, <1>4, <1>7, <3>1 DEF Working
    <2>2. CASE ~(t + 1 < num_threads - 1)
      <3>1. t' = 0 /\ pc' = "own" /\ t + 1 = num_threads' - 1
        BY <1>3, <1>4, <2>2
      <3> QED
        BY <1>3, <1>4, <1>7, <3>1 DEF Working
    <2> QED
      BY <2>1, <2>2
  <1>9. Walked(m)'
    BY <1>2, <1>3, <1>5, <1>6, SameWalk DEF Fits
  <1>10. Made(m)'
    <2>1. \A j \in 0..(num_threads - 1) : j \in Slots
      BY <1>4, FirstSlots
    <2>2. ASSUME NEW j \in 0..(num_threads - 1), worker'[j] \in {"done", "joined"}
          PROVE  PieceFits(headers, product[j], base + j + 1, m)
      BY <1>2, <1>7, <2>1, <2>2 DEF Fits, Made
    <2> QED
      BY <1>3, <1>5, <2>2 DEF Made
  <1>11. Agrees(m)' /\ Given(m)' /\ Written(m)'
    BY <1>2, <1>3, <1>5 DEF Fits, Agrees, Given, Written
  <1>12. Fits(m)'
    BY <1>9, <1>10, <1>11 DEF Fits
  <1>13. pc' \in Uncompressing
    BY <1>5 DEF Uncompressing
  <1> QED
    BY <1>0, <1>3, <1>8, <1>12, <1>13, GoesOn

LEMMA CallFailsKeeps ==
    ASSUME PipelineInv, CallFails, UNCHANGED <<headers, fate>>
    PROVE  PipelineInv'
  BY EndsFailed DEF CallFails, Fail, Return

(* What a thread leaves in its slot, if it gets to, is what its argument   *)
(* asks for.                                                               *)
LEMMA ProductFits ==
    ASSUME HeadersFit(headers), NEW m, Fits(m), NEW k \in 0..(given - 1),
           NEW p \in uncompress_chunk_of_file(args[k])
    PROVE  PieceFits(headers, p, base + k + 1, m)
  <1>1. AgreesTo(stream, comp_file(headers), m)
    BY DEF Fits, Agrees
  <1>2. m \in Nat
    BY <1>1 DEF AgreesTo
  <1>3. ArgFits(headers, args[k], base + k + 1, m)
    BY DEF Fits, Given
  <1> QED
    BY <1>1, <1>2, <1>3, PieceMade

(* One thread more has done its chunk: what all have made fits.            *)
LEMMA OneMoreMade ==
    ASSUME NEW m, Made(m), NEW k, NEW p,
           DOMAIN product = Slots, DOMAIN worker = Slots, num_threads \in 1..CompThreads,
           UNCHANGED <<headers, num_threads>>, base' = base,
           product' = [product EXCEPT ![k] = p],
           \A j \in Slots : j # k => worker'[j] = worker[j],
           PieceFits(headers, p, base + k + 1, m)
    PROVE  Made(m)'
  <1>1. \A j \in 0..(num_threads - 1) : j \in Slots
    BY FirstSlots
  <1>2. ASSUME NEW j \in 0..(num_threads - 1), worker'[j] \in {"done", "joined"}
        PROVE  PieceFits(headers, product'[j], base + j + 1, m)
    <2>1. CASE j = k
      BY <1>1, <2>1
    <2>2. CASE j # k
      BY <1>1, <1>2, <2>2 DEF Made
    <2> QED
      BY <2>1, <2>2
  <1> QED
    BY <1>2 DEF Made

LEMMA OwnKeeps ==
    ASSUME PipelineInv, Own, UNCHANGED <<headers, stream, fate>>
    PROVE  PipelineInv'
  <1> DEFINE k == num_threads - 1
  <1>0. pc = "own" /\ pc \in Uncompressing
    BY DEF Own, Uncompressing
  <1>1. Working /\ HeadersFit(headers)
    BY <1>0, Running
  <1>2. PICK m : Fits(m)
    BY <1>0, Running
  <1>3. CASE Fail
    BY <1>3, EndsFailed DEF Fail, Return
  <1>4. CASE ~Fail
    <2>1. PICK p \in uncompress_chunk_of_file(args[k]) :
                /\ product' = [product EXCEPT ![k] = p]
                /\ worker' = [worker EXCEPT ![k] = "joined"]
                /\ pc' = IF k = 0 THEN "write" ELSE "join"
                /\ UNCHANGED <<walkVars, num_threads, t, args, out, ret>>
      BY <1>4 DEF Own
    <2>2. /\ num_threads \in 1..CompThreads /\ CompThreads \in Nat \ {0} /\ t = 0
          /\ \A j \in Slots : j < k => worker[j] \in Started
          /\ \A j \in Slots : j >= k => worker[j] = "idle"
          /\ worker \in [Slots -> {"idle", "joined"} \cup Started]
          /\ DOMAIN product = Slots /\ DOMAIN args = Slots
      BY <1>0, <1>1, CompAssumption DEF Working
    <2>3. base = Len(out) /\ given = num_threads /\ base \in Nat
      BY <1>0, <1>2 DEF base, given, Fits, Walked
    <2>4. base' = base /\ given' = given /\ pc' \in {"join", "write"}
      <3>1. pc' \in {"join", "write"}
        BY <2>1
      <3> QED
        BY <2>1, <2>2, <2>3, <3>1 DEF base, given
    <2>5. k \in Slots /\ k \in 0..(num_threads - 1) /\ k + 1 = num_threads
      BY <2>2 DEF Slots
    <2>6. /\ worker' \in [Slots -> {"idle", "joined"} \cup Started]
          /\ \A j \in Slots : j # k => worker'[j] = worker[j]
          /\ worker'[k] = "joined"
      BY <2>1, <2>2, <2>5
    <2> HIDE DEF k
    <2>7. Working'
      <3>1. DOMAIN product' = Slots
        BY <2>1, <2>2
      <3>2. /\ \A j \in Slots : j < k => worker'[j] \in Started
            /\ \A j \in Slots : j >= num_threads => worker'[j] = "idle"
        BY <2>2, <2>5, <2>6 DEF Slots
      <3>3. CASE k = 0
        <4>1. pc' = "write" /\ t' = 0 /\ num_threads = 1
          BY <2>1, <2>2, <2>5, <3>3
        <4>2. /\ \A j \in Slots : ~(j < t')
              /\ \A j \in Slots : j >= t' /\ j < num_threads => worker'[j] = "joined"
          BY <2>2, <2>6, <3>3, <4>1 DEF Slots
        <4> QED
          BY <2>1, <2>2, <2>6, <3>1, <3>2, <4>1, <4>2 DEF Working
      <3>4. CASE k # 0
        <4>1. pc' = "join" /\ t' = 0 /\ t' \in 0..(num_threads - 2)
          BY <2>1, <2>2, <2>5, <3>4
        <4>2. \A j \in Slots : ~(j < t')
          BY <2>2, <4>1 DEF Slots
        <4>3. \A j \in Slots : j = num_threads - 1 => worker'[j] = "joined"
          BY <2>6 DEF k
        <4>4. \A j \in Slots : j >= t' /\ j < num_threads - 1 => worker'[j] \in Started
          BY <3>2 DEF k
        <4> QED
          BY <2>1, <2>2, <2>6, <3>1, <3>2, <4>1, <4>2, <4>3, <4>4 DEF Working
      <3> QED
        BY <3>3, <3>4
    <2>8. Walked(m)'
      <3>1. pc' # "header"
        BY <2>4
      <3> QED
        BY <1>2, <2>1, <2>3, <2>4, <3>1, SameWalk DEF Fits
    <2>9. Made(m)'
      <3>1. PieceFits(headers, p, base + k + 1, m)
        BY <1>1, <1>2, <2>1, <2>3, <2>5, ProductFits
      <3>2. Made(m) /\ DOMAIN worker = Slots
        BY <1>2, <2>2 DEF Fits
      <3> QED
        BY <2>1, <2>2, <2>4, <2>6, <3>1, <3>2, OneMoreMade
    <2>10. Agrees(m)' /\ Given(m)' /\ Written(m)'
      BY <1>2, <2>1, <2>4 DEF Fits, Agrees, Given, Written
    <2>11. Fits(m)'
      BY <2>8, <2>9, <2>10 DEF Fits
    <2>12. pc' \in Uncompressing
      BY <2>4 DEF Uncompressing
    <2> QED
      BY <1>0, <2>1, <2>7, <2>11, <2>12, GoesOn
  <1> QED
    BY <1>3, <1>4

(* A thread runs only after it was created and before it is joined, or     *)
(* after the function returned without joining it.                         *)
LEMMA RunsWhen ==
    ASSUME PipelineInv, NEW k \in Slots, worker[k] = "running", pc # "returned"
    PROVE  /\ pc \in {"create", "own", "join"} /\ k \in 0..(num_threads - 2)
           /\ (pc = "create" => k < t) /\ (pc = "join" => k >= t)
  <1>1. pc \in Uncompressing
    <2>1. ~UncompInit
      BY DEF UncompInit
    <2> QED
      BY <2>1 DEF PipelineInv, BeforeUncomp
  <1>2. Working /\ CompThreads \in Nat \ {0} /\ k \in Nat /\ num_threads \in Nat /\ t \in Nat
    <2>1. Working /\ CompThreads \in Nat \ {0} /\ num_threads \in Nat /\ t \in Nat
      BY <1>1, Running, Counters
    <2> QED
      BY <2>1 DEF Slots
  <1>3. worker[k] \notin {"idle", "joined"}
    OBVIOUS
  <1>4. CASE pc = "header"
    BY <1>2, <1>3, <1>4 DEF Working
  <1>5. CASE pc = "create"
    <2>1. k < t /\ t \in 0..(num_threads - 2)
      BY <1>2, <1>3, <1>5 DEF Working
    <2> QED
      BY <1>2, <1>5, <2>1
  <1>6. CASE pc = "own"
    <2>1. ~(k >= num_threads - 1)
      BY <1>2, <1>3, <1>6 DEF Working
    <2> QED
      BY <1>2, <1>6, <2>1
  <1>7. CASE pc = "join"
    <2>1. ~(k < t) /\ k # num_threads - 1 /\ ~(k >= num_threads)
      BY <1>2, <1>3, <1>7 DEF Working
    <2> QED
      BY <1>2, <1>7, <2>1
  <1>8. CASE pc = "write"
    <2>1. ~(k < t) /\ ~(k >= t /\ k < num_threads) /\ ~(k >= num_threads)
      BY <1>2, <1>3, <1>8 DEF Working
    <2> QED
      BY <1>2, <2>1
  <1> QED
    BY <1>1, <1>4, <1>5, <1>6, <1>7, <1>8 DEF Uncompressing

LEMMA WorkerDoneKeeps ==
    ASSUME PipelineInv, NEW k \in Slots, WorkerDone(k), UNCHANGED <<headers, stream, fate, size, sent>>
    PROVE  PipelineInv'
  <1>0. UNCHANGED <<pc, walkVars, num_threads, t, args, out, ret>> /\ worker[k] = "running"
    BY DEF WorkerDone
  <1>1. CASE pc = "returned"
    <2>1. RoundTrip' /\ DamageContained' /\ UndefinedOnlyWhenCut'
      BY <1>0 DEF PipelineInv, RoundTrip, DamageContained, UndefinedOnlyWhenCut, comp_len
    <2> QED
      BY <1>0, <1>1, <2>1 DEF PipelineInv, BeforeUncomp, Uncompressing
  <1>2. CASE pc # "returned"
    <2>1. /\ pc \in {"create", "own", "join"} /\ k \in 0..(num_threads - 2)
          /\ (pc = "create" => k < t) /\ (pc = "join" => k >= t)
      BY <1>0, <1>2, RunsWhen
    <2>2. pc \in Uncompressing
      BY <2>1 DEF Uncompressing
    <2>3. Working /\ HeadersFit(headers)
      BY <2>2, Running
    <2>4. PICK m : Fits(m)
      BY <2>2, Running
    <2>5. /\ num_threads \in 1..CompThreads /\ CompThreads \in Nat \ {0} /\ t \in Nat
          /\ worker \in [Slots -> {"idle", "joined"} \cup Started]
          /\ DOMAIN product = Slots /\ DOMAIN args = Slots /\ DOMAIN worker = Slots
      BY <2>2, <2>3, Counters DEF Working
    <2>6. base' = base /\ given' = given /\ given = num_threads /\ base \in Nat
      BY <1>0, <2>1, <2>4 DEF base, given, Fits, Walked
    <2>7. PICK w \in {"done", "failed"} : worker' = [worker EXCEPT ![k] = w]
      BY DEF WorkerDone
    <2>8. /\ worker' \in [Slots -> {"idle", "joined"} \cup Started]
          /\ \A j \in Slots : j # k => worker'[j] = worker[j]
          /\ worker'[k] \in Started /\ worker'[k] = w
      BY <2>5, <2>7 DEF Started
    <2>9. DOMAIN product' = Slots
      BY <2>5 DEF WorkerDone
    <2>10. Working'
      <3>1. \A j \in Slots : worker[j] \in Started => worker'[j] \in Started
        BY <2>8
      <3>2. \A j \in Slots : worker[j] \in {"idle", "joined"} => worker'[j] = worker[j]
        BY <1>0, <2>8
      <3>3. CASE pc = "create"
        BY <1>0, <2>3, <2>5, <2>8, <2>9, <3>1, <3>2, <3>3 DEF Working
      <3>4. CASE pc = "own"
        BY <1>0, <2>3, <2>5, <2>8, <2>9, <3>1, <3>2, <3>4 DEF Working
      <3>5. CASE pc = "join"
        BY <1>0, <2>3, <2>5, <2>8, <2>9, <3>1, <3>2, <3>5 DEF Working
      <3> QED
        BY <2>1, <3>3, <3>4, <3>5
    <2>11. Made(m)'
      <3>1. Made(m)
        BY <2>4 DEF Fits
      <3>2. CASE \E p \in uncompress_chunk_of_file(args[k]) : product' = [product EXCEPT ![k] = p]
        <4>1. PICK p \in uncompress_chunk_of_file(args[k]) : product' = [product EXCEPT ![k] = p]
          BY <3>2
        <4>2. k \in 0..(given - 1)
          BY <2>1, <2>5, <2>6
        <4>3. PieceFits(headers, p, base + k + 1, m)
          BY <2>3, <2>4, <4>1, <4>2, ProductFits
        <4> QED
          BY <1>0, <2>5, <2>6, <2>8, <3>1, <4>1, <4>3, OneMoreMade
      <3>3. CASE product' = product /\ worker' = [worker EXCEPT ![k] = "failed"]
        <4>1. worker'[k] = "failed"
          BY <2>5, <3>3
        <4>2. \A j \in 0..(num_threads - 1) : j \in Slots
          BY <2>5, FirstSlots
        <4>3. ASSUME NEW j \in 0..(num_threads - 1), worker'[j] \in {"done", "joined"}
              PROVE  PieceFits(headers, product'[j], base + j + 1, m)
          <5>1. j # k
            BY <4>1, <4>3
          <5> QED
            BY <2>8, <3>1, <3>3, <4>2, <4>3, <5>1 DEF Made
        <4> QED
          BY <1>0, <2>6, <4>3 DEF Made
      <3> QED
        BY <3>2, <3>3 DEF WorkerDone
    <2>12. Walked(m)'
      <3>1. pc' # "header"
        BY <1>0, <2>1
      <3> QED
        BY <1>0, <2>4, <2>6, <3>1, SameWalk DEF Fits
    <2>13. Agrees(m)' /\ Given(m)' /\ Written(m)'
      BY <1>0, <2>4, <2>6 DEF Fits, Agrees, Given, Written
    <2>14. Fits(m)'
      BY <2>11, <2>12, <2>13 DEF Fits
    <2> QED
      BY <1>0, <2>2, <2>10, <2>14, GoesOn
  <1> QED
    BY <1>1, <1>2

LEMMA JoinKeeps ==
    ASSUME PipelineInv, Join, UNCHANGED <<headers, stream, fate>>
    PROVE  PipelineInv'
  <1>0. pc = "join" /\ pc \in Uncompressing
    BY DEF Join, Uncompressing
  <1>1. Working /\ HeadersFit(headers)
    BY <1>0, Running
  <1>2. PICK m : Fits(m)
    BY <1>0, Running
  <1>3. CASE Fail
    BY <1>3, EndsFailed DEF Fail, Return
  <1>4. CASE ~Fail
    <2>1. /\ worker[t] = "done"
          /\ worker' = [worker EXCEPT ![t] = "joined"]
          /\ \/ t + 1 < num_threads - 1 /\ t' = t + 1 /\ pc' = "join"
             \/ ~(t + 1 < num_threads - 1) /\ t' = 0 /\ pc' = "write"
          /\ UNCHANGED <<walkVars, num_threads, args, product, out, ret>>
      BY <1>4 DEF Join
    <2>2. /\ num_threads \in 1..CompThreads /\ CompThreads \in Nat \ {0}
          /\ t \in 0..(num_threads - 2)
          /\ \A j \in Slots : j < t => worker[j] = "joined"
          /\ \A j \in Slots : j >= t /\ j < num_threads - 1 => worker[j] \in Started
          /\ \A j \in Slots : j = num_threads - 1 => worker[j] = "joined"
          /\ \A j \in Slots : j >= num_threads => worker[j] = "idle"
          /\ worker \in [Slots -> {"idle", "joined"} \cup Started]
          /\ DOMAIN product = Slots /\ DOMAIN args = Slots
      BY <1>0, <1>1, CompAssumption DEF Working
    <2>3. base = Len(out) /\ given = num_threads /\ base \in Nat
      BY <1>0, <1>2 DEF base, given, Fits, Walked
    <2>4. base' = base /\ given' = given /\ pc' \in {"join", "write"}
      <3>1. CASE t + 1 < num_threads - 1
        BY <2>1, <2>3, <3>1 DEF base, given
      <3>2. CASE ~(t + 1 < num_threads - 1)
        <4>1. pc' = "write" /\ t' = 0
          BY <2>1, <3>2
        <4> QED
          BY <2>1, <2>3, <4>1 DEF base, given
      <3> QED
        BY <2>1, <3>1, <3>2
    <2>5. /\ worker' \in [Slots -> {"idle", "joined"} \cup Started] /\ t \in Slots
          /\ \A j \in Slots : j # t => worker'[j] = worker[j]
          /\ worker'[t] = "joined"
      BY <2>1, <2>2 DEF Slots
    <2>6. /\ \A j \in Slots : j < t + 1 => worker'[j] = "joined"
          /\ \A j \in Slots : j >= t + 1 /\ j < num_threads - 1 => worker'[j] \in Started
          /\ \A j \in Slots : j = num_threads - 1 => worker'[j] = "joined"
          /\ \A j \in Slots : j >= num_threads => worker'[j] = "idle"
      BY <2>2, <2>5 DEF Slots
    <2>7. Working'
      <3>1. CASE t + 1 < num_threads - 1
        <4>1. t' = t + 1 /\ pc' = "join" /\ t' \in 0..(num_threads' - 2)
          BY <2>1, <2>2, <3>1
        <4> QED
          BY <2>1, <2>2, <2>5, <2>6, <4>1 DEF Working
      <3>2. CASE ~(t + 1 < num_threads - 1)
        <4>1. t' = 0 /\ pc' = "write" /\ t + 1 = num_threads - 1 /\ t' \in 0..(num_threads' - 1)
          BY <2>1, <2>2, <3>2
        <4>2. /\ \A j \in Slots : ~(j < t')
              /\ \A j \in Slots : j >= t' /\ j < num_threads => worker'[j] = "joined"
          BY <2>2, <2>6, <4>1 DEF Slots
        <4> QED
          BY <2>1, <2>2, <2>5, <2>6, <4>1, <4>2 DEF Working
      <3> QED
        BY <3>1, <3>2
    <2>8. Walked(m)'
      <3>1. pc' # "header"
        BY <2>4
      <3> QED
        BY <1>2, <2>1, <2>3, <2>4, <3>1, SameWalk DEF Fits
    <2>9. Made(m)'
      <3>1. \A j \in 0..(num_threads - 1) : j \in Slots
        BY <2>2, FirstSlots
      <3>2. ASSUME NEW j \in 0..(num_threads - 1), worker'[j] \in {"done", "joined"}
            PROVE  PieceFits(headers, product[j], base + j + 1, m)
        <4>1. worker[j] \in {"done", "joined"}
          BY <2>1, <2>5, <3>1, <3>2
        <4> QED
          BY <1>2, <4>1 DEF Fits, Made
      <3> QED
        BY <2>1, <2>4, <3>2 DEF Made
    <2>10. Agrees(m)' /\ Given(m)' /\ Written(m)'
      BY <1>2, <2>1, <2>4 DEF Fits, Agrees, Given, Written
    <2>11. Fits(m)'
      BY <2>8, <2>9, <2>10 DEF Fits
    <2>12. pc' \in Uncompressing
      BY <2>4 DEF Uncompressing
    <2> QED
      BY <1>0, <2>1, <2>7, <2>11, <2>12, GoesOn
  <1> QED
    BY <1>3, <1>4

(* The chunk that is written next goes to its place.                       *)
LEMMA OneMoreWritten ==
    ASSUME NEW m, Written(m), NEW p, PieceFits(headers, p, Len(out) + 1, m),
           UNCHANGED headers, out' = Append(out, p)
    PROVE  Written(m)'
  <1>1. out \in Seq(Piece) /\ p \in Piece /\ \A k \in 1..Len(out) : PieceFits(headers, out[k], k, m)
    BY DEF Written, PieceFits
  <1>2. /\ out' \in Seq(Piece) /\ Len(out') = Len(out) + 1 /\ out'[Len(out) + 1] = p
        /\ \A k \in 1..Len(out) : out'[k] = out[k]
    BY <1>1
  <1>3. Len(out) \in Nat
    BY <1>1
  <1>4. ASSUME NEW k \in 1..(Len(out) + 1) PROVE PieceFits(headers, out'[k], k, m)
    <2>1. CASE k = Len(out) + 1
      BY <1>2, <2>1
    <2>2. CASE k # Len(out) + 1
      <3>1. k \in 1..Len(out)
        BY <1>3, <2>2
      <3> QED
        BY <1>1, <1>2, <3>1
    <2> QED
      BY <2>1, <2>2
  <1> QED
    BY <1>2, <1>4 DEF Written

(* Where the chunks written are all there were, the properties hold.       *)
Comes(n, whole) ==
    /\ whole => n = Len(headers)
    /\ n \in 1..Len(headers)

LEMMA ReturnsOk ==
    ASSUME PipelineInv, UNCHANGED <<headers, fate>>, pc' = "returned", ret' = "ok",
           NEW m, Written(m)', Comes(Len(out'), fate = "whole"), m \in Nat,
           fate = "whole" => m = Len(comp_file(headers))
    PROVE  PipelineInv'
  <1> DEFINE P == Starts(headers)
             n == Len(headers)
  <1>1. HeadersFit(headers) /\ fate \in {"whole", "cut"}
    BY DEF PipelineInv
  <1>2. RecordsInOrder(headers, P)
    BY <1>1, StartFacts
  <1>3. n \in Nat /\ \A k \in 0..n : P[k] \in Nat
    BY <1>2 DEF RecordsInOrder
  <1>4. Len(out') \in 1..n /\ (fate = "whole" => Len(out') = n)
    BY DEF Comes
  <1>5. \A k \in 1..Len(out') : PieceFits(headers, out'[k], k, m)
    BY DEF Written
  <1>6. ASSUME NEW k \in 1..Len(out') PROVE k \in 1..n /\ out'[k].chunk = k
    BY <1>3, <1>4, <1>5, <1>6 DEF PieceFits
  <1>7. ASSUME NEW k \in 1..Len(out'), fate = "whole" PROVE out'[k].intact
    <2>1. P[k] <= P[n] /\ P[n] = m
      <3>1. k \in 0..n /\ n \in k..n
        BY <1>3, <1>6, <1>7
      <3> QED
        BY <1>2, <1>7, <3>1 DEF RecordsInOrder
    <2> QED
      BY <1>5, <1>7, <2>1 DEF PieceFits
  <1>8. ASSUME NEW k \in 1..Len(out'), ~out'[k].intact PROVE k = Len(out') /\ fate = "cut"
    <2>1. fate = "cut"
      BY <1>1, <1>7, <1>8
    <2>2. CASE k # Len(out')
      <3>1. k + 1 \in 1..Len(out') /\ (k + 1) - 1 = k /\ k \in 0..n
        BY <1>3, <1>4, <1>8, <2>2
      <3>2. P[k] < m
        BY <1>5, <3>1 DEF PieceFits
      <3>3. ~(P[k] <= m)
        BY <1>5, <1>8 DEF PieceFits
      <3>4. P[k] \in Nat
        BY <1>3, <3>1
      <3> HIDE DEF P
      <3> QED
        BY <3>2, <3>3, <3>4
    <2> QED
      BY <2>1, <2>2
  <1>9. RoundTrip'
    BY <1>4, <1>6, <1>7 DEF RoundTrip
  <1>10. DamageContained'
    BY <1>4, <1>6, <1>8 DEF DamageContained
  <1>11. UndefinedOnlyWhenCut'
    BY DEF UndefinedOnlyWhenCut
  <1> QED
    BY <1>1, <1>9, <1>10, <1>11 DEF PipelineInv, BeforeUncomp, Uncompressing

LEMMA WriteKeeps ==
    ASSUME PipelineInv, Write, UNCHANGED <<headers, stream, size, sent, fate>>
    PROVE  PipelineInv'
  <1> DEFINE p == product[t]
             n == Len(headers)
  <1>0. pc = "write" /\ pc \in Uncompressing
    BY DEF Write, Uncompressing
  <1>1. Working /\ HeadersFit(headers) /\ fate \in {"whole", "cut"}
    BY <1>0, Running
  <1>2. PICK m : Fits(m)
    BY <1>0, Running
  <1>3. /\ num_threads \in 1..CompThreads /\ CompThreads \in Nat \ {0}
        /\ t \in 0..(num_threads - 1)
        /\ \A j \in Slots : j < t => worker[j] = "idle"
        /\ \A j \in Slots : j >= t /\ j < num_threads => worker[j] = "joined"
        /\ \A j \in Slots : j >= num_threads => worker[j] = "idle"
        /\ worker \in [Slots -> {"idle", "joined"} \cup Started]
        /\ DOMAIN product = Slots /\ DOMAIN args = Slots
    BY <1>0, <1>1, CompAssumption DEF Working
  <1>4. /\ base = Len(out) - t /\ given = num_threads /\ base \in Nat
        /\ Len(out) \in Nat /\ base + t = Len(out) /\ given \in Nat
    <2>1. base = Len(out) - t /\ given = num_threads /\ base \in Nat
      BY <1>0, <1>2 DEF base, given, Fits, Walked
    <2>2. Len(out) \in Nat
      BY <1>2 DEF Fits, Written
    <2> QED
      BY <1>3, <2>1, <2>2
  <1>5. t \in Slots /\ worker[t] = "joined"
    BY <1>3 DEF Slots
  <1>6. PieceFits(headers, p, Len(out) + 1, m)
    <2>1. PieceFits(headers, product[t], base + t + 1, m)
      BY <1>2, <1>3, <1>5 DEF Fits, Made
    <2> QED
      BY <1>4, <2>1
  <1>7. Walking(m, base + given, Starts(headers))
    BY <1>1, <1>2, <1>4, WalkFacts DEF Fits
  <1>8. CASE p.len = 0 /\ Fail
    BY <1>8, EndsFailed DEF Fail, Return
  <1>9. CASE p.len > p.held /\ Return("undefined")
    <2>1. p \in Piece /\ Len(out) + 1 \in 1..n
          /\ (Starts(headers)[Len(out) + 1] <= m => p.len <= p.held)
      BY <1>6 DEF PieceFits
    <2>2. fate # "whole"
      <3>1. ASSUME fate = "whole" PROVE FALSE
        <4>1. m = Starts(headers)[n] /\ n \in Nat
          BY <1>7, <3>1 DEF Walking
        <4>2. Starts(headers)[Len(out) + 1] <= Starts(headers)[n]
          <5>1. Len(out) + 1 \in 0..n /\ n \in (Len(out) + 1)..n
            BY <2>1, <4>1
          <5> QED
            BY <1>7, <5>1 DEF Walking
        <4>3. p.len \in Nat /\ p.held \in Nat
          BY <2>1 DEF Piece
        <4> QED
          BY <1>9, <2>1, <4>1, <4>2, <4>3
      <3> QED
        BY <3>1
    <2>3. UndefinedOnlyWhenCut'
      BY <2>2 DEF UndefinedOnlyWhenCut
    <2> QED
      BY <1>9, <2>3, EndsUndefined DEF Return
  <1>10. CASE /\ out' = Append(out, p)
              /\ worker' = [worker EXCEPT ![t] = "idle"]
              /\ IF t + 1 < num_threads
                 THEN t' = t + 1 /\ UNCHANGED <<pc, ret>>
                 ELSE /\ t' = 0
                      /\ IF bytes_left > 0
                         THEN pc' = "header" /\ UNCHANGED ret
                         ELSE Return("ok")
              /\ UNCHANGED <<walkVars, num_threads, args, product>>
    <2>1. Written(m)' /\ Len(out') = Len(out) + 1
      <3>1. Written(m)
        BY <1>2 DEF Fits
      <3>2. Written(m)'
        BY <1>6, <1>10, <3>1, OneMoreWritten
      <3> QED
        BY <1>10, <3>1, <3>2, <1>6 DEF Written, PieceFits
    <2>2. /\ worker' \in [Slots -> {"idle", "joined"} \cup Started]
          /\ \A j \in Slots : j # t => worker'[j] = worker[j]
          /\ worker'[t] = "idle"
          /\ \A j \in Slots : j < t + 1 => worker'[j] = "idle"
          /\ \A j \in Slots : j >= t + 1 /\ j < num_threads => worker'[j] = "joined"
          /\ \A j \in Slots : j >= num_threads => worker'[j] = "idle"
      <3>1. /\ worker' \in [Slots -> {"idle", "joined"} \cup Started]
            /\ \A j \in Slots : j # t => worker'[j] = worker[j]
            /\ worker'[t] = "idle"
        BY <1>3, <1>5, <1>10
      <3> QED
        BY <1>3, <3>1 DEF Slots
    <2>3. Agrees(m)'
      BY <1>2 DEF Fits, Agrees
    <2>4. CASE t + 1 < num_threads
      <3>1. t' = t + 1 /\ pc' = "write" /\ ret' = ret
        BY <1>0, <1>10, <2>4
      <3>2. base' = base /\ given' = given
        BY <1>3, <1>4, <1>10, <2>1, <3>1 DEF base, given
      <3>3. Working'
        <4>1. t' \in 0..(num_threads' - 1)
          BY <1>3, <1>10, <2>4, <3>1
        <4> QED
          BY <1>3, <1>10, <2>2, <3>1, <4>1 DEF Working
      <3>4. Walked(m)'
        <4>1. pc' # "header"
          BY <3>1
        <4> QED
          BY <1>2, <1>4, <1>10, <3>2, <4>1, SameWalk DEF Fits
      <3>5. Given(m)'
        BY <1>2, <1>10, <3>2 DEF Fits, Given
      <3>6. Made(m)'
        <4>1. \A j \in 0..(num_threads - 1) : j \in Slots
          BY <1>3, FirstSlots
        <4>2. ASSUME NEW j \in 0..(num_threads - 1), worker'[j] \in {"done", "joined"}
              PROVE  PieceFits(headers, product[j], base + j + 1, m)
          <5>1. worker[j] \in {"done", "joined"}
            BY <2>2, <4>1, <4>2
          <5> QED
            BY <1>2, <5>1 DEF Fits, Made
        <4> QED
          BY <1>10, <3>2, <4>2 DEF Made
      <3>7. Fits(m)'
        BY <2>1, <2>3, <3>4, <3>5, <3>6 DEF Fits
      <3>8. pc' \in Uncompressing
        BY <3>1 DEF Uncompressing
      <3> QED
        BY <1>0, <3>1, <3>3, <3>7, <3>8, GoesOn
    <2>5. CASE ~(t + 1 < num_threads)
      <3>1. t' = 0 /\ t + 1 = num_threads /\ Len(out') = base + given
            /\ base + given \in Nat
        BY <1>3, <1>4, <1>10, <2>1, <2>5
      <3>2. \A j \in Slots : worker'[j] = "idle"
        BY <1>3, <2>2, <3>1 DEF Slots
      <3>3. CASE bytes_left > 0
        <4>1. pc' = "header" /\ ret' = ret
          BY <1>10, <2>5, <3>3
        <4>2. base' = base + given /\ given' = 0
          BY <3>1, <4>1 DEF base, given
        <4>3. Working'
          <5>1. t' \in 0..(CompThreads - 1)
            BY <1>3, <3>1
          <5> QED
            BY <1>3, <1>10, <2>2, <3>2, <4>1, <5>1 DEF Working
        <4>4. Walked(m)'
          <5>1. base' \in Nat /\ base' + given' = base + given
            BY <3>1, <4>2
          <5> QED
            BY <1>2, <1>10, <3>3, <5>1, SameWalk DEF Fits
        <4>5. Given(m)'
          <5>1. 0..(given' - 1) = {}
            BY <4>2
          <5> QED
            BY <5>1 DEF Given
        <4>6. Made(m)'
          <5>1. \A j \in 0..(num_threads' - 1) : worker'[j] \notin {"done", "joined"}
            BY <1>3, <1>10, <3>2, FirstSlots
          <5> QED
            BY <5>1 DEF Made
        <4>7. Fits(m)'
          BY <2>1, <2>3, <4>4, <4>5, <4>6 DEF Fits
        <4>8. pc' \in Uncompressing
          BY <4>1 DEF Uncompressing
        <4> QED
          BY <1>0, <4>1, <4>3, <4>7, <4>8, GoesOn
      <3>4. CASE ~(bytes_left > 0)
        <4>1. pc' = "returned" /\ ret' = "ok"
          BY <1>10, <2>5, <3>4 DEF Return
        <4>2. bytes_left = Len(stream) - cur_pos /\ base + given <= n
          BY <1>2 DEF Fits, Walked
        <4>3. ASSUME fate = "whole" PROVE base + given = n
          <5>1. /\ cur_pos = Starts(headers)[base + given] /\ Len(stream) = Starts(headers)[n]
                /\ cur_pos \in Nat /\ Len(stream) \in Nat /\ n \in Nat
                /\ EC_HEADER_SIZE \in Nat \ {0}
            BY <1>7, <4>3 DEF Walking
          <5>2. ~(base + given < n)
            BY <1>7, <3>4, <4>2, <5>1 DEF Walking
          <5> QED
            BY <3>1, <4>2, <5>1, <5>2
        <4>4. Comes(Len(out'), fate = "whole")
          <5>1. Len(out') >= 1 /\ n \in Nat
            BY <1>4, <1>7, <2>1 DEF Walking
          <5> QED
            BY <3>1, <4>2, <4>3, <5>1 DEF Comes
        <4>5. m \in Nat /\ (fate = "whole" => m = Len(comp_file(headers)))
          BY <1>2 DEF Fits, Agrees, AgreesTo
        <4> QED
          BY <2>1, <4>1, <4>4, <4>5, ReturnsOk
      <3> QED
        BY <3>3, <3>4
    <2> QED
      BY <2>4, <2>5
  <1> QED
    BY <1>8, <1>9, <1>10 DEF Write

(* Until the stream is decrypted the function has not begun.               *)
LEMMA Before ==
    ASSUME PipelineInv, pc \in {"compress", "encrypt", "send", "decrypt"}
    PROVE  /\ UncompInit /\ BeforeUncomp /\ HeadersFit(headers) /\ fate \in {"whole", "cut"}
           /\ comp_file(headers) \in Seq(Bytes)
  BY StartFacts DEF PipelineInv, BeforeUncomp

LEMMA StillBefore ==
    ASSUME PipelineInv, pc \in {"compress", "encrypt", "send", "decrypt"},
           pc' \in {"encrypt", "send", "decrypt"}, BeforeUncomp', fate' \in {"whole", "cut"},
           UNCHANGED <<headers, ret>>
    PROVE  PipelineInv'
  <1>1. ret' = "none" /\ pc' # "returned" /\ pc' \notin Uncompressing
    BY DEF PipelineInv, Uncompressing
  <1> QED
    BY <1>1 DEF PipelineInv, RoundTrip, DamageContained, UndefinedOnlyWhenCut

LEMMA CompressKeeps ==
    ASSUME PipelineInv, Compress
    PROVE  PipelineInv'
  <1>0. pc = "compress" /\ UNCHANGED <<headers, size, sent, fate>>
    BY DEF Compress
  <1>1. UncompInit /\ fate = "whole"
    BY <1>0, Before DEF BeforeUncomp
  <1>2. CASE stream' = comp_file(headers) /\ On("encrypt")
    <2>1. UncompInit'
      BY <1>1, <1>2 DEF UncompInit, On, walkVars
    <2>2. pc' = "encrypt" /\ ret' = ret
      BY <1>2 DEF On
    <2>3. BeforeUncomp'
      BY <1>0, <1>1, <1>2, <2>1, <2>2 DEF BeforeUncomp
    <2> QED
      BY <1>0, <1>1, <2>2, <2>3, StillBefore
  <1>3. CASE \E r \in FullBatch(size, C!max_bytes_per_batch) : End(r)
    <2>1. PICK r \in FullBatch(size, C!max_bytes_per_batch) : End(r)
      BY <1>3
    <2>2. pc' = "returned" /\ ret' = r
      BY <2>1 DEF End, Return
    <2>3. CASE r = "error"
      BY <1>0, <2>2, <2>3, EndsFailed
    <2>4. CASE r # "error"
      <3>1. r = "undefined" /\ size = C!max_bytes_per_batch
        BY <2>1, <2>4 DEF FullBatch
      <3>2. UndefinedOnlyWhenCut'
        BY <1>0, <3>1 DEF UndefinedOnlyWhenCut
      <3> QED
        BY <1>0, <2>2, <3>1, <3>2, EndsUndefined
    <2> QED
      BY <2>3, <2>4
  <1> QED
    BY <1>2, <1>3 DEF Compress

LEMMA EncryptFileKeeps ==
    ASSUME PipelineInv, EncryptFile
    PROVE  PipelineInv'
  <1>0. pc = "encrypt" /\ UNCHANGED <<headers, size, fate>>
    BY DEF EncryptFile
  <1>1. UncompInit /\ fate = "whole" /\ stream = comp_file(headers)
    BY <1>0, Before DEF BeforeUncomp
  <1>2. CASE stream' = enc_file(stream) /\ sent' = Len(stream') /\ On("send")
    <2>1. UncompInit'
      BY <1>1, <1>2 DEF UncompInit, On, walkVars
    <2>2. pc' = "send" /\ ret' = ret
      BY <1>2 DEF On
    <2>3. BeforeUncomp'
      BY <1>0, <1>1, <1>2, <2>1, <2>2 DEF BeforeUncomp
    <2> QED
      BY <1>0, <1>1, <2>2, <2>3, StillBefore
  <1>3. CASE \E r \in FullBatch(Len(stream), E!max_bytes_per_batch) : End(r)
    <2>1. PICK r \in FullBatch(Len(stream), E!max_bytes_per_batch) : End(r)
      BY <1>3
    <2>2. pc' = "returned" /\ ret' = r
      BY <2>1 DEF End, Return
    <2>3. CASE r = "error"
      BY <1>0, <2>2, <2>3, EndsFailed
    <2>4. CASE r # "error"
      <3>1. r = "undefined" /\ comp_len = E!max_bytes_per_batch
        BY <1>1, <2>1, <2>4 DEF FullBatch, comp_len
      <3>2. UndefinedOnlyWhenCut'
        BY <1>0, <3>1 DEF UndefinedOnlyWhenCut, comp_len
      <3> QED
        BY <1>0, <2>2, <3>1, <3>2, EndsUndefined
    <2> QED
      BY <2>3, <2>4
  <1> QED
    BY <1>2, <1>3 DEF EncryptFile

LEMMA ReceiveKeeps ==
    ASSUME PipelineInv, Receive
    PROVE  PipelineInv'
  <1>0. pc = "send" /\ UNCHANGED <<headers, size, sent>> /\ On("decrypt")
    BY DEF Receive
  <1>1. UncompInit /\ stream = enc_file(comp_file(headers)) /\ sent = Len(stream)
    BY <1>0, Before DEF BeforeUncomp
  <1>2. PICK n \in 0..sent : /\ stream' = SubSeq(stream, 1, n)
                             /\ fate' = IF n = sent THEN "whole" ELSE "cut"
    BY DEF Receive
  <1>3. UncompInit'
    BY <1>0, <1>1 DEF UncompInit, On, walkVars
  <1>4. pc' = "decrypt" /\ ret' = ret
    BY <1>0 DEF On
  <1>5. fate' \in {"whole", "cut"} /\ (fate' = "whole" <=> n = sent)
    BY <1>2
  <1>6. BeforeUncomp'
    BY <1>0, <1>1, <1>2, <1>3, <1>4, <1>5 DEF BeforeUncomp
  <1> QED
    BY <1>0, <1>4, <1>5, <1>6, StillBefore

LEMMA DecryptFileKeeps ==
    ASSUME PipelineInv, DecryptFile
    PROVE  PipelineInv'
  <1> DEFINE s == comp_file(headers)
             f == enc_file(s)
  <1>0. pc = "decrypt" /\ UNCHANGED <<headers, size, sent, fate>>
    BY DEF DecryptFile
  <1>1. UncompInit /\ HeadersFit(headers) /\ s \in Seq(Bytes) /\ fate \in {"whole", "cut"}
    BY <1>0, Before
  <1>2. sent = Len(f) /\ \E n \in 0..sent : /\ stream = SubSeq(f, 1, n)
                                            /\ fate = "whole" <=> n = sent
    BY <1>0, Before DEF BeforeUncomp
  <1>3. PICK n \in 0..sent : stream = SubSeq(f, 1, n) /\ (fate = "whole" <=> n = sent)
    BY <1>2
  <1>4. IsEncFile(f, s) /\ EncMem % Block = 0
    BY <1>1, EncFileIs, PipelineAssumption
  <1>5. PICK d \in dec_file(stream) :
         \/ /\ d.ret = "ok"
            /\ stream' = d.stream /\ bytes_left' = Len(d.stream)
            /\ pc' = "header"
            /\ UNCHANGED <<in_file, cur_pos, num_threads, t, args, worker, product, out, ret>>
         \/ /\ d.ret # "ok"
            /\ \E r \in {d.ret} \cup FullBatch(Len(stream), E!max_bytes_per_batch) : End(r)
    BY DEF DecryptFile
  <1>6. Arrives(d, s, n, Len(f))
    <2>1. n \in 0..Len(f) /\ d \in dec_file(SubSeq(f, 1, n))
      BY <1>2, <1>3, <1>5
    <2> HIDE DEF s, f
    <2> QED
      BY <1>1, <1>4, <2>1, DecFileArrives
  <1>7. CASE d.ret = "ok"
    <2>1. /\ stream' = d.stream /\ bytes_left' = Len(d.stream) /\ pc' = "header"
          /\ UNCHANGED <<in_file, cur_pos, num_threads, t, args, worker, product, out, ret>>
      BY <1>5, <1>7
    <2>2. Len(d.stream) \in Nat \ {0}
      BY <1>6, <1>7 DEF Arrives
    <2>3. PICK m : AgreesTo(d.stream, s, m) /\ (n = Len(f) => m = Len(d.stream) /\ m = Len(s))
      BY <1>6, <1>7 DEF Arrives
    <2>4. CompThreads \in Nat \ {0}
      BY CompAssumption
    <2>5. base' = 0 /\ given' = 0
      BY <1>1, <2>1 DEF base, given, UncompInit
    <2>6. Working'
      <3>1. /\ num_threads' \in 1..CompThreads /\ t' \in 0..(CompThreads - 1)
            /\ worker' = [k \in Slots |-> "idle"]
            /\ DOMAIN product' = Slots /\ DOMAIN args' = Slots
        BY <1>1, <2>1, <2>4 DEF UncompInit
      <3> QED
        BY <2>1, <3>1 DEF Working
    <2>7. Agrees(m)'
      <3>1. fate = "whole" => m = Len(d.stream) /\ m = Len(s)
        BY <1>2, <1>3, <2>3
      <3> QED
        BY <1>0, <2>1, <2>2, <2>3, <3>1 DEF Agrees
    <2>8. Walked(m)'
      <3>1. Starts(headers)[0] = 0 /\ Len(headers) \in Nat
        BY <1>1, StartFacts DEF RecordsInOrder
      <3>2. cur_pos' = 0 /\ in_file' = 0 /\ bytes_left' = Len(stream') /\ bytes_left' \in Nat \ {0}
        BY <1>1, <2>1, <2>2 DEF UncompInit
      <3> QED
        BY <1>0, <2>5, <3>1, <3>2 DEF Walked
    <2>9. Given(m)'
      <3>1. 0..(given' - 1) = {}
        BY <2>5
      <3> QED
        BY <3>1 DEF Given
    <2>10. Made(m)'
      <3>1. worker' = [k \in Slots |-> "idle"] /\ num_threads' \in 1..CompThreads
        BY <1>1, <2>1, <2>4 DEF UncompInit
      <3>2. \A j \in 0..(num_threads' - 1) : worker'[j] \notin {"done", "joined"}
        BY <3>1, FirstSlots
      <3> QED
        BY <3>2 DEF Made
    <2>11. Written(m)'
      <3>1. out' = <<>>
        BY <1>1, <2>1 DEF UncompInit
      <3> QED
        BY <3>1 DEF Written
    <2>12. Fits(m)'
      BY <2>7, <2>8, <2>9, <2>10, <2>11 DEF Fits
    <2>13. UncompFits'
      BY <2>6, <2>12 DEF UncompFits
    <2>14. ret' = "none"
      BY <1>1, <2>1 DEF UncompInit
    <2> QED
      BY <1>0, <1>1, <2>1, <2>13, <2>14
      DEF PipelineInv, BeforeUncomp, RoundTrip, DamageContained, UndefinedOnlyWhenCut, Uncompressing
  <1>8. CASE d.ret # "ok"
    <2>1. PICK r \in {d.ret} \cup FullBatch(Len(stream), E!max_bytes_per_batch) : End(r)
      BY <1>5, <1>8
    <2>2. pc' = "returned" /\ ret' = r
      BY <2>1 DEF End, Return
    <2>3. d.ret \in {"ok", "error", "undefined"}
      <3> DEFINE inbufs == Cut(stream)
                 last == Len(inbufs)
                 whole == FlattenSeq([k \in 1..(last - 1) |-> Decrypted(inbufs[k])])
                 result(len) ==
                    IF len > 0
                    THEN [ret |-> "ok", stream |-> whole \o SubSeq(Decrypted(inbufs[last]), 1, len)]
                    ELSE [ret |-> IF len = 0 THEN "error" ELSE "undefined", stream |-> <<>>]
      <3>1. d \in {result(len) : len \in outbuf_lens(inbufs[last], TRUE)}
        BY <1>5 DEF dec_file
      <3>2. ASSUME NEW len PROVE result(len).ret \in {"ok", "error", "undefined"}
        <4> HIDE DEF whole, last, inbufs
        <4> QED
          OBVIOUS
      <3> HIDE DEF result
      <3> QED
        BY <3>1, <3>2
    <2>4. CASE r = "error"
      BY <1>0, <2>2, <2>4, EndsFailed
    <2>5. CASE r # "error"
      <3>1. r = "undefined"
        BY <1>8, <2>1, <2>3, <2>5 DEF FullBatch
      <3>2. ASSUME fate = "whole" PROVE sent = E!max_bytes_per_batch
        <4>1. n = Len(f)
          BY <1>2, <1>3, <3>2
        <4>2. d.ret # "undefined"
          BY <1>6, <4>1 DEF Arrives
        <4>3. Len(stream) = E!max_bytes_per_batch
          BY <2>1, <3>1, <4>2 DEF FullBatch
        <4>4. f \in Seq(Coded)
          BY <1>4 DEF IsEncFile, EncryptedAs
        <4>5. Len(stream) = n
          BY <1>3, <4>1, <4>4
        <4> QED
          BY <1>2, <4>1, <4>3, <4>5
      <3>3. UndefinedOnlyWhenCut'
        BY <1>0, <3>2 DEF UndefinedOnlyWhenCut
      <3> QED
        BY <1>0, <2>2, <3>1, <3>3, EndsUndefined
    <2> QED
      BY <2>4, <2>5
  <1> QED
    BY <1>7, <1>8

LEMMA StepFailsKeeps ==
    ASSUME PipelineInv, StepFails
    PROVE  PipelineInv'
  BY EndsFailed DEF StepFails, End, Return

LEMMA UncompressKeeps ==
    ASSUME PipelineInv, Uncompress
    PROVE  PipelineInv'
  <1>0. UNCHANGED <<headers, stream, size, sent, fate>>
    BY DEF Uncompress, UncompNext
  <1>1. CASE ReadHeader
    BY <1>0, <1>1, ReadHeaderKeeps
  <1>2. CASE ReadPastEnd
    BY <1>0, <1>2, ReadPastEndKeeps
  <1>3. CASE Create
    BY <1>0, <1>3, CreateKeeps
  <1>4. CASE Own
    BY <1>0, <1>4, OwnKeeps
  <1>5. CASE Join
    BY <1>0, <1>5, JoinKeeps
  <1>6. CASE Write
    BY <1>0, <1>6, WriteKeeps
  <1>7. CASE CallFails
    BY <1>0, <1>7, CallFailsKeeps
  <1>8. ASSUME NEW k \in Slots, WorkerDone(k) PROVE PipelineInv'
    BY <1>0, <1>8, WorkerDoneKeeps
  <1> QED
    BY <1>1, <1>2, <1>3, <1>4, <1>5, <1>6, <1>7, <1>8 DEF Uncompress, UncompNext, UncompCaller

LEMMA PipelineInitial ==
    ASSUME Init
    PROVE  PipelineInv
  <1>1. size \in Nat
    BY PipelineAssumption DEF Init
  <1>2. HeadersFit(headers)
    BY <1>1, HeadersType DEF Init
  <1>3. pc = "compress" /\ UncompInit /\ fate = "whole" /\ ret = "none"
    BY DEF Init, UncompInit
  <1> QED
    BY <1>2, <1>3
    DEF PipelineInv, BeforeUncomp, Uncompressing, RoundTrip, DamageContained, UndefinedOnlyWhenCut

LEMMA PipelineIdle ==
    ASSUME PipelineInv, UNCHANGED vars
    PROVE  PipelineInv'
  <1>1. UNCHANGED <<headers, stream, size, sent, fate>> /\ UNCHANGED uncompVars
    BY DEF vars
  <1>2. UNCHANGED <<pc, walkVars, num_threads, t, args, worker, product, out, ret>>
    BY <1>1 DEF uncompVars, walkVars
  <1>3. BeforeUncomp'
    BY <1>1, <1>2 DEF PipelineInv, BeforeUncomp, UncompInit, walkVars
  <1>4. ASSUME pc \in Uncompressing PROVE UncompFits'
    <2>1. Working' /\ base' = base /\ given' = given
      BY <1>2, <1>4, Running DEF Working, base, given
    <2>2. PICK m : Fits(m)
      BY <1>4, Running
    <2>3. Agrees(m)' /\ Walked(m)' /\ Given(m)' /\ Made(m)' /\ Written(m)'
      BY <1>1, <1>2, <2>1, <2>2 DEF Fits, Agrees, Walked, Given, Made, Written, walkVars
    <2> QED
      BY <2>1, <2>3 DEF UncompFits, Fits
  <1>5. RoundTrip' /\ DamageContained' /\ UndefinedOnlyWhenCut'
    BY <1>1, <1>2 DEF PipelineInv, RoundTrip, DamageContained, UndefinedOnlyWhenCut, comp_len
  <1> QED
    BY <1>1, <1>2, <1>3, <1>4, <1>5 DEF PipelineInv

(* PipelineInv holds in every reachable state, whatever the sizes of file, *)
(* chunks, blocks and headers and the numbers of threads, wherever the     *)
(* stream is cut and whatever a damaged header says.                       *)
THEOREM PipelineInvariant == Spec => []PipelineInv
  <1>1. Init => PipelineInv
    BY PipelineInitial
  <1>2. PipelineInv /\ [Next]_vars => PipelineInv'
    <2> SUFFICES ASSUME PipelineInv, [Next]_vars PROVE PipelineInv'
      OBVIOUS
    <2> QED
      BY CompressKeeps, EncryptFileKeeps, ReceiveKeeps, DecryptFileKeeps, StepFailsKeeps,
         UncompressKeeps, PipelineIdle DEF Next
  <1> QED
    BY <1>1, <1>2, PTL DEF Spec

(* A stream that arrived whole and was processed with success comes out as *)
(* the file that went in, every chunk in its place and undamaged           *)
(* (src/src/comp.c:701-707, src/src/enc.c:425).                            *)
THEOREM FileComesBack == Spec => []RoundTrip
  <1>1. PipelineInv => RoundTrip
    BY DEF PipelineInv
  <1> QED
    BY <1>1, PipelineInvariant, PTL

(* What a stream that was cut short leaves with success is whole chunks of *)
(* the beginning of the file in order, none damaged but the last           *)
(* (src/src/enc.c:409-428, src/src/comp.c:595-605).                        *)
THEOREM OnlyLastChunkDamaged == Spec => []DamageContained
  <1>1. PipelineInv => DamageContained
    BY DEF PipelineInv
  <1> QED
    BY <1>1, PipelineInvariant, PTL

(* A stream that arrived whole leads dec_file to no length below zero and  *)
(* uncomp_file to no batch without chunks and no chunk longer than its     *)
(* buffer (src/src/enc.c:425, src/src/comp.c:680): only a file, or a       *)
(* stream, of exactly one full batch does harm.                            *)
THEOREM WholeStreamsDefined == Spec => []UndefinedOnlyWhenCut
  <1>1. PipelineInv => UndefinedOnlyWhenCut
    BY DEF PipelineInv
  <1> QED
    BY <1>1, PipelineInvariant, PTL
=============================================================================
