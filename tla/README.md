# A TLA+ model of ec-ftp

ec-ftp is an FTP client and server in C whose files travel compressed and
encrypted. This directory holds a model of it that TLC checks on small
instances and, for the session, the server's children, the chunk pools, the file
pipeline, the key exchange and the range encoder, proofs that TLAPS checks for every
value of the constants.
Paths are those of the repository, which is at `src/` (so its code is at
`src/src/`).

## 1. The system

| Component | Code | State it keeps | Operations | Talks to |
|---|---|---|---|---|
| Client | `ecftpclient.c` | the command being run, both sockets, temporary files, its working directory | `ls`, `get`, `put`, `quit` | the server child, over both connections; the pipeline |
| Server child | `ecftpserver.c:390-497` | the turn of its loop, data socket, working directory | PORT, LIST, RETR, STOR, SKIP, QUIT | one client; the pipeline |
| Listener | `ecftpserver.c:341-389, 498-501` | listening socket | accept, fork | its children share the directory |
| Key exchange | `ecftp.c:316-372` | four half-keys of each side | one message each way, four times | over the data connection, before the file |
| Pipeline | `ecftp.c:159-312` | temporary files | `prepare_file` (compress, encrypt), `process_received_file` (decrypt, decompress) | the pools |
| Compression pool | `comp.c:276-501` | batches, threads, their arguments | `comp_file` | worker threads, LZMA |
| Decompression pool | `comp.c:512-726` | a walk over chunk headers, threads | `uncomp_file` | worker threads, LZMA |
| Encryption pools | `enc.c:98-638` | batches, threads, their arguments | `enc_file`, `dec_file` | worker threads, AES |
| AES | `aes.c` | tables, round keys | `expkey`, `encrypt`, `decrypt` | none |
| Square and multiply | `enc.c:56-72` | none | `sq_mp` | key exchange |
| PORT | `ecftpclient.c:50-108`, `ecftpserver.c:23-88` | a port in two bytes, the bind loop | split, print, parse, bind, connect | both programs |
| Temporary names | `comp.c:105-132`, `enc.c:25-52`, `ecftp.c:121-142` | names on disk | mkstemp, unlink | shared directory |
| LZMA codec | `lzma/LzmaEnc.c`, `LzmaDec.c`, `LzmaLib.c` (vendored, unchanged) | range coder, probabilities, last distances, dictionary | `LzmaCompress`, `LzmaUncompress`, one chunk at a time | a worker of the compression pools |
| LZMA match finder and parser | `lzma/LzFind.c`, `LzmaEnc.c` | hash heads, tree or chain, table of nodes | what lies ahead, which packet next | the encoder, in its thread |

**One command.** The client writes PORT, the child connects to the client's
data port, the client writes the command, and for RETR and STOR both run the
key exchange on the data connection. The sender prepares the file, sends it and
closes the data connection, whose end of file is the only mark of the end of
the file. The server sends one reply on the control connection. Nothing on
either connection is framed, no message is numbered, there are no time limits
and no reconnection.

**What is hard here.** Two unframed streams in each direction whose relative
order is set by blocking calls alone; handlers that return from many places and
must read, or send, exactly one reply on each path; end of file used both for
"complete" and for "died"; replies sent before the work they report; a
destination truncated before its input is known to be good; temporary files on
every error path; and, in the pools, worker threads whose arguments live in an
array that is refilled batch after batch, sized by divisions with a boundary
case at each multiple of the chunk and of the batch. In the codec it is what two
programs compute separately and must compute alike: a carry that runs back
through bytes kept for it, probabilities and last distances adapted at both
ends, symbols decoded once dry and once for real near the end of the input, and
a parser that works ahead of the coder on a table it fills and takes apart.

**What makes each part correct.** *Session*: the two programs stay in step, a
reply is taken for the command it answers, keys agree, a file changes only to
the other end's whole file, commands end, and children end with their clients.
*Pipeline*: what was prepared is recovered, a stream cut short does as little
harm as its form allows, the sizes that cannot be processed are known, and
success leaves no temporary file. *Pools*: output in order and complete, no slot reused while in use, every
worker joined, every size handled. *Key exchange and cipher*: both ends compute
one key without overflow; decryption undoes encryption. *Listener*: a client
that connects is served, and what other clients do to a file does not show in a
get that none of them disturbed. *Codec*: a chunk comes back as it was; damaged
input never takes the decoder out of its buffers, and part of a chunk never
passes for the whole. *Match finder and parser*: whatever they decide is true
of the data.

## 2. Modules

| Module | What it is |
|---|---|
| `FileService` | Abstract: a get or put empties one copy of a file and completes it with the other's content |
| `Transfer` | One session: client, server child, both connections, crashes and failing calls; refines `FileService` |
| `TransferInv` | The inductive invariant of a session |
| `TransferSession` | Theorems: types, who is where, one key, one reply, temporary files; lemmas: what each action does |
| `TransferData` | Theorems: whole files, the refinement of `FileService` |
| `MCTransfer` | Its instances |
| `Chunks` | How a file size is cut into batches and chunks: arithmetic only |
| `SequentialFile` | Abstract: a loop over the chunks without threads |
| `ChunkPool` | The fork-join pool of `enc_file`, `dec_file` and `comp_file`; refines `SequentialFile` |
| `MCChunkPool` | Its instances |
| `ChunkPoolProofs` | Lemmas about the arithmetic; the pool's inductive invariant and the theorems |
| `CompStream` | What `comp_file` writes: headers, properties, chunks |
| `CryptStream` | What `enc_file` makes of a stream and `dec_file` of what arrives of it: blocks and padding |
| `UncompFile` | `uncomp_file`: the walk over the headers and its workers |
| `Pipeline` | The four in order, with the connection between them |
| `StreamProofs` | Lemmas: what is at each place of `comp_file`'s stream, of `enc_file`'s, and of what `dec_file` makes of a part of it |
| `PipelineProofs` | Theorems: the invariant of `uncomp_file` in the pipeline, whole files come back, damage stays in the last chunk |
| `MCPipeline` | Its instance |
| `DiffieHellman` | `sq_mp` and the key exchange in numbers |
| `Aes` | The cipher: tables, key schedule, `encrypt`, `decrypt` |
| `SecureChannel` | Key exchange, then blocks from either end to the other |
| `SecureChannelProofs` | Products fit and keys are one, for every modulus; the channel refines the exchange and inherits its theorems |
| `MCSecureChannel` | Its instance |
| `Sessions` | The listener, its children, their ports, and one file in their directory |
| `SessionsProofs` | An undisturbed get is whole, for every number of clients |
| `MCSessions` | Its instance |
| `RangeCoder` | Encoder and decoder of single bits |
| `LzmaFormat` | Widths, contexts and properties that both sides of the codec use |
| `LzmaPackets` | Packets: which are true of the data, what each does to state and distances |
| `LzmaEnc`, `LzmaDec` | The two sides of the codec |
| `LzmaCodec` | A chunk from one to the other, whole, cut or changed |
| `LzmaCodecProofs` | Theorems: the range encoder loses no carry; the decoder keeps to its output, whatever arrives; for every width and every chunk |
| `MCLzmaCodec` | Its instances |
| `LzFind` | The match finder: `bt4` and `hc5` |
| `PacketSequence` | Abstract: one true packet after the other |
| `LzmaParse` | `GetOptimum` and `GetOptimumFast`; refines `PacketSequence` |
| `MCLzmaParse` | Its instances |

### Transfer

`c` and `s` are the local states of the two processes: a control point `pc`, the
command, its file and number, the key so far, the data received or still to be
sent (`buf`), whether the data socket is open, the last reply looked at, whether
the last handler reported success (`ok`) and the temporary files it left
(`temp`). `c2s`, `s2c` are what is in flight on the control connection, `dc2s`,
`ds2c` on the data connection, `pending` is a connection in the client's listen
queue, `cfile`, `sfile` the two working directories.

An action is a stretch of code between two points where the process can be
overtaken by the other: a read, a write, a close, the preparing of a file, its
decryption, or its decompression.
Its name gives the function: `ClientGet...` is `do_get`, `ClientPut...` is
`do_put`, `ServerRetr...` is `do_retr`, `ServerStor...` is `do_stor`, `...DH...`
is `do_dh_client` and `do_dh_server`; `ServerPort`, `ServerConnect`,
`ServerCommand` and `ServerClose` are the turn of the child's loop.

- A control read takes one message or several that have arrived; only the first
  reply is looked at; two commands read at once are no command
  (`ServerMerged`). That follows from TCP and the code's reads of up to
  `MAXLINE` bytes.
- A read from a peer that has closed returns nothing. The code mostly does not
  look, so the model carries on as it does: a half-key is reused (`HalfRead`), an
  empty command line crashes the child (`ServerGarbled`), an empty reply crashes
  `do_ls` and `do_put`, where `strtok` returns NULL.
- Every write may raise SIGPIPE when the peer has gone; nobody handles it.
- `Prepared` says how `prepare_file` can end. `process_received_file` takes two steps:
  `ClientGetDecrypt` and `ServerStorDecrypt` end where `uncomp_file` opens the destination
  for writing (`comp.c:523`), which empties it; `ClientGetUncomp` and `ServerStorUncomp` end where it
  is closed. In between, while batches are written (`comp.c:699`), the destination is `Spoiled`, and
  it stays so if the program is killed there or decompression fails. `Decrypted`
  and `Incomplete` say which streams can fail in which step: a whole stream under the
  right key is recovered, unless the fault `process` is allowed; an empty one fails in
  decryption, which leaves the destination alone; any other fails in either step or, when cut
  at a chunk header, decompresses without an error to part of the file.
- Messages carry the number of their command. The code has no such number; it is
  there so that properties can say which command a message belongs to, and no
  guard reads it.

Faults (`FaultKinds`) are the failures of calls into the system. A behaviour
draws its set of possible faults from `FaultSets` at the start.

### ChunkPool

Written after `enc_file`, whose labels STA, RT1, RT2, RT3 and MUTW name the
actions `Assign`, `Create`, `Own`, `Join` and `Write`; `WorkerDone` is a worker
thread's `encrypt_chunk_of_file`. `dec_file` and `comp_file` repeat the same
loops with other constants. A chunk is the interval of input it was read from, and
the output is the sequence of intervals it stands for. `args` has `MaxThreads`
slots; slot `MaxThreads` is the memory past its end. Every error path is
a bare `return`, so `Fail` leaves workers as they are.

### Pipeline

A byte of a stream is known by the chunk it belongs to and its place there
(`CompStream`); an encrypted byte, by the byte it hides and by whether its block
arrived whole (`CryptStream`). `Pipeline` takes `comp_file`, `enc_file` and
`dec_file` as one step each, since `ChunkPool` has their threads, and
`uncomp_file` action by action, since its batches are found by reading and not by
dividing: `Walk` gives a slot its chunk, `Create`, `Own`, `Join` and `Write` are
the pool's, and `WorkerDone` is a worker thread. `Receive` ends the stream at any
byte. A length below zero, a batch without chunks and a chunk longer than its
buffer end in the return value `"undefined"`: the code has no check there, and
what happens then depends on what lies in memory.

### DiffieHellman, Aes, SecureChannel

Each turn of `sq_mp`'s loop is an action (`Square`), so that the two ends
interleave inside their exponentiations; products are taken modulo `IntSize`,
as the machine does, and `NoOverflow` says that this never changes them. `Aes`
is the code's cipher at its full size, tables and all, translated as it
stands, with one round constant for all four bytes of a word and rows turned
the way the code turns them; the model makes no claim that this is the cipher of
the standard. `SecureChannel` composes the two, with `enc_file`'s last block,
which alone is not put in rows, as `TakePadding`.

### Sessions

A client connects, is accepted, has a child forked for it, and gets or puts the
one file; then it quits and its child is a zombie for good, as `main` never
waits. `max_procs` is how many children the system allows. A file is a sequence
of chunks marked with the client that wrote them; chunk by chunk is how
`comp_file` reads and `uncomp_file` writes, so children interleave there.
`Bind` is the loop that looks for a free port downwards; ports are held by the
listener, by children and, after a get, by the system until `PortExpires`. `base`
and `intact` are history, read by no guard: which version a get began from, and
whether the file was ever half stored.

### The codec

Bits of the stream go by the name of their probability, `Node(probs, m)` being
the code's `probs + m`. `LzmaEnc` sends any packet of `TruePackets`, so that
`LzmaCodec` covers every choice a parser can make, not only `GetOptimum`'s; that
the parser's choices are among these is what `LzmaParse` shows (`Implements`).
`LzmaDec` reads a bit in two ways, as the code does: `GET_BIT`, and
`GET_BIT_CHECK` on a copy, which stops at the end of the input and adapts
nothing. `DecTop` is a turn of the loop of `LzmaDec_DecodeToDic` and `DecSymbol` a
symbol of `LZMA_DECODE_REAL`. Widths are constants, because a byte of 8 bits and a
range of 32 cannot be enumerated; what depends on a width in the code depends on
the constant here.

### The parser

`LzFind`'s record is the match finder: hash heads, the tree or chain in a cyclic
buffer, the position. `LzmaParse` has `ReadMatchDistances`, `GetOptimum` from its
first table to `Backward`, one action per node (`OptNode`), and `GetOptimumFast`. Prices
are left out: where the code keeps the cheaper of two ways, the model takes either,
so what holds does not depend on the price tables. `comp.c` asks for level 9, a
dictionary of 2^24 and 32 fast bytes (`comp.c:181`), which selects `bt4` and
`GetOptimum`; `hc5` and `GetOptimumFast`, selected below level 5, are in the model
because `COMP_LEVEL` is a setting (`comp.h:21`).

## 3. Runs

| Run | Checks | Result |
|---|---|---|
| `transfer_faults` | safety, the inductive invariant, refinement of `FileService`, end of the child, with everything failing and both programs killed at any point; with the faults both survive, every command returns and quit ends both programs | holds |
| `transfer_put_given_up` | `SkipAnswered` | violated |
| `transfer_get_cleanup` | `FailedGetCleansUp` | violated |
| `pool` | order, completeness, reuse of slots, boundary sizes, refinement of `SequentialFile`, termination | holds |
| `pool_join` | `WorkersJoined` | violated |
| `pool_slots` | `SlotsSuffice` | violated |
| `pool_aligned` | `ErrorsHaveCauses` | violated |
| `pipeline` | what comes out of whole and cut streams, the sizes that fail, undefined behaviour | holds |
| `secure_channel` | no overflow, one key, blocks come back | holds |
| `sessions` | undisturbed gets are whole, clients are served | holds |
| `lzma_codec` | carry, round trip, cut and changed input, buffers, dry run | holds |
| `lzma_parse` | matches, table of nodes, lookahead, refinement of `PacketSequence` | holds |

**What holds, and under which conditions.** `RepliesMatch` and `ControlLockStep`
hold under all faults but `copen` (the client cannot name or open its temporary
file): on those two paths the client returns with a reply unread, and the next
command takes it for its own. `StoredWhole` says of the server's copy that it is opened
for writing only for a content that came whole or from a client that died, and that a
child that comes back from writing it has written that content whole, unless the
client died or decompression failed. What it does not say is that the copy is whole:
a child killed while it writes leaves it `Spoiled`, with a client that lives on and was told 200.
`ServiceSpec` covers both directories: whatever is killed or fails, a transfer
empties the copy it replaces and completes it with the other end's content, or, where
it is `unreliable` ("a program may be killed or processing may fail"), breaks off in between.
`TempsCleared` is about handlers that report
success; those that fail leave temporary files, which is what
`FailedGetCleansUp` shows for one of them. `CommandReturns` and `QuitEnds` are
about sessions where nothing fails but what is `Survivable`: with other faults a command
need not return (a child that cannot connect to the data port exits, and the client's
`accept` has no limit), nor does a put of a file that cannot be prepared (`SkipAnswered`, below).
`UnalignedSucceeds` and `FailsAtEdgesOnly` are about the sizes that are processed, given that
some are not (`ErrorsHaveCauses`, below). A pool without faults succeeds at every size that is not a
multiple of the chunk size. A transfer without faults fails for the multiples, the empty file included, for files
whose compressed stream is a multiple of `ENC_THREAD_MAX_MEM`, and for those whose encrypted
stream is one. The last fails only at the receiver, after the sender has sent
everything and, in a put, was told of success; and it succeeds for every other size.
`UndefinedOnlyWhenCut` and `DamageContained` bound what a cut stream can do: some
cuts reach undefined behaviour (the guard of the property is met), but whatever
is stored with success is a prefix of the file in whole chunks, of which the last
alone can be damaged. `UndisturbedGetWhole` is about gets that began when no put was
at work and saw none begin; a disturbed one may send a mixture of versions. `Served`
allows exactly one excuse: that the server already has all the children it may
have, zombies included. `CutRefused` says of the codec what its callers rely on,
since a chunk carries no checksum: cut input is never taken for whole. Changed input
may decode to other data; `StaysInOutput` and `DryRunAgrees` hold for it too.
`FindsLongest` is asked only where the search is not cut off by `cutValue`.

**What the violated properties show.**
`SkipAnswered`: a `put` of a file that cannot be prepared hangs both programs,
because the client asks for an answer to SKIP on the control connection while
the child, in `do_stor` since STOR, waits for the end of the data connection.
`FailedGetCleansUp`: after a 550 the empty receive file is processed, fails, and
stays on disk; the reply is only printed.
`WorkersJoined`: error returns leave threads running on the locals of a function
that has returned.
`SlotsSuffice`: at exactly one full batch the pool uses one slot more than it has.
`ErrorsHaveCauses`: a file of a whole number of chunks is given one thread more than
it has chunks; that thread's empty write returns 0, which the caller takes for a failure.

**Bounds.** One file name, as each command names one file and transfers of two
files share no state of the model; two contents (client's and server's), so a copy
that moves the wrong way shows; two blocks, so a stream can be cut inside; two
rounds of the key exchange, so a half can be taken for that of another round (the code
has four identical ones); two commands, so that what the first
leaves behind can meet the second. `MaxCmds` bounds `UserCommand` and nothing else is bounded: all
queues are bounded by the protocol. `FaultsHard` is no fault at all, the `Survivable` ones, all but
`copen`, and all but `process`, so a property excused under one fault is still
checked without it. `pool` has chunks of 3 bytes and 3 threads, with sizes from 0
to 29: each of the boundaries at multiples of the chunk (3) and of the batch (9) is met
on both sides, for one, two, three and four batches.

`pipeline`: chunks of 4 bytes and 2 threads for compression, 8 and 2 for
encryption, blocks of 4; sizes 1 to 14 give one to four chunks, full last chunks,
full batches, and streams at and next to each of the three edges. A header is
`2 * SizeLen + 1` bytes and a block one byte less, as in the code (17 and 16), so a cut
can fall in a header and in a block on either side of it. Garbled sizes are zero,
one, one past a chunk, and more than `malloc` gives. `secure_channel`: a 7-bit modulus with words
and integers of 7 and 14 bits, so that an unreduced product does overflow; the four
words of the code; the cipher with blocks of one byte set in each place and of
all bytes set. `sessions`: one get and two puts, since two writers and a reader
are needed for a file to be half one's and half the other's; versions of
different lengths; a limit of three children and of two; eight ports, of
which the listener's is 3 and 1 is denied, so the bind loop goes down to 0.
`lzma_codec`: bytes of 2 bits in the data and of 3 in the stream, a range of 12 bits; all
chunks of up to three bytes of two values, and three chosen chunks that reach each kind of
packet, each of the four last distances, direct bits, the longest match and more
data than the dictionary. `lzma_parse`: all chunks of 1, 2, 3 and 7 bytes of two values,
those of four letters that begin with each once, and five chosen chunks (see `MCLzmaParse`) for
the reuse of cyclic positions, the end of the dictionary, the end of the table
and a run longer than two longest matches; `kNumOpts` is small enough for the table
to be filled, which the code's 2^11 nodes allow only with more fast bytes than
`comp.c` asks for.

**Deadlock** is not checked: both programs and the pool may stop for good (quit,
crash, return), and waiting for ever is what the liveness properties are about.

**Fairness.** Weak fairness of `ClientStep` and of `ServerStep`, each a single
process that runs whenever it is not blocked in a call; of the calling thread
and of each worker of a pool. In `Pipeline` also of the steps of the two
pipelines and of the connection, which delivers or ends. In `Sessions` of `Accept`
and of each child, and of nothing else: not of the clients' coming, nor of the
system's giving a port back. None is assumed of the user, of SIGPIPE or of kills.

## 4. Proofs

### Session

`TransferAssumption` asks that each file stream has at least one block and the
key exchange one round, that `MaxCmds` is a natural number, that faults are of the
listed kinds, and that `None` and `Spoiled` are no contents. Files, contents,
directories, the length of a stream and the number of rounds and commands are
otherwise arbitrary, and the theorems are about `Spec`, so they use no fairness.

None of `KeysAgree`, `RepliesMatch`, `GetWhole`, `PutWhole`, `TempsCleared` is
inductive: each says what one end may take for granted at one control point, and
that depends on what the other end did several steps before. The invariant
`SessionInv` (`TransferInv`) is a chain of layers, each proved from those below.

- `TypeInv`: types; which handler runs for which verb (`Dispatched`); PORT comes
  before its command (`PortInTurn`).
- `LinkInv`: who is where. `Numbered` numbers the commands in flight, `Paired`
  and `Sockets` say at which points of the client the child can be in `do_retr`
  or `do_stor` and which data sockets are then open, `Rounds` and `InTurn` how
  many halves of the key each end has and which are in flight, `Agreed` that
  they are of this exchange, `Ends` that a stream is empty once its reader
  has gone past it, `NotBefore` that no reply comes before its command.
  They are proved in one step: a half-key is never taken for a file block because
  the counts in `Rounds` say when one can be in flight, and those counts hold
  because `Paired` knows where the peer is.
- `FileInv`: what was received, what is in flight and what is unsent, put one
  after the other, are a prefix of one stream, of one content and under one key
  (`Sending` for a get, `Storing` for a put), and all of it unless the sender died.
- `OneReply`, without the fault `copen` (with it the statement is false, see
  section 3): at most one reply is owed, in flight or unlooked at.
- `TempsOf`: which temporary files the command at hand can have at each point.

`TransferSession` first has a lemma for each action that says what it reads and what it
changes (`...Effect`), so that the later proofs never expand the handlers
again. Each layer is one lemma per action or group of actions, combined in
`LinkInvStep`, `FileInvStep`, `OneReplyStep`, `TempsOfStep`. From them:

- `TypeCorrect`, `KeysAgreed`, `LockStep`, `RepliesMatched`, `TempsClear`,
  `GotWholeFile`, `PutWholeFile`: the invariants `transfer_faults` checks;
- `StoresWhole`: the action property `StoredWhole`. Only the two steps of a put's
  processing write the server's copy (`FilesKept`); `StorWholeOr` says that what a child in
  them has received is whole unless the client died, `StorOutcome` what they then do;
- `SessionService`: a session implements `FileService`. Every action but
  `ClientGetDecrypt`, `ClientGetUncomp`, `ServerStorDecrypt` and `ServerStorUncomp` leaves
  the two directories alone (`FilesKept`): a stutter, or `Break...` when it kills
  the program that writes. The first steps are `BeginGet` and `BeginPut`; that no
  other copy is then open follows from `Sockets` and `Ends`. The second are `EndGet` and `EndPut` by
  `GetOutcome` and `StorOutcome`, or `Break...` where the session is `unreliable`.

Proving types showed that the model chose the next control point of the key exchange
by a `CASE` whose guards overlapped, of which TLC takes the first and TLA+ any; it
is now a chain of `IF`, like the loop and the test after it in the code.

### Pools

Assumptions: the chunk size and the number of threads are positive
(`ChunksAssumption`), file sizes are natural numbers and faults are of the
listed kinds (`PoolAssumption`).

`ChunkPoolProofs` first bounds the divisions: the last batch starts inside the file, what is left
there fits one batch and fills it only if it is the file's only batch
(`LastBatchStart`), so a batch has at most `MaxThreads` threads except in that case
(`ThreadCount`); the last thread reads less than a chunk and ends at the end of
the file, the others read exactly one (`ReadLength`, `WholeChunkInside`).

It proves type correctness from these (`Typed`, `Overrun`), and
then the inductive invariant `PoolInv`. `InOrder` alone is not inductive: that the
chunk written next is the right one depends on what its slot holds, on its
worker having been joined, and on how many chunks were written in earlier batches.
So `PoolInv` adds `Holding` (which chunk each slot was given, and that a finished
worker's product is that chunk), `Working` (what each worker can be doing at each
control point of the caller) and `Counting` (the length of the output and the
length of its chunks). `InvStep` proves that each action preserves it. From it:

- `Ordered`, `Whole`: the invariants `InOrder` and `Complete`;
- `NoReuse`: the action property `SlotsNotReused`;
- `Refinement`: the pool implements `SequentialFile`. `WriteStep` is its core: a
  written chunk begins where the output ends and is whole or ends at the end of
  the file.

### Pipeline

Assumptions: chunk sizes, numbers of threads, the block and a size field are positive
(`CompAssumption`, `CryptAssumption`); what is read of a header that did not arrive is some
natural number (`GarbledAssumption`), as is a byte that padding is read from
(the largest byte, `ByteMaxAssumption`); a chunk for encryption is a number of whole blocks, a block is shorter
than a header (16 and 17 bytes in the code) and file sizes are natural numbers
(`PipelineAssumption`). The size of the file, where the stream is cut, how long each
compressed chunk is and which calls fail are arbitrary.

`StreamProofs` says what is at each place of a stream, where the model puts streams together
with folds. `SumsExist`, `JoinedExist` and `FlattenAt` give folds their meaning, by induction
over a set (`SetInduction`, since the library's induction theorems take a predicate, which no
installed prover instantiates). From them: the records of `comp_file` follow each other
without a gap (`StartsAreSums`, `CompFileIs`); the batches and threads of `enc_file` cut a
stream into full chunks and a rest (`CutIs`), so that their encryptions, put together, are one
encryption of the whole, with one padding at the end (`EncFileIs`); and `dec_file`, given the
first part of that, returns the stream's beginning, less than one block of other bytes
after it, or fails (`DecFileArrives`).

`RoundTrip` and `DamageContained` are about the end, when `uncomp_file` has returned; why they
hold is in how its walk over the headers got there. `PipelineInv` therefore says, while
`uncomp_file` runs, that there is a place `m` up to which its input is what `comp_file` wrote
(`Agrees`: less than a block follows), and about that `m`: the walk is at the beginning of
a record, and has counted the bytes left (`Walked`); the slots filled in this batch hold the
headers of consecutive chunks, true ones for the headers before `m` (`Given`); what
workers have made is the chunk, undamaged if its record is before `m` (`Made`); and so is
what has been written (`Written`). `Working` is what each worker can be doing at each control point.
A block being shorter than a header is what keeps a walk from finding a second
damaged record behind the first. There is a lemma for each action. From the
invariant (`PipelineInvariant`):

- `FileComesBack`: `RoundTrip`, the prepared file, arrived whole, is recovered in every
  chunk, or `uncomp_file` fails;
- `OnlyLastChunkDamaged`: `DamageContained`;
- `WholeStreamsDefined`: `UndefinedOnlyWhenCut`.

### Key exchange

`SecureChannelProofs` assumes that the base is below the modulus, that the modulus
fits a word and that the square of a word fits an integer (`DHAssumption`: 32 and
64 bits in the code; that draws are from 2 to the modulus is `ecftp.c`'s). `NoOverflow` is
not inductive: where `ReadHalf` starts the second `sq_mp` from a number off the
connection, it depends on what the other end put there. `Reduced` adds that
every base, product and half-key, the ones in flight included, is below the modulus
(`Below`), and `ProductsFit` follows. `ExchangeRefined` shows that `SecureChannel`
does to these variables nothing that the exchange does not, so `ChannelProductsFit`
and `ChannelKeysEqual` follow from the exchange's theorems instead of being proved again.

`KeysEqual` needs that `sq_mp` computes powers and that powers commute, both by
induction over the exponent. The library's induction theorems take a predicate as
parameter, which no installed prover instantiates; `SetInduction` is induction over
a set instead, and follows from the pigeonhole principle for finite sets. `Power`
is then the last entry of the only table of powers (`PowersExist`,
`PowersUnique`), and `PowerPlus`, `PowerTimes` and `PowersCommute` are inductions.
`TurnKeeps` is the loop invariant of `sq_mp`: a turn changes `y`, `a` and `b` and
not `y` times the `b`-th power of `a`. The invariant `ExchangeInv` adds to `Reduced`
what each end is computing (`Computing`), which halves are on their way, by
number (`InTransit`, for one end can be a word ahead of the other), and which words
are done (`Kept`).

### Sessions

`SessionsAssumption` asks for a chunk in every version and for ports in range; any
number of clients, limit of children and ports is covered. `UndisturbedGetWhole` is about
gets that are over, so the invariant adds what it rests on: while the name is
`intact`, it holds a whole version, or the beginning of one and a single child
that writes the rest (`OneVersion`); a child in the middle of an undisturbed get
has read the beginning of the version still there, and nobody writes
(`Promised`).

### LZMA codec

`CarryFits` says that the encoder's `low` keeps within the two words it has, and that a
carry never meets a kept byte that is already full: a carry is never lost. The
assumption on widths (`WidthAssumption`; the code: a byte of 256, probabilities of 2048, moved
by a 32nd) is that a byte has an even number of values, that probabilities divide the
top value, and that even the smallest probability, times a byte, is a whole unit of range.
Of the format (`FormatAssumption`) it uses that a distance fits 32 bits, which
`PosSlotBits <= 6` gives. The chunk, its packets and the choice among them are arbitrary.

That `low` keeps within two words is not inductive, as `RC_NORM` multiplies what is left
of it. The invariant `Coding` has the sum of `low` and `range` instead: at most two
words and, while the kept byte is full, at most one (`RcFits`), with `range` not below the top
value; every probability stays clear of 0 and of the total (`ProbsFit`), without
which a bit could leave an empty range. `ShiftedSum` is the core: whichever way `ShiftLow` goes,
the sum it leaves is within those bounds again. `LessMoved` and `MovedProbable` are the adaptation of a
probability; `BoundFits`, `BitFits` and `DirectFits` are a bit; `PacketIsSeq` says that the
bits of any true packet are a sequence (for a distance that needs the slot's highest bit,
`HighestBit`), and `EncodedFits` is an induction over them. After the flush the bounds are those of
`Flushed`. `CarryIsKept` is the theorem.

`StaysInOutput` is about the decoder, on any input: the encoder's own, cut, or changed in a
byte. It uses of the encoder only that what it writes are bytes. Of the format it uses that
lengths have at most 32 bits (the code: 8), and that the dictionary's unit has (20). What is
to be shown is that the four last distances never reach back further than what is written,
and three things make it hard. At the beginning nothing is written and the distances are 1:
a repeated match would copy from before the buffer. `LzmaDec_DecodeToDic` refuses a stream
whose first code is at or above `kBadRepCode`, and the test in the loop is commented out
(`LzmaDec.c:344`); `FirstIsNoRep` shows that this is enough, as the first two bits are
decoded with the initial probabilities from the initial range. A new distance is compared
with `processedPos` until the first dictionary is full and with its size from then on, so
the invariant ties both to the length of the output (`Sound`), and `RealLimit` must stop at
the end of the first dictionary. And a match cut off at the limit is copied on by a later
call (`WritesRem`), when `remainLen` may also stand for the end of the data or an error.

`DecFits` says where the decoder can be: at the top of the main loop (`AtTop`), before a
symbol (`AtSymbol`), or returned (`AtEnd`). `Kept` says what reading bits leaves alone;
`TreeReads`, `RevReads`, `DirectReads` and `MatchedReads` are inductions over the bits of a
field, from which `LiteralIsRead`, `LengthIsRead` and `DistanceIsRead` follow; `CopiesMatch`
is the induction over the bytes of a copy; `DecodesOne` puts a symbol together (`Decoded`).
`DicSizeIsNat` is that the properties give a size: the rounding of `DictSize` finds one. The
theorem is `OutputIsKept`.

### Only model-checked

*Liveness* (`ChildEnds`, `CommandReturns`, `QuitEnds`, `UnalignedSucceeds`,
`Terminates`, `FailsAtEdgesOnly`, `Served`): liveness under fairness is outside
what TLAPS proves.

*`BlocksBack`*: that the loop of `initialize_aes_sbox` comes to every byte
is a computation of 255 turns.

*The codec's `RoundTrip`, `CutRefused` and `DryRunAgrees`.* The first two need the
decoder's `code` to follow the encoder's output through carries that are still to come. The
last rests on the most input that a symbol can take, `LZMA_REQUIRED_INPUT_MAX`: a bound on the
product of its bits' probabilities, that is, on a sum of logarithms.

*The parser's `MatchesTrue`, `FindsLongest`, `LookaheadFits`, `OptTable` and `Implements`.*
The first two rest on the order that `bt4`'s tree keeps through every insertion, cut and reuse
of a position; the others rest on the matches being true.

## 5. Not modelled

*ec-ftp.* Parsing of what the user types, of PORT's six fields and formatting of
replies, except for what one read may contain. Temporary names: two processes can
take one name between `mkstemp` and the first `open`, and no module has names as
data. Memory and descriptor leaks. Partial effects of a failing `fwrite`. A
destination that decryption has succeeded for and that cannot then be opened for writing. Time. The
build.

*LZMA.* Nothing of `LzFindMt.c`, `LzFindOpt.c` and `Threads.c` runs, since
`comp.c` asks for one thread; `Alloc.c`, `CpuArch.c` and the headers are
support. In the files that are modelled: `Bt2`, `Bt3`, `Bt5`, `Hc4` and the `Zip`
finders, which no level selects; streams read in pieces (`LzmaDec_DecodeToBuf`,
`tempBuf`, `checkEndMarkNow`), as `LzmaUncompress` passes all its input at once; end
markers, which are not written; the limit `maxPackSize`, which is 0; blocks of 2^17
bytes, whose boundary changes no packet; normalisation of positions, which a
chunk is too short for. The cyclic buffer wraps only if `COMP_THREAD_MAX_MEM` is
raised to the value in the comment at `comp.h:8`; the model lets it wrap. Prices,
and so the quality of the compression. The size of the output buffer
(`comp.c:410`) against what `LzmaCompress` writes.

## 6. What could come next

1. Near the end of the input, where a dry run goes first, that the real one takes the same
   bytes: the half of `DryRunAgrees` that needs no logarithms.
2. The table of the parser (`OptTable`), given true matches.
