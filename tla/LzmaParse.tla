----------------------------- MODULE LzmaParse ------------------------------
(***************************************************************************)
(* How the LZMA encoder divides a chunk into packets (LzmaEnc.c): it asks  *)
(* the match finder what lies ahead, at high levels finds a cheap way      *)
(* through a table of nodes, one for each position ahead (GetOptimum), and *)
(* at low ones decides at once (GetOptimumFast).                           *)
(*                                                                         *)
(* The match finder is ahead of the packets by additionalOffset.  Prices   *)
(* are left out: where the code keeps the cheaper of two ways to a node,   *)
(* either may be the cheaper one; only whether a node has a price is kept. *)
(* What a node holds besides is forgotten when its price is taken away.    *)
(***************************************************************************)
EXTENDS LzFind

CONSTANTS
    DataSet,      \* the chunks to compress
    Levels,       \* compression levels (COMP_LEVEL is 9, of 1 .. 9)
    CutBases,     \* in the length of a search: 16, or less to have it cut
    NumOpts,      \* size of the table of nodes, kNumOpts (2^11)
    OptReserve,   \* nodes kept free at its end (64)
    NearBits      \* a distance is nearer than another by 2^NearBits (7)

ASSUME ParseAssumption ==
    /\ \A d \in DataSet : d \in Seq(0 .. LitSize - 1) /\ d # <<>>
    /\ Levels \subseteq 1 .. 9 /\ CutBases \subseteq Nat \ {0} /\ NearBits \in Nat \ {0}
    /\ NumOpts \in Nat /\ OptReserve \in 2 .. NumOpts - 2 /\ NumFastBytes < NumOpts

VARIABLES
    p,    \* the encoder
    todo  \* where its code is: "first", "next" packet, "opt" (in GetOptimum), "done"

vars == <<data, p, todo>>

LzmaEncProps_Normalize(level, base) ==
    [fastMode |-> level < 5, btMode |-> level >= 5,
     numHashBytes |-> IF level < 5 THEN 5 ELSE 4,
     cutValue |-> (base + NumFastBytes \div 2) \div (IF level < 5 THEN 2 ELSE 1)]

NoNode == [set |-> FALSE, len |-> 0, dist |-> 0, extra |-> 0, state |-> 0, reps |-> FirstReps]
NodeOf(len, dist, extra) == [NoNode EXCEPT !.set = TRUE, !.len = len, !.dist = dist, !.extra = extra]
LitNode == NodeOf(1, MARK_LIT, 0)
ShortRepNode == NodeOf(1, 0, 0)

Init ==
    /\ data \in DataSet
    /\ \E level \in Levels, base \in CutBases :
         p = [mf |-> MatchFinder_Init(LzmaEncProps_Normalize(level, base)),
              nowPos |-> 0, state |-> 0, reps |-> FirstReps,
              additionalOffset |-> 0, numAvail |-> 0, matches |-> <<>>, readLen |-> 0, readAt |-> 0,
              longestMatchLen |-> 0,
              opt |-> [i \in 0 .. NumOpts - 1 |-> NoNode],
              cur |-> 0, last |-> 0, optCur |-> 0, optEnd |-> 0]
    /\ todo = "first"

(***************************************************************************)
(* Reading ahead.                                                          *)
(***************************************************************************)
\* Where the byte is that the match finder has just passed (from 1).
At(e) == e.mf.pos - 1

\* The value returned for the pairs read: the length of the longest match, beyond
\* numFastBytes as far as it goes.
LongestLen(e, pairs) ==
    LET longest == pairs[Len(pairs)]
        at == e.mf.pos
    IN  IF pairs = <<>> THEN 0
        ELSE IF longest.len # NumFastBytes THEN longest.len
        ELSE MatchLen(at, at - longest.dist - 1, longest.len,
                      Lesser(Avail(e.mf), LZMA_MATCH_LEN_MAX))

\* readAt, the position (from 0) the pairs were read at, is kept for the
\* properties.
Read(e, got) ==
    [e EXCEPT !.mf = got.mf, !.additionalOffset = @ + 1, !.numAvail = Avail(e.mf),
              !.matches = got.found, !.readLen = LongestLen(e, got.found),
              !.readAt = e.mf.pos - 1]
ReadMatchDistances(e) == Read(e, GetMatches(e.mf))

MovePos(e, num) ==
    [e EXCEPT !.additionalOffset = @ + num, !.mf = Skip(@, num)]

\* How far a repeat goes, if at least over two bytes.
RepLen(at, rep, limit) ==
    IF data[at] # data[at - rep] \/ data[at + 1] # data[at + 1 - rep] THEN 0
    ELSE MatchLen(at, at - rep, 2, limit)

\* The distance for a match of length len: the first pair that is long enough.
DistFor(matches, len) ==
    matches[CHOOSE i \in DOMAIN matches :
              /\ matches[i].len >= len
              /\ \A j \in 1 .. i - 1 : matches[j].len < len].dist

(***************************************************************************)
(* Sending a packet, as LzmaEnc_CodeOneBlock does; the end is looked for   *)
(* only when the match finder is not ahead.                                *)
(***************************************************************************)
Coded(e, dist, len) ==
    LET packet == Packet(dist, len)
    IN  [e EXCEPT !.state = NextState(@, packet), !.reps = NextReps(@, packet),
                  !.nowPos = @ + len, !.additionalOffset = @ - len]

Send(e, dist, len) ==
    LET coded == Coded(e, dist, len)
    IN  /\ p' = coded
        /\ todo' = IF coded.additionalOffset = 0 /\ Avail(coded.mf) = 0 THEN "done" ELSE "next"
        /\ UNCHANGED data

CodeFirstByte ==
    /\ todo = "first"
    /\ p' = [ReadMatchDistances(p) EXCEPT !.additionalOffset = @ - 1, !.nowPos = 1]
    /\ todo' = IF Avail(p'.mf) = 0 THEN "done" ELSE "next"
    /\ UNCHANGED data

(***************************************************************************)
(* GetOptimum: its beginning, and the ways out before the table is used.   *)
(***************************************************************************)
\* The encoder with the matches at the next packet read, now or earlier.
Ready(e) ==
    IF e.additionalOffset # 0 THEN [e EXCEPT !.readLen = e.longestMatchLen]
    ELSE ReadMatchDistances(e)

RepLens(e) ==
    [i \in 1 .. kNumReps |-> RepLen(At(e), e.reps[i], Lesser(e.numAvail, LZMA_MATCH_LEN_MAX))]

FirstLongest(lens) ==
    CHOOSE i \in DOMAIN lens : \A j \in DOMAIN lens :
        lens[j] < lens[i] \/ (lens[j] = lens[i] /\ i <= j)

SameAsRep0(e) == data[At(e)] = data[At(e) - e.reps[1]]

LongestDist(e) == e.matches[Len(e.matches)].dist

\* No table is needed: MARK_LIT or a short repeat, or what is long enough.
SendAtOnce(e) ==
    LET lens == RepLens(e)
        best == FirstLongest(lens)
        mainLen == e.readLen
    IN  IF e.numAvail < 2 THEN Send(e, MARK_LIT, 1)
        ELSE IF lens[best] >= NumFastBytes
        THEN Send(MovePos(e, lens[best] - 1), best - 1, lens[best])
        ELSE IF mainLen >= NumFastBytes
        THEN Send(MovePos(e, mainLen - 1), LongestDist(e) + kNumReps, mainLen)
        ELSE /\ lens[best] < 2 /\ mainLen < 2
             /\ \E node \in {LitNode} \cup (IF SameAsRep0(e) THEN {ShortRepNode} ELSE {}) :
                  Send([e EXCEPT !.opt[1] = IF SameAsRep0(e) THEN node ELSE @], node.dist, 1)

TableNeeded(e) ==
    /\ e.numAvail >= 2
    /\ \A i \in 1 .. kNumReps : RepLens(e)[i] < NumFastBytes
    /\ e.readLen < NumFastBytes
    /\ e.readLen >= 2 \/ \E i \in 1 .. kNumReps : RepLens(e)[i] >= 2

\* Ways to a node are offered to it, and each is taken if it is the cheaper.
Offer(at, len, dist, extra) == [at |-> at, node |-> NodeOf(len, dist, extra)]

Priced(opt, offers) ==
    LET Ways(k) == {o.node : o \in {o \in offers : o.at = k}}
        Kept(k) == IF opt[k].set \/ Ways(k) = {} THEN Ways(k) \cup {opt[k]} ELSE Ways(k)
        priced[k \in -1 .. NumOpts - 1] ==
            IF k = -1 THEN {opt}
            ELSE LET before == priced[k - 1]
                 IN  {[o EXCEPT ![k] = node] : o \in before, node \in Kept(k)}
    IN  priced[NumOpts - 1]

RepOffers(cur, reps, at, limit) ==
    UNION {{Offer(cur + len, len, i - 1, 0) : len \in 2 .. RepLen(at, reps[i], limit)} :
           i \in 1 .. kNumReps}

MatchOffers(cur, matches, from, to) ==
    {Offer(cur + len, len, DistFor(matches, len) + kNumReps, 0) : len \in from .. to}

FirstNodes(e) ==
    LET lens == RepLens(e)
        one == {LitNode} \cup (IF SameAsRep0(e) /\ lens[1] = 0 THEN {ShortRepNode} ELSE {})
        offers == RepOffers(0, e.reps, At(e), Lesser(e.numAvail, LZMA_MATCH_LEN_MAX))
                  \cup MatchOffers(0, e.matches, IF lens[1] < 2 THEN 2 ELSE lens[1] + 1, e.readLen)
    IN  /\ \E first \in one :
             \E opt \in Priced([e.opt EXCEPT ![0].state = e.state, ![0].reps = e.reps, ![1] = first],
                               offers) :
               p' = [e EXCEPT !.opt = opt, !.cur = 0,
                              !.last = Max({e.readLen} \cup {lens[i] : i \in 1 .. kNumReps})]
        /\ todo' = "opt"
        /\ UNCHANGED data

Begin(e) == IF TableNeeded(e) THEN FirstNodes(e) ELSE SendAtOnce(e)

GetOptimum ==
    /\ todo = "next" /\ ~p.mf.mode.fastMode /\ p.optCur = p.optEnd
    /\ Begin(Ready(p))

(***************************************************************************)
(* GetOptimum: the table, node by node.                                    *)
(***************************************************************************)
\* Mutant: of the repeats 2 and 3 the one that is sent stays where it was.
OtherRepSame(dist) == dist
\* dist ^ 1, of the repeats 2 and 3: the other one.
OtherRep(dist) == IF dist = 2 THEN 3 ELSE 2

\* The last distances at a node: those of the node its packet starts from,
\* and the packet.  extra counts the bytes before the packet's own: a literal,
\* or a packet and a literal, and then the packet itself is a repeat.
NodeReps(opt, cur) ==
    LET node == opt[cur]
        dist == node.dist
        before == opt[cur - node.len - node.extra].reps
    IN  IF node.len = 1 THEN opt[cur - 1].reps
        ELSE IF dist >= kNumReps
        THEN <<dist - kNumReps + 1, before[1], before[2], before[3]>>
        ELSE CASE dist = 0 -> before
               [] dist = 1 -> <<before[2], before[1], before[3], before[4]>>
               [] dist \in {2, 3} -> <<before[dist + 1], before[1], before[2], before[OtherRep(dist) + 1]>>

kState_MatchAfterLit == 7
kState_RepAfterLit == 8

NodeState(opt, cur) ==
    LET node == opt[cur]
        before == opt[cur - node.len].state
    IN  IF node.len = 1
        THEN (IF node.dist = 0 THEN kShortRepNextStates ELSE kLiteralNextStates)[before + 1]
        ELSE IF node.extra = 1 /\ node.dist >= kNumReps THEN kState_MatchAfterLit
        ELSE IF node.extra # 0 THEN kState_RepAfterLit
        ELSE (IF node.dist < kNumReps THEN kRepNextStates ELSE kMatchNextStates)[before + 1]

\* A literal, or a short repeat in its place.  tried: the literal was priced and
\* was not the cheaper one.
NextNodes(opt, cur, same) ==
    LET next == opt[cur + 1]
        literal == IF next.set /\ same THEN {[node |-> next, tried |-> FALSE]}
                   ELSE {[node |-> LitNode, tried |-> FALSE]}
                        \cup [node : IF next.set THEN {next} ELSE {}, tried : BOOLEAN]
        repeat == {w \in literal : /\ opt[cur].state < kNumLitStates /\ same
                                   /\ w.node.len < 2 \/ w.node.dist # 0}
    IN  literal \cup (IF repeat = {} THEN {} ELSE {[node |-> ShortRepNode, tried |-> FALSE]})

\* After a packet of len bytes that repeats what lies back before: a literal,
\* and again a repeat.
LitRep0Offers(cur, at, back, len, dist, full) ==
    LET limit == Lesser(len + 1 + NumFastBytes, full)
        len2 == MatchLen(at, at - back, len + 3, limit)
    IN  IF /\ len + 3 <= limit
           /\ \A i \in {len + 1, len + 2} : data[at + i] = data[at + i - back]
        THEN {Offer(cur + len2, len2 - len - 1, dist, len + 1)}
        ELSE {}

\* Whatever else can be sent from a node: a literal and a repeat if the literal
\* alone was not taken, repeats, and matches longer than that of the last
\* distance.
Offers(e, cur, tried, full) ==
    LET at == At(e)
        reps == e.opt[cur].reps
        numAvail == Lesser(full, NumFastBytes)
        lens == [i \in 1 .. kNumReps |-> RepLen(at, reps[i], numAvail)]
        newLen == Lesser(e.readLen, numAvail)
        startLen == IF lens[1] = 0 THEN 2 ELSE lens[1] + 1
        ends == {Lesser(e.matches[i].len, newLen) : i \in DOMAIN e.matches}
    IN  (IF tried /\ data[at] # data[at - reps[1]] THEN LitRep0Offers(cur, at, reps[1], 0, 0, full)
         ELSE {})
        \cup RepOffers(cur, reps, at, numAvail)
        \cup UNION {LitRep0Offers(cur, at, reps[i], lens[i], i - 1, full) :
                    i \in {i \in 1 .. kNumReps : lens[i] # 0}}
        \cup MatchOffers(cur, e.matches, startLen, newLen)
        \cup UNION {LitRep0Offers(cur, at, DistFor(e.matches, len) + 1, len,
                                  DistFor(e.matches, len) + kNumReps, full) :
                    len \in {len \in ends : startLen <= len}}

\* Mutant: one node too many is thought free.
NodesLeftMore(cur) == NumOpts - cur
NodesLeft(cur) == NumOpts - 1 - cur

NextNode(e, cur) ==
    LET full == Lesser(e.numAvail, NodesLeft(cur))
        same == data[At(e)] = data[At(e) - e.opt[cur].reps[1]]
    IN  \E way \in NextNodes(e.opt, cur, same) :
          LET offers == IF full < 2 THEN {} ELSE Offers(e, cur, way.tried, full)
          IN  /\ \E opt \in Priced([e.opt EXCEPT ![cur + 1] = way.node], offers) :
                   p' = [e EXCEPT !.opt = opt, !.cur = cur,
                                  !.last = Max({@} \cup {o.at : o \in offers})]
              /\ UNCHANGED <<data, todo>>

(***************************************************************************)
(* Backward: the packets on the way to a node are written, last one first, *)
(* over the nodes below it, from where CodeOneBlock takes them.            *)
(***************************************************************************)
\* One node of the way: its packet, and what is extra before it.  The packet
\* nearest to the beginning goes to out, the others into the table below wr.
BackStep(b) ==
    LET node == b.opt[b.cur]
        start == b.cur - node.len - node.extra
        here == IF node.extra = 0 THEN <<>>
                ELSE IF node.extra = 1 THEN <<Packet(node.dist, node.len)>>
                ELSE <<Packet(MARK_LIT, 1), Packet(0, node.len)>>
        first == IF node.extra = 0 THEN Packet(node.dist, node.len)
                 ELSE IF node.extra = 1 THEN Packet(MARK_LIT, 1)
                 ELSE Packet(node.dist, node.extra - 1)
        packets == IF start = 0 THEN here ELSE <<first>> \o here
        wr == b.wr - Len(packets)
    IN  [cur |-> start, wr |-> wr, out |-> first,
         opt |-> [i \in DOMAIN b.opt |->
                    IF i \in wr .. b.wr - 1
                    THEN [b.opt[i] EXCEPT !.dist = packets[i - wr + 1].dist,
                                          !.len = packets[i - wr + 1].len]
                    ELSE b.opt[i]]]

Backward(opt, cur) ==
    LET back[i \in 0 .. cur] ==
            IF i = 0 THEN [cur |-> cur, wr |-> cur + 1, opt |-> opt, out |-> Packet(MARK_LIT, 0)]
            ELSE LET before == back[i - 1]
                 IN  IF before.cur = 0 THEN before ELSE BackStep(before)
    IN  back[cur]

\* The prices are taken away again, for the next call.
PricesReset(opt, last) == [i \in DOMAIN opt |-> IF i \in 1 .. last THEN NoNode ELSE opt[i]]

\* Mutant: the length at the node where the table ends is not kept.
LookaheadLost(e) == e
LookaheadKept(e) == [e EXCEPT !.longestMatchLen = e.readLen]

\* The table ends at node cur: the first packet is sent, the others are queued.
EndTable(e, cur) ==
    LET back == Backward(e.opt, cur)
        reset == PricesReset(e.opt, e.last)
        queued == [i \in DOMAIN reset |->
                     IF i \in back.wr .. cur
                     THEN [reset[i] EXCEPT !.dist = back.opt[i].dist, !.len = back.opt[i].len]
                     ELSE IF i = 0 THEN NoNode ELSE reset[i]]
    IN  Send([e EXCEPT !.opt = queued, !.optCur = back.wr, !.optEnd = cur + 1,
                       !.cur = 0, !.last = 0],
             back.out.dist, back.out.len)

\* Node cur, with the matches at it read.
VisitNode(e, cur) ==
    IF e.readLen >= NumFastBytes THEN EndTable(LookaheadKept(e), cur)
    ELSE NextNode([e EXCEPT !.opt[cur].state = NodeState(p.opt, cur),
                            !.opt[cur].reps = NodeReps(p.opt, cur)], cur)

\* One turn of the loop over the table.
OptNode ==
    /\ todo = "opt"
    /\ LET cur == p.cur + 1
       IN  IF cur = p.last THEN EndTable(p, cur)
           ELSE IF cur >= NumOpts - OptReserve
           THEN \E best \in {j \in cur .. p.last : p.opt[j].set} :
                  EndTable(MovePos(p, best - cur), best)
           ELSE VisitNode(ReadMatchDistances(p), cur)

\* A packet that is queued in the table.
SendQueued ==
    /\ todo = "next" /\ ~p.mf.mode.fastMode /\ p.optCur # p.optEnd
    /\ Send([p EXCEPT !.opt[p.optCur] = [NoNode EXCEPT !.set = p.opt[p.optCur].set], !.optCur = @ + 1],
            p.opt[p.optCur].dist, p.opt[p.optCur].len)

(***************************************************************************)
(* GetOptimumFast.                                                         *)
(***************************************************************************)
ChangePair(smallDist, bigDist) == bigDist \div 2 ^ NearBits > smallDist

\* The match is shortened as long as the pair before it is one byte shorter and
\* much nearer; one of two bytes must be near.
Shortened(matches) ==
    LET n == Len(matches)
        Shorter(i) == /\ matches[i + 1].len = matches[i].len + 1
                      /\ ChangePair(matches[i].dist, matches[i + 1].dist)
        kept == CHOOSE k \in 1 .. n : /\ \A i \in k .. n - 1 : Shorter(i)
                                      /\ k = 1 \/ ~Shorter(k - 1)
        far == matches[kept].len = 2 /\ matches[kept].dist >= 2 ^ NearBits
    IN  IF n = 0 THEN Packet(0, 0)
        ELSE Packet(matches[kept].dist, IF far THEN 1 ELSE matches[kept].len)

\* The next position promises a better match than this one.
BetterAhead(main, e) ==
    LET newDist == LongestDist(e)
    IN  /\ e.readLen >= 2
        /\ \/ e.readLen >= main.len /\ newDist < main.dist
           \/ e.readLen = main.len + 1 /\ ~ChangePair(main.dist, newDist)
           \/ e.readLen > main.len + 1
           \/ e.readLen + 1 >= main.len /\ main.len >= 3 /\ ChangePair(newDist, main.dist)

\* A repeat at the next position is nearly as long.
RepAhead(e, len) ==
    \E i \in 1 .. kNumReps :
        LET enough == Max({2, len - 1}) IN RepLen(At(e), e.reps[i], enough) = enough

\* The match main is sent unless the next position promises a better one.
LookAhead(ahead, main) ==
    IF BetterAhead(main, ahead) \/ RepAhead(ahead, main.len)
    THEN Send(ahead, MARK_LIT, 1)
    ELSE Send(MovePos(ahead, main.len - 2), main.dist + kNumReps, main.len)

\* Neither a repeat nor a match of numFastBytes, nor a good repeat.
TakeMain(e, main) ==
    IF main.len < 2 \/ Lesser(e.numAvail, LZMA_MATCH_LEN_MAX) <= 2
    THEN Send(e, MARK_LIT, 1)
    ELSE LookAhead(LookaheadKept(ReadMatchDistances(e)), main)

RepGood(repLen, main) ==
    /\ repLen >= 2
    /\ \/ repLen + 1 >= main.len
       \/ repLen + 2 >= main.len /\ main.dist >= 2 ^ (NearBits + 2)
       \/ repLen + 3 >= main.len /\ main.dist >= 2 ^ (NearBits + 8)

SendFast(e, lens, main) ==
    LET rep == FirstLongest(lens)
        firstFull == CHOOSE i \in 1 .. kNumReps :
                       lens[i] >= NumFastBytes /\ \A j \in 1 .. i - 1 : lens[j] < NumFastBytes
    IN  IF e.numAvail < 2 THEN Send(e, MARK_LIT, 1)
        ELSE IF lens[rep] >= NumFastBytes
        THEN Send(MovePos(e, lens[firstFull] - 1), firstFull - 1, lens[firstFull])
        ELSE IF e.readLen >= NumFastBytes
        THEN Send(MovePos(e, e.readLen - 1), LongestDist(e) + kNumReps, e.readLen)
        ELSE IF RepGood(lens[rep], main) THEN Send(MovePos(e, lens[rep] - 1), rep - 1, lens[rep])
        ELSE TakeMain(e, main)

FastFrom(e) == SendFast(e, RepLens(e), Shortened(e.matches))

GetOptimumFast ==
    /\ todo = "next" /\ p.mf.mode.fastMode
    /\ FastFrom(Ready(p))

Next == CodeFirstByte \/ GetOptimum \/ OptNode \/ SendQueued \/ GetOptimumFast

Spec == Init /\ [][Next]_vars

(***************************************************************************)
(* Properties.                                                             *)
(***************************************************************************)
\* Every packet is true at its place and in the last distances the packets
\* before it have left, whichever ways were cheaper: the parser keeps what
\* LzmaEnc takes for granted.
Packets == INSTANCE PacketSequence WITH pos <- p.nowPos, state <- p.state, reps <- p.reps
Implements == Packets!Spec

\* How long what follows position pos (from 0) repeats what lies back before it.
LengthOf(pos, back, limit) == MatchLen(pos + 1, pos + 1 - back, 0, limit)

\* GetMatches returns matches only, in the order of their lengths, none of them
\* out of the dictionary, and has read no record that was never written.
MatchesTrue ==
    /\ ~p.mf.stray
    /\ \A i \in DOMAIN p.matches :
         /\ p.matches[i].dist \in 0 .. Lesser(DictSize, p.readAt) - 1
         /\ Repeats(data, p.readAt, p.matches[i].dist + 1, p.matches[i].len)
         /\ i > 1 => p.matches[i - 1].len < p.matches[i].len

\* When its search is not cut off, the match finder misses no longest match of
\* as many bytes as it hashes: the tree stays sorted, and the chain complete,
\* through replaced positions, skipped ones and the wrap of the cyclic buffer.
FindsLongest ==
    LET limit == Lesser(Len(data) - p.readAt, NumFastBytes)
        backs == 1 .. Lesser(p.readAt, DictSize)
        longest == Max({0} \cup {LengthOf(p.readAt, back, limit) : back \in backs})
    IN  p.mf.mode.cutValue >= Len(data) /\ longest >= p.mf.mode.numHashBytes =>
            p.matches # <<>> /\ p.matches[Len(p.matches)].len = longest

\* The match finder is exactly additionalOffset bytes ahead of the packets, and
\* when a decision starts from matches read earlier, they are those of its own
\* position and their length is known.
LookaheadFits ==
    /\ p.mf.pos = p.nowPos + p.additionalOffset + 1
    /\ todo = "next" /\ p.optCur = p.optEnd /\ p.additionalOffset # 0 =>
         /\ p.additionalOffset = 1 /\ p.readAt = p.nowPos
         /\ IF p.matches = <<>> THEN p.longestMatchLen = 0
            ELSE LET last == p.matches[Len(p.matches)]
                 IN  /\ p.longestMatchLen >= last.len
                     /\ Repeats(data, p.nowPos, last.dist + 1, p.longestMatchLen)

\* The table is used within its bounds, every node that can come next has a
\* price and a packet that starts from a node already left behind, and no price
\* survives beyond the last node or a call (but that of node 1, set anew).
OptTable ==
    IF todo = "opt"
    THEN /\ p.last \in p.cur + 1 .. NumOpts - 1
         /\ p.opt[p.cur + 1].set /\ p.opt[p.last].set
         /\ \A k \in p.cur + 1 .. p.last :
              p.opt[k].set => p.opt[k].len >= 1 /\ k - p.opt[k].len - p.opt[k].extra \in 0 .. p.cur
         /\ \A k \in p.last + 1 .. NumOpts - 1 : ~p.opt[k].set
    ELSE \A k \in 2 .. NumOpts - 1 : ~p.opt[k].set
=============================================================================
