------------------------------- MODULE LzFind -------------------------------
(***************************************************************************)
(* The match finder of one chunk (src/src/lzma/LzFind.c, run in the thread *)
(* of the encoder): it walks over the data, keeps for every two, three and *)
(* four (or five) bytes where they were last seen, and searches the places *)
(* before with the same hash, in a binary tree (bt4) or along a chain      *)
(* (hc5).  The whole chunk is in memory (directInput), so no block is read *)
(* or moved, and it is too short for positions to wrap round 2^32, so they *)
(* are not normalised.                                                     *)
(*                                                                         *)
(* A match finder is a record m; its buffer is data from m.pos on.  Sons   *)
(* are Junk, memory nobody has written, until they are set.                *)
(***************************************************************************)
EXTENDS LzmaPackets, FiniteSetsExt

CONSTANT NumFastBytes  \* matches this long are taken at once (32), matchMaxLen

ASSUME FastBytesAssumption == NumFastBytes \in 5 .. LZMA_MATCH_LEN_MAX

VARIABLE data  \* the chunk, a sequence of 0 .. LitSize - 1

historySize == DictSize
cyclicBufferSize == historySize + 1
keepSizeAfter == NumFastBytes + LZMA_MATCH_LEN_MAX + 1
kEmptyHashValue == 0
Junk == -1

Lesser(a, b) == IF a < b THEN a ELSE b

\* Bytes that are left from the current position on.
Avail(m) == Len(data) + 1 - m.pos

Cur(m, i) == data[m.pos + i]

\* How far, up to limit, the bytes at i and at j agree, if the first n do.
MatchLen(i, j, n, limit) ==
    Max({len \in n .. limit : \A k \in n .. len - 1 : data[i + k] = data[j + k]})

(***************************************************************************)
(* Moving on.                                                              *)
(***************************************************************************)
MatchFinder_SetLimits(m) ==
    LET avail == Avail(m)
        steps == IF avail > keepSizeAfter THEN avail - keepSizeAfter
                 ELSE IF avail >= NumFastBytes THEN avail - NumFastBytes + 1
                 ELSE Lesser(avail, 1)
    IN  [m EXCEPT !.lenLimit = Lesser(avail, NumFastBytes),
                  !.posLimit = m.pos + Lesser(steps, cyclicBufferSize - m.cyclicBufferPos)]

MatchFinder_CheckLimits(m) ==
    MatchFinder_SetLimits([m EXCEPT !.cyclicBufferPos = IF @ = cyclicBufferSize THEN 0 ELSE @])

MOVE_POS(m) ==
    LET moved == [m EXCEPT !.pos = @ + 1, !.cyclicBufferPos = @ + 1]
    IN  IF moved.pos = m.posLimit THEN MatchFinder_CheckLimits(moved) ELSE moved

MatchFinder_Init(mode) ==
    MatchFinder_SetLimits(
        [pos |-> 1, cyclicBufferPos |-> 1, posLimit |-> 0, lenLimit |-> 0, hash |-> {},
         son |-> [i \in 0 .. (IF mode.btMode THEN 2 ELSE 1) * cyclicBufferSize - 1 |-> Junk],
         mode |-> mode, stray |-> FALSE])

(***************************************************************************)
(* Hashes.  That of two bytes and that of three tell the last byte when    *)
(* the ones before it are known, as the table of CRCs sees to; the last    *)
(* hash promises nothing.                                                  *)
(***************************************************************************)
Mixed(a, b) == (a + b) % LitSize
HASH2(m) == <<2, Mixed(Cur(m, 0), Cur(m, 1)), 0>>
HASH3(m) == <<3, Mixed(Cur(m, 0), Cur(m, 1)), Cur(m, 2)>>
HASHV(m) ==
    <<m.mode.numHashBytes, Mixed(Cur(m, 0), Cur(m, 1)),
      IF m.mode.numHashBytes = 4 THEN Mixed(Cur(m, 2), Cur(m, 3))
      ELSE Mixed(Cur(m, 2) + Cur(m, 3), Cur(m, 4))>>

\* Where a hash was last seen.
Seen(m, h) ==
    IF \E e \in m.hash : e.h = h THEN (CHOOSE e \in m.hash : e.h = h).pos ELSE kEmptyHashValue

HashHere(m) ==
    LET here == {HASH2(m), HASH3(m), HASHV(m)}
    IN  [m EXCEPT !.hash = {e \in @ : e.h \notin here} \cup [h : here, pos : {m.pos}]]

Pair(len, delta) == [len |-> len, dist |-> delta - 1]

\* Where the record of the position delta bytes before lies.
CyclicIndex(m, delta) ==
    m.cyclicBufferPos - delta + (IF delta > m.cyclicBufferPos THEN cyclicBufferSize ELSE 0)

(***************************************************************************)
(* hc5: the positions with the same hash, newest first.                    *)
(***************************************************************************)
HcStep(m, w) ==
    LET delta == m.pos - w.curMatch
        len == MatchLen(m.pos, m.pos - delta, 0, m.lenLimit)
        longer == Cur(m, w.maxLen) = Cur(m, w.maxLen - delta) /\ w.maxLen < len
    IN  IF w.done \/ w.curMatch = kEmptyHashValue \/ delta >= cyclicBufferSize
        THEN [w EXCEPT !.done = TRUE]
        ELSE [curMatch |-> w.son[CyclicIndex(m, delta)],
              maxLen |-> IF longer THEN len ELSE w.maxLen,
              found |-> IF longer THEN Append(w.found, Pair(len, delta)) ELSE w.found,
              son |-> w.son,
              done |-> longer /\ len = m.lenLimit,
              stray |-> w.stray \/ w.son[CyclicIndex(m, delta)] = Junk]

Hc_GetMatchesSpec(m, curMatch, found, maxLen) ==
    LET walk[i \in 0 .. m.mode.cutValue] ==
            IF i = 0
            THEN [curMatch |-> curMatch, maxLen |-> maxLen, found |-> found, done |-> FALSE,
                  son |-> [m.son EXCEPT ![m.cyclicBufferPos] = curMatch], stray |-> m.stray]
            ELSE LET before == walk[i - 1] IN HcStep(m, before)
    IN  walk[m.mode.cutValue]

(***************************************************************************)
(* bt4: the tree of the positions with the same hash, sorted by what       *)
(* follows them; the current position becomes its root, and the sons       *)
(* passed on the way down are hung below it, left or right.                *)
(***************************************************************************)
\* Mutant: a position that is replaced hands its sons on the wrong way round.
TakeSonsCrossed(w, pair) ==
    [w.son EXCEPT ![w.ptr1] = w.son[pair + 1], ![w.ptr0] = w.son[pair]]

TakeSons(w, pair) ==
    [w.son EXCEPT ![w.ptr1] = w.son[pair], ![w.ptr0] = w.son[pair + 1]]

BtStep(m, w) ==
    LET cmCheck == IF m.pos <= cyclicBufferSize THEN 0 ELSE m.pos - cyclicBufferSize
        delta == m.pos - w.curMatch
        pair == 2 * CyclicIndex(m, delta)
        len == MatchLen(m.pos, m.pos - delta, Lesser(w.len0, w.len1), m.lenLimit)
        read == [w EXCEPT !.maxLen = IF len > @ THEN len ELSE @,
                          !.found = IF len > w.maxLen THEN Append(@, Pair(len, delta)) ELSE @,
                          !.stray = @ \/ Junk \in {w.son[pair], w.son[pair + 1]}]
    IN  IF w.done \/ w.curMatch <= cmCheck THEN w
        ELSE IF len = m.lenLimit
        THEN [read EXCEPT !.son = TakeSons(w, pair), !.done = TRUE]
        ELSE IF Cur(m, len - delta) < Cur(m, len)
        THEN [read EXCEPT !.son[w.ptr1] = w.curMatch, !.curMatch = w.son[pair + 1],
                          !.ptr1 = pair + 1, !.len1 = len]
        ELSE [read EXCEPT !.son[w.ptr0] = w.curMatch, !.curMatch = w.son[pair],
                          !.ptr0 = pair, !.len0 = len]

\* The sons that are left over at the end of the way down are cut off.
BtEnd(w) ==
    IF w.done THEN w
    ELSE [w EXCEPT !.son = [@ EXCEPT ![w.ptr0] = kEmptyHashValue, ![w.ptr1] = kEmptyHashValue]]

GetMatchesSpec1(m, curMatch, found, maxLen) ==
    LET walk[i \in 0 .. m.mode.cutValue] ==
            IF i = 0
            THEN [curMatch |-> curMatch, maxLen |-> maxLen, found |-> found, done |-> FALSE,
                  ptr0 |-> 2 * m.cyclicBufferPos + 1, ptr1 |-> 2 * m.cyclicBufferPos,
                  len0 |-> 0, len1 |-> 0, son |-> m.son, stray |-> m.stray]
            ELSE LET before == walk[i - 1] IN BtStep(m, before)
    IN  BtEnd(walk[m.mode.cutValue])

(***************************************************************************)
(* The two entries of the table of functions: GetMatches and Skip.         *)
(***************************************************************************)
\* Mutant: the oldest position is taken although its record is reused now.
SET_mmmLate(pos) == IF pos < cyclicBufferSize + 1 THEN pos ELSE cyclicBufferSize + 1

SET_mmm(pos) == IF pos < cyclicBufferSize THEN pos ELSE cyclicBufferSize

\* What the hashes of two and of three bytes find, and how long it is.  With
\* five hash bytes a match of four is told from one of three but not recorded.
ShortMatches(m) ==
    LET n == m.mode.numHashBytes
        d2 == m.pos - Seen(m, HASH2(m))
        d3 == m.pos - Seen(m, HASH3(m))
        Near(d) == d < SET_mmm(m.pos) /\ Cur(m, -d) = Cur(m, 0)
        two == IF Near(d2) THEN <<Pair(2, d2)>> ELSE <<>>
        longTwo == Near(d2) /\ Cur(m, 2 - d2) = Cur(m, 2)
        d == IF longTwo THEN d2 ELSE d3
        shorter == IF longTwo THEN <<>> ELSE two
        len == MatchLen(m.pos, m.pos - d, n - 1, m.lenLimit)
    IN  IF ~longTwo /\ ~Near(d3) THEN [found |-> two, maxLen |-> n - 1]
        ELSE IF n = 5 /\ Cur(m, 3 - d) # Cur(m, 3)
        THEN [found |-> Append(shorter, Pair(3, d)), maxLen |-> n - 1]
        ELSE [found |-> Append(shorter, Pair(len, d)), maxLen |-> len]

Search(m, found, maxLen) ==
    LET curMatch == Seen(m, HASHV(m))
    IN  IF m.mode.btMode THEN GetMatchesSpec1(m, curMatch, found, maxLen)
        ELSE Hc_GetMatchesSpec(m, curMatch, found, maxLen)

Entered(m, w) == MOVE_POS([HashHere(m) EXCEPT !.son = w.son, !.stray = w.stray])

\* The position is entered without a search (in a tree, along its way down).
SkipOne(m) ==
    IF m.lenLimit < m.mode.numHashBytes THEN MOVE_POS(m)
    ELSE IF m.mode.btMode THEN Entered(m, Search(m, <<>>, m.lenLimit))
    ELSE Entered(m, [son |-> [m.son EXCEPT ![m.cyclicBufferPos] = Seen(m, HASHV(m))],
                     stray |-> m.stray])

\* After the short matches the long ones; one as long as the limit ends the
\* search: the position is only entered, as Skip does.
Found(m, w) == [mf |-> Entered(m, w), found |-> w.found]
LongMatches(m, short) ==
    IF short.maxLen = m.lenLimit THEN [mf |-> SkipOne(m), found |-> short.found]
    ELSE Found(m, Search(m, short.found, short.maxLen))

\* Bt4_MatchFinder_GetMatches and Hc5_MatchFinder_GetMatches: pairs of length
\* and distance, and the match finder one position on.
GetMatches(m) ==
    IF m.lenLimit < m.mode.numHashBytes THEN [mf |-> MOVE_POS(m), found |-> <<>>]
    ELSE LongMatches(m, ShortMatches(m))

Skip(m, num) ==
    LET skipped[i \in 0 .. num] ==
            IF i = 0 THEN m ELSE LET before == skipped[i - 1] IN SkipOne(before)
    IN  skipped[num]
=============================================================================
