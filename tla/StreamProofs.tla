---------------------------- MODULE StreamProofs ----------------------------
(***************************************************************************)
(* What comp_file, enc_file and dec_file make of a stream, byte by byte    *)
(* and for every length, chunk size and number of threads: the records of  *)
(* the chunks one after the other, the blocks of the padded stream, and of *)
(* what arrives of them the beginning of the stream that was encrypted.    *)
(***************************************************************************)
EXTENDS CryptStream, SequenceTheorems, WellFoundedInduction, TLAPS

(* Induction over a set of numbers.                                        *)
LEMMA SetInduction ==
    ASSUME NEW S, 0 \in S, \A n \in Nat : n \in S => n + 1 \in S
    PROVE  \A n \in Nat : n \in S
  <1> SUFFICES ASSUME NEW n \in Nat, n \notin S PROVE FALSE
    OBVIOUS
  <1> DEFINE T == {k \in Nat : k \notin S}
  <1>1. IsWellFoundedOn(OpToRel(<, Nat), Nat)
    BY NatLessThanWellFounded
  <1>2. PICK x \in T : \A y \in T : ~ (<<y, x>> \in OpToRel(<, Nat))
    BY <1>1, WFMin
  <1>3. x # 0 /\ x - 1 \in Nat /\ x - 1 < x
    OBVIOUS
  <1>4. x - 1 \in T
    BY <1>3
  <1>5. <<x - 1, x>> \in OpToRel(<, Nat)
    BY <1>3 DEF OpToRel
  <1> QED
    BY <1>2, <1>4, <1>5

(* P has the sums of the first of the given lengths, none to n of them.    *)
AreSums(P, n, lens) ==
    /\ P \in [0..n -> Nat] /\ P[0] = 0
    /\ \A k \in 1..n : P[k] = P[k - 1] + lens[k] /\ lens[k] \in Nat

LEMMA SumsExist ==
    ASSUME NEW n \in Nat, NEW lens \in [1..n -> Nat]
    PROVE  \E P : AreSums(P, n, lens)
  <1> DEFINE S == {m \in Nat : m <= n => \E P : AreSums(P, m, lens)}
  <1>1. 0 \in S
    <2>1. AreSums([k \in 0..0 |-> 0], 0, lens)
      BY DEF AreSums
    <2> QED
      BY <2>1
  <1>2. ASSUME NEW m \in Nat, m \in S PROVE m + 1 \in S
    <2> SUFFICES ASSUME m + 1 <= n PROVE \E P : AreSums(P, m + 1, lens)
      OBVIOUS
    <2>1. PICK P : AreSums(P, m, lens)
      BY <1>2
    <2> DEFINE Q == [k \in 0..(m + 1) |-> IF k <= m THEN P[k] ELSE P[m] + lens[m + 1]]
    <2>2. P[m] \in Nat /\ lens[m + 1] \in Nat
      BY <2>1 DEF AreSums
    <2>3. Q \in [0..(m + 1) -> Nat]
      BY <2>1, <2>2 DEF AreSums
    <2>4. Q[0] = 0
      BY <2>1 DEF AreSums
    <2>5. \A k \in 1..(m + 1) : Q[k] = Q[k - 1] + lens[k]
      <3> SUFFICES ASSUME NEW k \in 1..(m + 1) PROVE Q[k] = Q[k - 1] + lens[k]
        OBVIOUS
      <3>1. CASE k <= m
        BY <2>1, <3>1 DEF AreSums
      <3>2. CASE k = m + 1
        BY <2>1, <3>2 DEF AreSums
      <3> QED
        BY <3>1, <3>2
    <2> HIDE DEF Q
    <2>6. AreSums(Q, m + 1, lens)
      BY <2>3, <2>4, <2>5 DEF AreSums
    <2> QED
      BY <2>6
  <1> HIDE DEF S
  <1>3. \A m \in Nat : m \in S
    BY <1>1, <1>2, SetInduction
  <1> QED
    BY <1>3 DEF S

(* Sums grow.                                                              *)
LEMMA SumsGrow ==
    ASSUME NEW n \in Nat, NEW lens, NEW P, AreSums(P, n, lens),
           NEW j \in 0..n, NEW k \in j..n
    PROVE  P[j] <= P[k]
  <1> DEFINE S == {m \in Nat : j + m <= n => P[j] <= P[j + m]}
  <1>0. \A i \in 0..n : P[i] \in Nat
    BY DEF AreSums
  <1>1. 0 \in S
    BY <1>0
  <1>2. ASSUME NEW m \in Nat, m \in S PROVE m + 1 \in S
    <2> SUFFICES ASSUME j + (m + 1) <= n PROVE P[j] <= P[j + (m + 1)]
      OBVIOUS
    <2>1. P[j] <= P[j + m] /\ j + m + 1 \in 1..n /\ j + m \in 0..n
      BY <1>2
    <2>2. P[j + m + 1] = P[j + m] + lens[j + m + 1] /\ lens[j + m + 1] \in Nat
      <3>1. \A i \in 1..n : P[i] = P[i - 1] + lens[i] /\ lens[i] \in Nat
        BY DEF AreSums
      <3>2. (j + m + 1) - 1 = j + m
        BY <2>1
      <3> QED
        BY <2>1, <3>1, <3>2
    <2>3. P[j] \in Nat /\ P[j + m] \in Nat
      BY <1>0, <2>1
    <2> QED
      BY <2>1, <2>2, <2>3
  <1> HIDE DEF S
  <1>3. \A m \in Nat : m \in S
    BY <1>1, <1>2, SetInduction
  <1>4. k - j \in S
    BY <1>3
  <1> QED
    BY <1>4 DEF S

(* g has the concatenations of the first of the given sequences.           *)
AreJoined(g, n, seqs) ==
    g = [i \in 1..n |-> IF i = 1 THEN seqs[i] ELSE g[i - 1] \o seqs[i]]

LEMMA JoinedExist ==
    ASSUME NEW n \in Nat, NEW seqs
    PROVE  \E g : AreJoined(g, n, seqs)
  <1> DEFINE S == {m \in Nat : m <= n => \E g : AreJoined(g, m, seqs)}
  <1>1. 0 \in S
    <2>1. AreJoined([i \in 1..0 |-> <<>>], 0, seqs)
      BY DEF AreJoined
    <2> QED
      BY <2>1
  <1>2. ASSUME NEW m \in Nat, m \in S PROVE m + 1 \in S
    <2> SUFFICES ASSUME m + 1 <= n PROVE \E g : AreJoined(g, m + 1, seqs)
      OBVIOUS
    <2>1. PICK g : AreJoined(g, m, seqs)
      BY <1>2
    <2> DEFINE last == IF m = 0 THEN seqs[1] ELSE g[m] \o seqs[m + 1]
               h == [i \in 1..(m + 1) |-> IF i <= m THEN g[i] ELSE last]
    <2>2. \A i \in 1..m : g[i] = IF i = 1 THEN seqs[i] ELSE g[i - 1] \o seqs[i]
      BY <2>1 DEF AreJoined
    <2>4. ASSUME NEW i \in 1..(m + 1)
          PROVE  h[i] = IF i = 1 THEN seqs[i] ELSE h[i - 1] \o seqs[i]
      <3>1. CASE i <= m
        <4>1. h[i] = g[i] /\ (i # 1 => h[i - 1] = g[i - 1])
          BY <3>1
        <4> QED
          BY <2>2, <3>1, <4>1
      <3>2. CASE i = m + 1
        <4>1. h[i] = last /\ (m # 0 => h[i - 1] = g[m])
          BY <3>2
        <4> QED
          BY <3>2, <4>1
      <3> QED
        BY <3>1, <3>2
    <2>5. h = [i \in 1..(m + 1) |-> h[i]]
      OBVIOUS
    <2> HIDE DEF h
    <2>6. AreJoined(h, m + 1, seqs)
      BY <2>4, <2>5 DEF AreJoined
    <2> QED
      BY <2>6
  <1> HIDE DEF S
  <1>3. \A m \in Nat : m \in S
    BY <1>1, <1>2, SetInduction
  <1> QED
    BY <1>3 DEF S

(* The elements of a concatenation.                                        *)
LEMMA Concat ==
    ASSUME NEW S, NEW u \in Seq(S), NEW v \in Seq(S), NEW w, w = u \o v
    PROVE  /\ w \in Seq(S) /\ Len(w) = Len(u) + Len(v)
           /\ \A i \in 1..Len(u) : w[i] = u[i]
           /\ \A i \in 1..Len(v) : w[Len(u) + i] = v[i]
  <1>1. Len(u) \in Nat /\ Len(v) \in Nat
    OBVIOUS
  <1>2. u \o v \in Seq(S) /\ Len(u \o v) = Len(u) + Len(v)
    BY ConcatProperties
  <1>3. \A i \in 1..Len(u) + Len(v) :
          (u \o v)[i] = IF i <= Len(u) THEN u[i] ELSE v[i - Len(u)]
    BY ConcatProperties
  <1>4. \A i \in 1..Len(u) : w[i] = u[i]
    BY <1>1, <1>3
  <1>5. \A i \in 1..Len(v) : w[Len(u) + i] = v[i]
    <2> SUFFICES ASSUME NEW i \in 1..Len(v) PROVE w[Len(u) + i] = v[i]
      OBVIOUS
    <2> DEFINE j == Len(u) + i
    <2>1. j \in 1..Len(u) + Len(v) /\ ~(j <= Len(u)) /\ j - Len(u) = i
      BY <1>1
    <2> QED
      BY <1>3, <2>1
  <1> QED
    BY <1>2, <1>4, <1>5

(* f is the n given sequences one after the other, P the places they end.  *)
AreParts(f, n, seqs, P) ==
    /\ Len(f) = P[n]
    /\ \A k \in 1..n : \A i \in 1..Len(seqs[k]) : f[P[k - 1] + i] = seqs[k][i]

(* FlattenSeq puts sequences one after the other.                          *)
LEMMA FlattenAt ==
    ASSUME NEW S, NEW n \in Nat, NEW seqs \in [1..n -> Seq(S)],
           NEW P, NEW lens, AreSums(P, n, lens), \A k \in 1..n : lens[k] = Len(seqs[k])
    PROVE  FlattenSeq(seqs) \in Seq(S) /\ AreParts(FlattenSeq(seqs), n, seqs, P)
  <1>1. Len(seqs) = n
    OBVIOUS
  <1> DEFINE flatten == CHOOSE g : g = [i \in 1..Len(seqs) |->
                                          IF i = 1 THEN seqs[i] ELSE g[i - 1] \o seqs[i]]
  <1>2. AreJoined(flatten, n, seqs)
    BY <1>1, JoinedExist DEF AreJoined
  <1>3. FlattenSeq(seqs) = IF n = 0 THEN seqs ELSE flatten[n]
    BY <1>1 DEF FlattenSeq
  <1> HIDE DEF flatten
  <1> DEFINE Right(m) == /\ flatten[m] \in Seq(S) /\ Len(flatten[m]) = P[m]
                         /\ \A k \in 1..m : \A i \in 1..Len(seqs[k]) :
                              flatten[m][P[k - 1] + i] = seqs[k][i]
             Rights == {m \in Nat : m \in 1..n => Right(m)}
  <1>41. \A k \in 1..n : seqs[k] \in Seq(S) /\ Len(seqs[k]) \in Nat /\ lens[k] = Len(seqs[k])
    OBVIOUS
  <1>42. \A k \in 1..n : P[k] = P[k - 1] + lens[k] /\ P[k] \in Nat /\ P[k - 1] \in Nat
    BY DEF AreSums
  <1>43. \A k \in 1..n : flatten[k] = IF k = 1 THEN seqs[k] ELSE flatten[k - 1] \o seqs[k]
    BY <1>2 DEF AreJoined
  <1>4. \A k \in 1..n : /\ P[k] = P[k - 1] + Len(seqs[k])
                        /\ P[k] \in Nat /\ P[k - 1] \in Nat /\ seqs[k] \in Seq(S)
                        /\ flatten[k] = IF k = 1 THEN seqs[k] ELSE flatten[k - 1] \o seqs[k]
    BY <1>41, <1>42, <1>43
  <1>5. P[0] = 0
    BY DEF AreSums
  <1>6. \A k \in 1..n : \A m \in k..n : P[k] <= P[m]
    <2> QED
      BY SumsGrow
  <1>8. 0 \in Rights
    OBVIOUS
  <1> HIDE DEF Right
  <1>9. ASSUME NEW m \in Nat, m \in Rights PROVE m + 1 \in Rights
    <2> SUFFICES ASSUME m + 1 \in 1..n PROVE Right(m + 1)
      BY DEF Rights
    <2>0. seqs[m + 1] \in Seq(S) /\ P[m + 1] = P[m] + Len(seqs[m + 1]) /\ P[m] \in Nat
      BY <1>4
    <2>1. CASE m = 0
      <3>1. flatten[1] = seqs[1]
        BY <1>4, <2>1
      <3> QED
        BY <1>5, <2>0, <2>1, <3>1 DEF Right
    <2>2. CASE m # 0
      <3>1. flatten[m + 1] = flatten[m] \o seqs[m + 1]
        <4>1. m + 1 \in 1..n /\ m + 1 # 1 /\ (m + 1) - 1 = m
          BY <2>2
        <4>2. flatten[m + 1] = flatten[(m + 1) - 1] \o seqs[m + 1]
          BY <1>43, <4>1, Zenon
        <4> QED
          BY <4>1, <4>2, Zenon
      <3>2. Right(m)
        BY <1>9, <2>2 DEF Rights
      <3>3. flatten[m] \in Seq(S) /\ Len(flatten[m]) = P[m]
        BY <3>2 DEF Right
      <3>5. /\ flatten[m + 1] \in Seq(S)
            /\ Len(flatten[m + 1]) = Len(flatten[m]) + Len(seqs[m + 1])
            /\ \A i \in 1..Len(flatten[m]) : flatten[m + 1][i] = flatten[m][i]
            /\ \A i \in 1..Len(seqs[m + 1]) : 
                 flatten[m + 1][Len(flatten[m]) + i] = seqs[m + 1][i]
        <4> DEFINE u == flatten[m]
                   v == seqs[m + 1]
                   w == flatten[m + 1]
        <4>1. u \in Seq(S) /\ v \in Seq(S) /\ w = u \o v
          BY <2>0, <3>1, <3>3
        <4> HIDE DEF u, v, w
        <4>2. /\ w \in Seq(S) /\ Len(w) = Len(u) + Len(v)
              /\ \A i \in 1..Len(u) : w[i] = u[i]
              /\ \A i \in 1..Len(v) : w[Len(u) + i] = v[i]
          BY <4>1, Concat
        <4> QED
          BY <4>2 DEF u, v, w
      <3>4. ASSUME NEW k \in 1..(m + 1), NEW i \in 1..Len(seqs[k])
            PROVE  flatten[m + 1][P[k - 1] + i] = seqs[k][i]
        <4>0. Len(seqs[k]) \in Nat /\ P[k - 1] \in Nat /\ P[k] = P[k - 1] + Len(seqs[k])
          BY <1>4
        <4>1. CASE k = m + 1
          <5>1. flatten[m + 1][Len(flatten[m]) + i] = seqs[m + 1][i]
            BY <3>5, <4>1, Zenon
          <5> QED
            BY <3>3, <4>1, <5>1
        <4>2. CASE k \in 1..m
          <5>1. P[k] <= P[m]
            BY <1>6, <4>2
          <5>2. P[k - 1] + i \in 1..Len(flatten[m])
            <6>1. i \in Nat /\ 1 <= i /\ i <= Len(seqs[k])
              BY <4>0
            <6>2. Len(flatten[m]) = P[m] /\ P[m] \in Nat
              BY <2>0, <3>3
            <6>3. P[k - 1] + i <= P[m] /\ P[k - 1] + i >= 1
              BY <4>0, <5>1, <6>1, <6>2
            <6> QED
              BY <4>0, <6>1, <6>2, <6>3
          <5>3. flatten[m][P[k - 1] + i] = seqs[k][i]
            BY <3>2, <4>2 DEF Right
          <5> QED
            BY <3>5, <5>2, <5>3, Zenon
        <4> QED
          BY <4>1, <4>2
      <3> QED
        BY <2>0, <3>3, <3>5, <3>4 DEF Right
    <2> QED
      BY <2>1, <2>2
  <1> HIDE DEF Rights
  <1>10. \A m \in Nat : m \in Rights
    BY <1>8, <1>9, SetInduction
  <1>11. n # 0 => Right(n)
    BY <1>10 DEF Rights
  <1> QED
    BY <1>3, <1>5, <1>11 DEF Right, AreParts

LEMMA Division ==
    ASSUME NEW n \in Nat, NEW d \in Nat \ {0}
    PROVE  n = d * (n \div d) + (n % d)
  OBVIOUS

LEMMA Remainder ==
    ASSUME NEW n \in Nat, NEW d \in Nat \ {0}
    PROVE  /\ n \div d \in Nat /\ n % d \in 0..(d - 1)
           /\ n = d * (n \div d) + (n % d)
  <1>1. n \div d \in Nat
    OBVIOUS
  <1>2. n % d \in Nat /\ n % d < d
    OBVIOUS
  <1>3. n = d * (n \div d) + (n % d)
    BY Division
  <1> QED
    BY <1>1, <1>2, <1>3

(* A quotient and a remainder are the only ones.                           *)
LEMMA OnlyQuotient ==
    ASSUME NEW d \in Nat \ {0}, NEW q \in Nat, NEW r \in 0..(d - 1),
           NEW n \in Nat, n = d * q + r
    PROVE  n \div d = q /\ n % d = r
  <1> DEFINE u == n \div d
             v == n % d
  <1>0. u \in Nat /\ v \in 0..(d - 1) /\ n = d * u + v
    BY Remainder
  <1> HIDE DEF u, v
  <1>1. q = u
    <2>1. CASE q + 1 <= u
      <3>1. d * (q + 1) <= d * u
        BY <1>0, <2>1
      <3>2. d * (q + 1) = d * q + d
        OBVIOUS
      <3> QED
        BY <1>0, <3>1, <3>2
    <2>2. CASE u + 1 <= q
      <3>1. d * (u + 1) <= d * q
        BY <1>0, <2>2
      <3>2. d * (u + 1) = d * u + d
        BY <1>0
      <3> QED
        BY <1>0, <3>1, <3>2
    <2> QED
      BY <1>0, <2>1, <2>2
  <1>2. r = v
    BY <1>0, <1>1
  <1> QED
    BY <1>1, <1>2 DEF u, v

LEMMA TimesSwap ==
    ASSUME NEW i \in Nat, NEW j \in Nat, NEW k \in Nat
    PROVE  i * (j * k) = j * (i * k)
  OBVIOUS

LEMMA TimesPlus ==
    ASSUME NEW i \in Nat, NEW j \in Nat, NEW k \in Nat
    PROVE  i * (j + k) = i * j + i * k /\ i * j = j * i /\ i * j \in Nat
  OBVIOUS

(* Batches of T chunks of M bytes, the last batch having what is left of   *)
(* them, are as many chunks as n bytes have, and one more where none of    *)
(* them is short: the arithmetic of Chunks.                                *)
LEMMA LeftOver ==
    ASSUME NEW B \in Nat \ {0}, NEW n \in Nat,
           NEW last, last = IF n > B THEN n \div B ELSE 0
    PROVE  last \in Nat /\ n - last * B \in Nat /\ last * B \in Nat
  <1>1. CASE n > B
    <2> DEFINE q == n \div B
               r == n % B
    <2>1. q \in Nat /\ r \in Nat /\ n = B * q + r
      BY Remainder
    <2>2. last = q
      BY <1>1
    <2> HIDE DEF q, r
    <2>3. last * B = B * q /\ B * q \in Nat
      BY <2>1, <2>2, TimesPlus
    <2> QED
      BY <2>1, <2>2, <2>3
  <1>2. CASE ~(n > B)
    BY <1>2
  <1> QED
    BY <1>1, <1>2

LEMMA BatchArithmetic ==
    ASSUME NEW M \in Nat \ {0}, NEW T \in Nat \ {0}, NEW n \in Nat,
           NEW last, last = IF n > M * T THEN n \div (M * T) ELSE 0
    PROVE  /\ last \in Nat /\ n - last * (M * T) \in Nat
           /\ (n - last * (M * T)) \div M \in Nat
           /\ last * T + (n - last * (M * T)) \div M = n \div M
  <1> DEFINE B == M * T
             left == n - last * B
             k == left \div M
             r == left % M
  <1>1. B \in Nat \ {0} /\ last = IF n > B THEN n \div B ELSE 0
    OBVIOUS
  <1> HIDE DEF B
  <1>2. last \in Nat /\ n - last * B \in Nat /\ last * B \in Nat
    BY <1>1, LeftOver
  <1>4. n = last * B + left /\ left \in Nat
    BY <1>2
  <1> HIDE DEF left
  <1>3. k \in Nat /\ r \in 0..(M - 1) /\ left = M * k + r
    BY <1>4, Remainder
  <1> HIDE DEF k, r
  <1>5. last * B = M * (last * T)
    BY <1>2, TimesSwap DEF B
  <1>6. M * (last * T + k) = M * (last * T) + M * k /\ last * T \in Nat
    BY <1>2, <1>3, TimesPlus
  <1>7. last * T + k \in Nat
    BY <1>3, <1>6
  <1> DEFINE c == last * T + k
  <1>8. n = M * c + r /\ c \in Nat
    <2>1. n = last * B + (M * k + r)
      BY <1>3, <1>4
    <2>2. M * k \in Nat
      BY <1>3, TimesPlus
    <2>3. n = M * (last * T) + (M * k + r) /\ M * (last * T) \in Nat
      BY <1>2, <1>5, <2>1
    <2>4. M * c = M * (last * T) + M * k
      BY <1>6
    <2> HIDE DEF c
    <2>5. M * c \in Nat
      BY <2>2, <2>3, <2>4
    <2> QED
      BY <1>3, <1>7, <2>2, <2>3, <2>4, <2>5 DEF c
  <1>9. n \div M = c
    <2> HIDE DEF c
    <2> QED
      BY <1>3, <1>8, OnlyQuotient
  <1> QED
    BY <1>2, <1>3, <1>4, <1>9 DEF k, left, B

LEMMA BatchSums ==
    ASSUME NEW last \in Nat, NEW T \in Nat, NEW nt \in Nat, NEW lens,
           \A b \in 1..last : lens[b] = T, lens[last + 1] = nt,
           NEW P, P = [k \in 0..(last + 1) |-> IF k <= last THEN k * T ELSE last * T + nt]
    PROVE  AreSums(P, last + 1, lens)
  <1>0. \A k \in 0..last : P[k] = k * T
    OBVIOUS
  <1>1. P[last + 1] = last * T + nt /\ last * T \in Nat
    <2>1. last * T \in Nat
      BY TimesPlus
    <2> QED
      BY <2>1
  <1>2. P \in [0..(last + 1) -> Nat]
    <2>1. ASSUME NEW k \in 0..(last + 1) PROVE P[k] \in Nat
      <3>1. CASE k = last + 1
        BY <1>1, <3>1
      <3>2. CASE k \in 0..last
        <4>1. k * T \in Nat
          BY <3>2, TimesPlus
        <4> QED
          BY <1>0, <3>2, <4>1
      <3> QED
        BY <3>1, <3>2
    <2>2. P = [k \in 0..(last + 1) |-> P[k]]
      OBVIOUS
    <2> QED
      BY <2>1, <2>2
  <1>3. P[0] = 0
    BY <1>0
  <1>4. ASSUME NEW k \in 1..(last + 1) PROVE P[k] = P[k - 1] + lens[k] /\ lens[k] \in Nat
    <2>1. P[k - 1] = (k - 1) * T
      BY <1>0
    <2>2. CASE k \in 1..last
      <3>1. k * T = (k - 1) * T + T
        <4>1. T * ((k - 1) + 1) = T * (k - 1) + T * 1 /\ k - 1 \in Nat
          BY TimesPlus
        <4>2. T * k = T * (k - 1) + T /\ T * k = k * T /\ T * (k - 1) = (k - 1) * T
          BY <4>1, TimesPlus
        <4> QED
          BY <4>2
      <3>2. P[k] = k * T /\ lens[k] = T
        BY <1>0, <2>2
      <3> QED
        BY <2>1, <3>1, <3>2
    <2>3. CASE k = last + 1
      BY <1>1, <2>1, <2>3
    <2> QED
      BY <2>2, <2>3
  <1> QED
    BY <1>2, <1>3, <1>4 DEF AreSums

(* f is so many sequences of T elements and one of nt, one after the other. *)
AreBatches(f, last, T, nt, seqs) ==
    /\ Len(f) = last * T + nt
    /\ \A b \in 1..(last + 1) : \A k \in 1..Len(seqs[b]) : f[(b - 1) * T + k] = seqs[b][k]

(* The parts of a sequence of sequences of which all but the last have T   *)
(* elements, and the last nt.                                              *)
LEMMA FlattenBatches ==
    ASSUME NEW S, NEW last \in Nat, NEW T \in Nat, NEW nt \in Nat,
           NEW seqs \in [1..(last + 1) -> Seq(S)],
           \A b \in 1..last : Len(seqs[b]) = T,
           Len(seqs[last + 1]) = nt
    PROVE  FlattenSeq(seqs) \in Seq(S) /\ AreBatches(FlattenSeq(seqs), last, T, nt, seqs)
  <1> DEFINE P == [k \in 0..(last + 1) |-> IF k <= last THEN k * T ELSE last * T + nt]
             lens == [k \in 1..(last + 1) |-> Len(seqs[k])]
  <1>1. /\ \A b \in 1..(last + 1) : lens[b] = Len(seqs[b])
        /\ \A b \in 1..last : lens[b] = T
        /\ lens[last + 1] = nt
    OBVIOUS
  <1>2. P[last + 1] = last * T + nt /\ \A b \in 1..(last + 1) : P[b - 1] = (b - 1) * T
    OBVIOUS
  <1> HIDE DEF lens
  <1>3. AreSums(P, last + 1, lens)
    BY <1>1, BatchSums
  <1> HIDE DEF P
  <1> DEFINE f == FlattenSeq(seqs)
  <1>4. /\ f \in Seq(S) /\ Len(f) = P[last + 1]
        /\ \A b \in 1..(last + 1) : \A k \in 1..Len(seqs[b]) : f[P[b - 1] + k] = seqs[b][k]
    <2> DEFINE n == last + 1
    <2>1. n \in Nat /\ seqs \in [1..n -> Seq(S)] /\ AreSums(P, n, lens)
          /\ \A b \in 1..n : lens[b] = Len(seqs[b])
      BY <1>1, <1>3
    <2> HIDE DEF n
    <2>2. f \in Seq(S) /\ AreParts(f, n, seqs, P)
      BY <2>1, FlattenAt
    <2> QED
      BY <2>2 DEF n, AreParts
  <1> QED
    BY <1>2, <1>4 DEF AreBatches

(* A number of batches before the last, and threads of the last batch.     *)
LastOf(n, M, T) == IF n > M * T THEN n \div (M * T) ELSE 0
ThreadsOf(n, M, T, b) == IF b = LastOf(n, M, T) + 1
                         THEN (n - LastOf(n, M, T) * (M * T)) \div M + 1 ELSE T

(* Chunk k is that of a thread of some batch.                              *)
HasThread(k, last, T, nt) ==
    \E b \in 1..(last + 1) : \E t_ \in 1..(IF b = last + 1 THEN nt ELSE T) : k = (b - 1) * T + t_

(* Every chunk of a file is one thread's in one batch.                     *)
LEMMA ThreadOf ==
    ASSUME NEW T \in Nat \ {0}, NEW last \in Nat, NEW nt \in Nat, NEW k \in 1..(last * T + nt)
    PROVE  HasThread(k, last, T, nt)
  <1>0. last * T \in Nat
    BY TimesPlus
  <1>1. CASE k <= last * T
    <2> DEFINE q == (k - 1) \div T
               r == (k - 1) % T
    <2>1. k - 1 \in Nat
      BY <1>0
    <2>2. q \in Nat /\ r \in 0..(T - 1) /\ k - 1 = T * q + r
      BY <2>1, Remainder
    <2> HIDE DEF q, r
    <2>3. q < last
      <3>1. SUFFICES ASSUME last <= q PROVE FALSE
        BY <2>2
      <3>2. q - last \in Nat /\ q = last + (q - last)
        BY <2>2, <3>1
      <3> DEFINE d == q - last
      <3> HIDE DEF d
      <3>3. T * q = T * last + T * d /\ T * last = last * T /\ T * d \in Nat
        <4>1. d \in Nat /\ q = last + d
          BY <3>2 DEF d
        <4> QED
          BY <4>1, TimesPlus
      <3> QED
        BY <1>0, <1>1, <2>1, <2>2, <3>3
    <2>4. q + 1 \in 1..(last + 1) /\ r + 1 \in 1..T /\ q + 1 # last + 1
      BY <2>2, <2>3
    <2>5. k = ((q + 1) - 1) * T + (r + 1)
      <3>1. T * q = q * T /\ q * T \in Nat /\ (q + 1) - 1 = q
        BY <2>2, TimesPlus
      <3> QED
        BY <2>2, <3>1
    <2>6. \E t_ \in 1..(IF q + 1 = last + 1 THEN nt ELSE T) : k = ((q + 1) - 1) * T + t_
      BY <2>4, <2>5
    <2> DEFINE b == q + 1
    <2>7. b \in 1..(last + 1)
          /\ \E t_ \in 1..(IF b = last + 1 THEN nt ELSE T) : k = (b - 1) * T + t_
      BY <2>4, <2>6
    <2> HIDE DEF b
    <2> QED
      BY <2>7 DEF HasThread
  <1>2. CASE k > last * T
    <2>1. k - last * T \in 1..nt
      BY <1>0, <1>2
    <2>2. k = ((last + 1) - 1) * T + (k - last * T)
      BY <1>0
    <2> DEFINE b == last + 1
    <2>3. b \in 1..(last + 1) /\ (IF b = last + 1 THEN nt ELSE T) = nt
      OBVIOUS
    <2>4. \E t_ \in 1..nt : k = (b - 1) * T + t_
      BY <2>1, <2>2
    <2> HIDE DEF b
    <2> QED
      BY <2>3, <2>4 DEF HasThread
  <1> QED
    BY <1>0, <1>1, <1>2

(* Thread t_ of batch b has chunk k of the file, whose place is that of    *)
(* chunks counted without regard to batches.                               *)
LEMMA ChunkOfThread ==
    ASSUME NEW M \in Nat \ {0}, NEW T \in Nat \ {0}, NEW last \in Nat, NEW nt \in Nat \ {0},
           NEW b \in 1..(last + 1), NEW t_ \in 1..(IF b = last + 1 THEN nt ELSE T),
           NEW k, k = (b - 1) * T + t_
    PROVE  /\ k \in 1..(last * T + nt)
           /\ (b - 1) * (M * T) + (t_ - 1) * M = (k - 1) * M
           /\ k = last * T + nt <=> (b = last + 1 /\ t_ = nt)
  <1> DEFINE B == b - 1
             U == t_ - 1
  <1>1. B \in Nat /\ U \in Nat /\ last - B \in Nat /\ t_ = U + 1 /\ t_ \in Nat
    OBVIOUS
  <1>2. /\ b = B + 1 /\ k = B * T + t_ /\ (B = last => U + 1 <= nt) /\ (B # last => U + 1 <= T)
    OBVIOUS
  <1> DEFINE d == last - B
  <1>3. d \in Nat /\ last = B + d /\ (d = 0 <=> b = last + 1)
    BY <1>1
  <1>4. B * T \in Nat /\ last * T \in Nat /\ d * T \in Nat /\ last * T = B * T + d * T
    <2> HIDE DEF B, d
    <2>1. T * last = T * B + T * d /\ T * B = B * T /\ T * d = d * T /\ T * last = last * T
      BY <1>1, <1>3, TimesPlus
    <2>2. B * T \in Nat /\ last * T \in Nat /\ d * T \in Nat
      BY <1>1, <1>3, TimesPlus
    <2> QED
      BY <2>1, <2>2
  <1>5. d # 0 => d * T >= T
    <2> HIDE DEF d
    <2> SUFFICES ASSUME d # 0 PROVE d * T >= T
      OBVIOUS
    <2>1. d - 1 \in Nat /\ d = 1 + (d - 1)
      BY <1>3
    <2> DEFINE e == d - 1
    <2>2. e \in Nat /\ d = 1 + e
      BY <2>1
    <2> HIDE DEF e
    <2>3. T * d = T * 1 + T * e /\ T * e \in Nat /\ T * d = d * T
      BY <1>3, <2>2, TimesPlus
    <2> QED
      BY <2>3
  <1>6. B * (M * T) + U * M = (k - 1) * M
    <2> HIDE DEF B, U
    <2>1. k - 1 = B * T + U
      BY <1>1, <1>2, <1>4
    <2>2. M * (B * T + U) = M * (B * T) + M * U
      BY <1>1, <1>4, TimesPlus
    <2>3. M * (B * T) = B * (M * T) /\ M * U = U * M
      BY <1>1, TimesSwap, TimesPlus
    <2>4. M * (B * T + U) = (B * T + U) * M
      BY <1>1, <1>4, TimesPlus
    <2> QED
      BY <2>1, <2>2, <2>3, <2>4
  <1>7. k \in 1..(last * T + nt) /\ (k = last * T + nt <=> (b = last + 1 /\ t_ = nt))
    <2> HIDE DEF B, U, d
    <2>1. CASE d = 0
      <3>1. B = last /\ U + 1 <= nt /\ b = last + 1
        BY <1>1, <1>2, <1>3, <2>1
      <3> QED
        BY <1>1, <1>2, <1>4, <3>1
    <2>2. CASE d # 0
      <3>1. B # last /\ U + 1 <= T /\ d * T >= T /\ b # last + 1
        BY <1>1, <1>2, <1>3, <1>5, <2>2
      <3>2. k < last * T + nt /\ k >= 1 /\ k \in Nat
        BY <1>1, <1>2, <1>4, <3>1
      <3> QED
        BY <1>4, <3>1, <3>2
    <2> QED
      BY <2>1, <2>2
  <1> QED
    BY <1>6, <1>7

(* The terms x(k), in batches, each in its thread's place.                 *)
InBatches(x, n, M, T) ==
    [b \in 1..(LastOf(n, M, T) + 1) |-> [t_ \in 1..ThreadsOf(n, M, T, b) |-> x[(b - 1) * T + t_]]]
AreTerms(f, N, x) == Len(f) = N /\ \A k \in 1..N : f[k] = x[k]

(* How many chunks and threads there are.                                  *)
LEMMA BatchCount ==
    ASSUME NEW M \in Nat \ {0}, NEW T \in Nat \ {0}, NEW n \in Nat
    PROVE  LET last == LastOf(n, M, T)
               nt == (n - last * (M * T)) \div M + 1
           IN  /\ last \in Nat /\ nt \in Nat \ {0} /\ last * T + nt = n \div M + 1
               /\ n \div M + 1 \in Nat
               /\ \A b : ThreadsOf(n, M, T, b) \in Nat
  <1> DEFINE last == LastOf(n, M, T)
             r == (n - last * (M * T)) \div M
             nt == r + 1
  <1>1. last \in Nat /\ r \in Nat /\ last * T + r = n \div M
    BY BatchArithmetic DEF LastOf
  <1>2. last * T \in Nat
    BY <1>1, TimesPlus
  <1>4. \A b : ThreadsOf(n, M, T, b) = nt \/ ThreadsOf(n, M, T, b) = T
    BY DEF ThreadsOf
  <1> HIDE DEF last, r
  <1>3. nt \in Nat \ {0} /\ last * T + nt = n \div M + 1 /\ n \div M + 1 \in Nat
    BY <1>1, <1>2
  <1>5. \A b : ThreadsOf(n, M, T, b) \in Nat
    BY <1>3, <1>4
  <1> QED
    BY <1>1, <1>3, <1>5 DEF last, r

(* Batches of parts make one sequence of Chunks' many: x(k) for chunk k.   *)
LEMMA Batches ==
    ASSUME NEW M \in Nat \ {0}, NEW T \in Nat \ {0}, NEW n \in Nat,
           NEW X, NEW x \in [1..(n \div M + 1) -> X],
           NEW seqs, seqs = InBatches(x, n, M, T)
    PROVE  FlattenSeq(seqs) \in Seq(X) /\ AreTerms(FlattenSeq(seqs), n \div M + 1, x)
  <1> DEFINE last == LastOf(n, M, T)
             nt == (n - last * (M * T)) \div M + 1
             N == n \div M + 1
  <1>1. last \in Nat /\ nt \in Nat \ {0} /\ last * T + nt = N /\ N \in Nat
    BY BatchCount, ZenonT(60)
  <1>2. \A b \in 1..(last + 1) : ThreadsOf(n, M, T, b) = IF b = last + 1 THEN nt ELSE T
    BY DEF ThreadsOf
  <1>3. seqs = [b \in 1..(last + 1) |-> [t_ \in 1..ThreadsOf(n, M, T, b) |-> x[(b - 1) * T + t_]]]
    BY DEF InBatches
  <1> HIDE DEF last, nt, N
  <1>4. ASSUME NEW b \in 1..(last + 1)
        PROVE  /\ seqs[b] \in Seq(X)
               /\ Len(seqs[b]) = IF b = last + 1 THEN nt ELSE T
               /\ \A t_ \in 1..(IF b = last + 1 THEN nt ELSE T) : seqs[b][t_] = x[(b - 1) * T + t_]
    <2> DEFINE m == IF b = last + 1 THEN nt ELSE T
               u == [t_ \in 1..m |-> x[(b - 1) * T + t_]]
    <2>1. seqs[b] = u
      BY <1>2, <1>3
    <2>2. m \in Nat
      BY <1>1
    <2>3. \A t_ \in 1..m : (b - 1) * T + t_ \in 1..N
      <3> SUFFICES ASSUME NEW t_ \in 1..m PROVE (b - 1) * T + t_ \in 1..N
        OBVIOUS
      <3> DEFINE k == (b - 1) * T + t_
      <3>1. /\ k \in 1..(last * T + nt)
            /\ (b - 1) * (M * T) + (t_ - 1) * M = (k - 1) * M
            /\ k = last * T + nt <=> (b = last + 1 /\ t_ = nt)
        BY <1>1, ChunkOfThread
      <3> QED
        BY <1>1, <3>1
    <2>4. \A t_ \in 1..m : x[(b - 1) * T + t_] \in X
      BY <2>3 DEF N
    <2> HIDE DEF m
    <2>5. u \in Seq(X) /\ Len(u) = m
      BY <2>2, <2>4
    <2> QED
      BY <2>1, <2>5 DEF m
  <1>5. seqs \in [1..(last + 1) -> Seq(X)]
    <2>1. seqs = [b \in 1..(last + 1) |-> seqs[b]]
      BY <1>3
    <2> QED
      BY <1>4, <2>1
  <1>6. (\A b \in 1..last : Len(seqs[b]) = T) /\ Len(seqs[last + 1]) = nt
    <2>1. \A b \in 1..(last + 1) : Len(seqs[b]) = IF b = last + 1 THEN nt ELSE T
      BY <1>4
    <2>2. last + 1 \in 1..(last + 1) /\ \A b \in 1..last : b \in 1..(last + 1) /\ b # last + 1
      BY <1>1
    <2> QED
      BY <2>1, <2>2, Zenon
  <1> DEFINE f == FlattenSeq(seqs)
  <1>7. f \in Seq(X) /\ AreBatches(f, last, T, nt, seqs)
    <2>1. last \in Nat /\ T \in Nat /\ nt \in Nat
      BY <1>1
    <2> QED
      BY <1>5, <1>6, <2>1, FlattenBatches
  <1> HIDE DEF f
  <1>8. ASSUME NEW k \in 1..N PROVE f[k] = x[k]
    <2>1. PICK b \in 1..(last + 1) : \E t_ \in 1..(IF b = last + 1 THEN nt ELSE T) :
                                       k = (b - 1) * T + t_
      <3>1. k \in 1..(last * T + nt) /\ nt \in Nat /\ last \in Nat
        BY <1>1
      <3> QED
        <4>1. HasThread(k, last, T, nt)
          BY <3>1, ThreadOf
        <4> QED
          BY <4>1 DEF HasThread
    <2>2. PICK t_ \in 1..(IF b = last + 1 THEN nt ELSE T) : k = (b - 1) * T + t_
      BY <2>1
    <2>3. Len(seqs[b]) = (IF b = last + 1 THEN nt ELSE T) /\ seqs[b][t_] = x[(b - 1) * T + t_]
      BY <1>4
    <2>4. t_ \in 1..Len(seqs[b])
      BY <2>3
    <2>5. f[(b - 1) * T + t_] = seqs[b][t_]
      BY <1>7, <2>4, Zenon DEF AreBatches
    <2> QED
      BY <2>2, <2>3, <2>5
  <1> QED
    BY <1>1, <1>7, <1>8 DEF f, N, AreBatches, AreTerms

(* Where chunk k of n bytes ends.                                          *)
EndOf(n, M, k) == IF k = n \div M + 1 THEN n ELSE k * M

IsEnd(n, M, k, end) ==
    /\ end = EndOf(n, M, k) /\ end \in Nat /\ end <= n
    /\ n \div M \in Nat /\ (k - 1) * M \in Nat /\ (k - 1) * M <= end
    /\ k = n \div M + 1 => end = n /\ end - (k - 1) * M = n % M
    /\ k # n \div M + 1 => end - (k - 1) * M = M

LEMMA EndsWithin ==
    ASSUME NEW M \in Nat \ {0}, NEW n \in Nat, NEW k \in 1..(n \div M + 1)
    PROVE  IsEnd(n, M, k, EndOf(n, M, k))
  <1> DEFINE q == n \div M
             r == n % M
             j == k - 1
  <1>1. q \in Nat /\ r \in 0..(M - 1) /\ n = M * q + r
    BY Remainder
  <1>2. EndOf(n, M, k) = IF k = q + 1 THEN n ELSE k * M
    BY DEF EndOf
  <1>3. j \in Nat /\ k = j + 1 /\ k \in Nat /\ q - j \in Nat /\ k - 1 = j
    BY <1>1
  <1> DEFINE d == q - j
  <1>4. d \in Nat /\ q = j + d /\ (d = 0 <=> k = q + 1)
    BY <1>1, <1>3
  <1> HIDE DEF q, r, j, d
  <1>5. M * q = M * j + M * d /\ M * j = j * M /\ j * M \in Nat /\ M * d \in Nat
    BY <1>3, <1>4, TimesPlus
  <1>6. k * M = j * M + M /\ k * M \in Nat
    <2>1. M * k = M * j + M * 1 /\ M * k = k * M /\ M * k \in Nat
      BY <1>3, TimesPlus
    <2> QED
      BY <1>5, <2>1
  <1>7. CASE d = 0
    <2>1. M * d = 0 /\ k = q + 1
      BY <1>4, <1>7
    <2>2. n = j * M + r
      BY <1>1, <1>5, <2>1
    <2>3. EndOf(n, M, k) = n
      BY <1>2, <2>1
    <2>4. /\ EndOf(n, M, k) \in Nat /\ j * M <= EndOf(n, M, k) /\ EndOf(n, M, k) <= n
          /\ EndOf(n, M, k) - j * M = r
      BY <1>1, <1>5, <2>2, <2>3
    <2>5. n \div M = q /\ n % M = r
      BY DEF q, r
    <2> QED
      BY <1>1, <1>3, <1>5, <2>1, <2>3, <2>4, <2>5 DEF IsEnd
  <1>8. CASE d # 0
    <2>1. M * d >= M /\ k # q + 1
      <3>1. d - 1 \in Nat /\ d = 1 + (d - 1)
        BY <1>4, <1>8
      <3> DEFINE e == d - 1
      <3>2. e \in Nat /\ d = 1 + e
        BY <3>1
      <3> HIDE DEF e
      <3>3. M * d = M * 1 + M * e /\ M * e \in Nat
        BY <3>2, TimesPlus
      <3> QED
        BY <1>4, <1>8, <3>3
    <2>2. EndOf(n, M, k) = j * M + M
      BY <1>2, <1>6, <2>1
    <2>3. /\ EndOf(n, M, k) \in Nat /\ j * M <= EndOf(n, M, k) /\ EndOf(n, M, k) <= n
          /\ EndOf(n, M, k) - j * M = M
      BY <1>1, <1>5, <2>1, <2>2
    <2>5. n \div M = q /\ n % M = r
      BY DEF q, r
    <2> QED
      BY <1>1, <1>3, <1>5, <2>1, <2>3, <2>5 DEF IsEnd
  <1> QED
    BY <1>7, <1>8

(* What a thread reads is the chunk it has, whole: from (k - 1) * M on.     *)
ReadsChunk(n, M, T, k, off, len) ==
    k \in 1..(n \div M + 1) /\ off = (k - 1) * M /\ off + len = EndOf(n, M, k)

LEMMA ThreadReads ==
    ASSUME NEW M \in Nat \ {0}, NEW T \in Nat \ {0}, NEW n \in Nat,
           NEW b \in 1..(LastOf(n, M, T) + 1), NEW t_ \in 1..ThreadsOf(n, M, T, b),
           NEW off, off = (b - 1) * (M * T) + (t_ - 1) * M,
           NEW len, len = IF b = LastOf(n, M, T) + 1 /\ t_ = ThreadsOf(n, M, T, b)
                          THEN n - off ELSE M
    PROVE  ReadsChunk(n, M, T, (b - 1) * T + t_, off, len)
  <1> DEFINE last == LastOf(n, M, T)
             nt == (n - last * (M * T)) \div M + 1
             N == n \div M + 1
             k == (b - 1) * T + t_
  <1>1. last \in Nat /\ nt \in Nat \ {0} /\ last * T + nt = N /\ N \in Nat
    BY BatchCount, ZenonT(60)
  <1>2. ThreadsOf(n, M, T, b) = IF b = last + 1 THEN nt ELSE T
    BY DEF ThreadsOf
  <1>3. len = IF b = last + 1 /\ t_ = nt THEN n - off ELSE M
    BY <1>2
  <1>4. t_ \in 1..(IF b = last + 1 THEN nt ELSE T) /\ b \in 1..(last + 1)
    BY <1>2
  <1> HIDE DEF last, nt
  <1>5. /\ k \in 1..(last * T + nt)
        /\ (b - 1) * (M * T) + (t_ - 1) * M = (k - 1) * M
        /\ k = last * T + nt <=> (b = last + 1 /\ t_ = nt)
    BY <1>1, <1>4, ChunkOfThread
  <1> HIDE DEF k, N
  <1>6. k \in 1..N /\ off = (k - 1) * M /\ len = IF k = N THEN n - off ELSE M
    BY <1>1, <1>3, <1>5
  <1>7. IsEnd(n, M, k, EndOf(n, M, k))
    <2>1. k \in 1..(n \div M + 1)
      BY <1>6 DEF N
    <2> QED
      BY <2>1, EndsWithin
  <1>8. off + len = EndOf(n, M, k)
    <2> DEFINE end == EndOf(n, M, k)
    <2>1. /\ end \in Nat /\ off \in Nat /\ (k = N => end = n)
          /\ (k # N => end - off = M)
      BY <1>6, <1>7 DEF IsEnd, N
    <2> HIDE DEF end
    <2>2. off + len = end
      BY <1>6, <2>1
    <2> QED
      BY <2>2 DEF end
  <1> QED
    BY <1>6, <1>8 DEF ReadsChunk, k, N

(* The chunks of a stream are cut one after the other, each EncMem bytes   *)
(* but the last: however many batches and threads they fall to.            *)
LEMMA CutIs ==
    ASSUME NEW S, NEW s \in Seq(S)
    PROVE  LET N == Len(s) \div EncMem + 1
           IN  /\ Cut(s) \in Seq(Seq(S)) /\ Len(Cut(s)) = N
               /\ \A k \in 1..N :
                    Cut(s)[k] = SubSeq(s, (k - 1) * EncMem + 1, EndOf(Len(s), EncMem, k))
  <1> DEFINE n == Len(s)
             N == n \div EncMem + 1
             last == LastOf(n, EncMem, EncThreads)
             x == [k \in 1..N |-> SubSeq(s, (k - 1) * EncMem + 1, EndOf(n, EncMem, k))]
             seqs == InBatches(x, n, EncMem, EncThreads)
  <1>0. EncMem \in Nat \ {0} /\ EncThreads \in Nat \ {0} /\ n \in Nat
    BY CryptAssumption
  <1>1. x \in [1..N -> Seq(S)]
    <2>1. ASSUME NEW k \in 1..N
          PROVE  SubSeq(s, (k - 1) * EncMem + 1, EndOf(n, EncMem, k)) \in Seq(S)
      <3> DEFINE i == (k - 1) * EncMem + 1
                 j == EndOf(n, EncMem, k)
      <3>1. i \in Int /\ j \in Int /\ i >= 1 /\ j <= n
        <4> HIDE DEF n
        <4>1. IsEnd(n, EncMem, k, j)
          BY <1>0, EndsWithin
        <4> QED
          BY <4>1 DEF IsEnd
      <3> HIDE DEF i, j, n
      <3>2. \A y \in i..j : s[y] \in S
        BY <3>1 DEF n
      <3>3. SubSeq(s, i, j) \in Seq(S)
        BY <3>1, <3>2, SubSeqProperties
      <3> QED
        BY <3>3 DEF i, j
    <2> QED
      BY <2>1
  <1>2. E!NumBatches(n) = last + 1 /\ last \in Nat
    BY <1>0, BatchCount DEF E!NumBatches, E!max_bytes_per_batch, LastOf
  <1>3. ASSUME NEW b \in 1..(last + 1)
        PROVE  /\ E!LastBatch(n, b - 1) <=> b = last + 1
               /\ E!NumThreads(n, b - 1) = ThreadsOf(n, EncMem, EncThreads, b)
    <2>1. E!LastBatch(n, b - 1) <=> b = last + 1
      <3> HIDE DEF n, last
      <3> QED
        BY <1>2 DEF E!LastBatch
    <2> QED
      BY <1>2, <2>1 DEF E!NumThreads, E!max_bytes_per_batch, ThreadsOf
  <1>4. ASSUME NEW b \in 1..(last + 1), NEW t_ \in 1..ThreadsOf(n, EncMem, EncThreads, b)
        PROVE  LET off == E!Offset(b - 1, t_ - 1)
               IN  SubSeq(s, off + 1, off + E!ReadLen(n, b - 1, t_ - 1))
                   = x[(b - 1) * EncThreads + t_]
    <2> DEFINE off == E!Offset(b - 1, t_ - 1)
               len == E!ReadLen(n, b - 1, t_ - 1)
               k == (b - 1) * EncThreads + t_
    <2>1. off = (b - 1) * (EncMem * EncThreads) + (t_ - 1) * EncMem
      BY DEF E!Offset, E!max_bytes_per_batch
    <2>2. len = IF b = last + 1 /\ t_ = ThreadsOf(n, EncMem, EncThreads, b)
                THEN n - off ELSE EncMem
      <3> DEFINE nt == ThreadsOf(n, EncMem, EncThreads, b)
      <3>1. t_ \in 1..nt
        OBVIOUS
      <3> HIDE DEF nt
      <3>2. t_ - 1 = nt - 1 <=> t_ = nt
        <4>1. nt \in Nat
          <5> HIDE DEF n
          <5> QED
            BY <1>0, BatchCount DEF nt
        <4> QED
          BY <3>1, <4>1
      <3>3. E!LastThread(n, b - 1, t_ - 1) <=> (b = last + 1 /\ t_ = nt)
        <4>1. /\ E!LastBatch(n, b - 1) <=> b = last + 1
              /\ E!NumThreads(n, b - 1) = nt
          BY <1>3 DEF nt
        <4> QED
          BY <3>2, <4>1 DEF E!LastThread
      <3> HIDE DEF n, last
      <3> QED
        BY <3>3 DEF E!ReadLen, nt
    <2>3. ReadsChunk(n, EncMem, EncThreads, k, off, len)
      <3> HIDE DEF n, off, len
      <3> QED
        BY <1>0, <2>1, <2>2, ThreadReads
    <2> HIDE DEF off, len
    <2>4. SubSeq(s, off + 1, off + len) = x[k]
      BY <2>3 DEF ReadsChunk
    <2> QED
      BY <2>4 DEF off, len
  <1> HIDE DEF x
  <1>6. Cut(s) = FlattenSeq(seqs)
    <2>1. Cut(s) = FlattenSeq([b \in 1..(last + 1) |->
                     [t_ \in 1..ThreadsOf(n, EncMem, EncThreads, b) |->
                     LET off == E!Offset(b - 1, t_ - 1)
                     IN  SubSeq(s, off + 1, off + E!ReadLen(n, b - 1, t_ - 1))]])
      <3> HIDE DEF last
      <3> QED
        BY <1>2, <1>3 DEF Cut
    <2>2. [b \in 1..(last + 1) |-> [t_ \in 1..ThreadsOf(n, EncMem, EncThreads, b) |->
                     LET off == E!Offset(b - 1, t_ - 1)
                     IN  SubSeq(s, off + 1, off + E!ReadLen(n, b - 1, t_ - 1))]] = seqs
      BY <1>4 DEF InBatches
    <2> QED
      BY <2>1, <2>2
  <1>7. FlattenSeq(seqs) \in Seq(Seq(S)) /\ AreTerms(FlattenSeq(seqs), N, x)
    <2> HIDE DEF n, seqs
    <2> QED
      BY <1>0, <1>1, Batches DEF seqs
  <1> QED
    BY <1>6, <1>7 DEF x, AreTerms

(* The chunks of a file have lengths.                                      *)
LEMMA ChunkLensType ==
    ASSUME NEW n \in Nat
    PROVE  ChunkLens(n) \in Seq(Nat)
  <1> DEFINE N == n \div CompMem + 1
             last == LastOf(n, CompMem, CompThreads)
             x == [k \in 1..N |-> EndOf(n, CompMem, k) - (k - 1) * CompMem]
             seqs == InBatches(x, n, CompMem, CompThreads)
  <1>0. CompMem \in Nat \ {0} /\ CompThreads \in Nat \ {0}
    BY CompAssumption
  <1>1. x \in [1..N -> Nat]
    <2>1. ASSUME NEW k \in 1..N
          PROVE  EndOf(n, CompMem, k) - (k - 1) * CompMem \in Nat
      <3> DEFINE end == EndOf(n, CompMem, k)
                 from == (k - 1) * CompMem
      <3>1. end \in Nat /\ from \in Nat /\ from <= end
        <4>1. IsEnd(n, CompMem, k, end)
          BY <1>0, EndsWithin
        <4> QED
          BY <4>1 DEF IsEnd
      <3> HIDE DEF end, from
      <3>2. end - from \in Nat
        BY <3>1
      <3> QED
        BY <3>2 DEF end, from
    <2> QED
      BY <2>1
  <1>2. C!NumBatches(n) = last + 1 /\ last \in Nat
    BY <1>0, BatchCount DEF C!NumBatches, C!max_bytes_per_batch, LastOf
  <1>3. ASSUME NEW b \in 1..(last + 1)
        PROVE  /\ C!LastBatch(n, b - 1) <=> b = last + 1
               /\ C!NumThreads(n, b - 1) = ThreadsOf(n, CompMem, CompThreads, b)
    <2>1. C!LastBatch(n, b - 1) <=> b = last + 1
      <3> HIDE DEF last
      <3> QED
        BY <1>2 DEF C!LastBatch
    <2> QED
      BY <1>2, <2>1 DEF C!NumThreads, C!max_bytes_per_batch, ThreadsOf
  <1>4. ASSUME NEW b \in 1..(last + 1), NEW t_ \in 1..ThreadsOf(n, CompMem, CompThreads, b)
        PROVE  C!ReadLen(n, b - 1, t_ - 1) = x[(b - 1) * CompThreads + t_]
    <2> DEFINE off == C!Offset(b - 1, t_ - 1)
               len == C!ReadLen(n, b - 1, t_ - 1)
               k == (b - 1) * CompThreads + t_
    <2>1. off = (b - 1) * (CompMem * CompThreads) + (t_ - 1) * CompMem
      BY DEF C!Offset, C!max_bytes_per_batch
    <2>2. len = IF b = last + 1 /\ t_ = ThreadsOf(n, CompMem, CompThreads, b)
                THEN n - off ELSE CompMem
      <3> DEFINE nt == ThreadsOf(n, CompMem, CompThreads, b)
      <3>1. t_ \in 1..nt
        OBVIOUS
      <3> HIDE DEF nt
      <3>2. t_ - 1 = nt - 1 <=> t_ = nt
        <4>1. nt \in Nat
          BY <1>0, BatchCount DEF nt
        <4> QED
          BY <3>1, <4>1
      <3>3. C!LastThread(n, b - 1, t_ - 1) <=> (b = last + 1 /\ t_ = nt)
        <4>1. /\ C!LastBatch(n, b - 1) <=> b = last + 1
              /\ C!NumThreads(n, b - 1) = nt
          BY <1>3 DEF nt
        <4> QED
          BY <3>2, <4>1 DEF C!LastThread
      <3> HIDE DEF last
      <3> QED
        BY <3>3 DEF C!ReadLen, nt
    <2>3. ReadsChunk(n, CompMem, CompThreads, k, off, len)
      <3> HIDE DEF off, len
      <3> QED
        BY <1>0, <2>1, <2>2, ThreadReads
    <2>4. off + len = EndOf(n, CompMem, k) /\ off = (k - 1) * CompMem /\ k \in 1..N
      BY <2>3 DEF ReadsChunk
    <2>5. (k - 1) * CompMem \in Int /\ len \in Int
      <3>1. (k - 1) * CompMem \in Int
        BY <1>0, <2>4
      <3> HIDE DEF off
      <3>2. len \in Int
        BY <1>0, <2>2, <2>4, <3>1
      <3> QED
        BY <3>1, <3>2
    <2> HIDE DEF off, len
    <2>6. len = EndOf(n, CompMem, k) - (k - 1) * CompMem
      <3> DEFINE end == EndOf(n, CompMem, k)
                 from == (k - 1) * CompMem
      <3>1. from + len = end /\ from \in Int /\ len \in Int
        BY <2>4, <2>5
      <3> HIDE DEF end, from
      <3>2. len = end - from
        BY <3>1
      <3> QED
        BY <3>2 DEF end, from
    <2> HIDE DEF k
    <2>7. len = x[k]
      BY <2>4, <2>6
    <2> QED
      BY <2>7 DEF len, k
  <1> HIDE DEF x
  <1>6. ChunkLens(n) = FlattenSeq(seqs)
    <2>1. ChunkLens(n) = FlattenSeq([b \in 1..(last + 1) |->
                     [t_ \in 1..ThreadsOf(n, CompMem, CompThreads, b) |->
                        C!ReadLen(n, b - 1, t_ - 1)]])
      <3> HIDE DEF last
      <3> QED
        BY <1>2, <1>3 DEF ChunkLens
    <2>2. [b \in 1..(last + 1) |-> [t_ \in 1..ThreadsOf(n, CompMem, CompThreads, b) |->
                     C!ReadLen(n, b - 1, t_ - 1)]] = seqs
      BY <1>4 DEF InBatches
    <2> QED
      BY <2>1, <2>2
  <1>7. FlattenSeq(seqs) \in Seq(Nat)
    <2> HIDE DEF seqs
    <2> QED
      BY <1>0, <1>1, Batches DEF seqs
  <1> QED
    BY <1>6, <1>7

(* What is known of the headers of a file.                                 *)
Header == [compressed : BOOLEAN, orig_size : Nat, proc_size : Nat]
HeadersFit(hs) ==
    /\ hs \in Seq(Header)
    /\ \A k \in 1..Len(hs) : ~hs[k].compressed => hs[k].proc_size = hs[k].orig_size

LEMMA HeadersType ==
    ASSUME NEW n \in Nat, NEW hs \in Headers(n)
    PROVE  HeadersFit(hs)
  <1> DEFINE lens == ChunkLens(n)
  <1>1. lens \in Seq(Nat)
    BY ChunkLensType
  <1>2. hs \in [1..Len(lens) -> UNION {compress_chunk_of_file(lens[k]) : k \in 1..Len(lens)}]
        /\ \A k \in 1..Len(lens) : hs[k] \in compress_chunk_of_file(lens[k])
    BY DEF Headers
  <1> HIDE DEF lens
  <1>3. Len(lens) \in Nat /\ \A k \in 1..Len(lens) : lens[k] \in Nat
    BY <1>1
  <1>4. ASSUME NEW k \in 1..Len(lens)
        PROVE  hs[k] \in Header /\ (~hs[k].compressed => hs[k].proc_size = hs[k].orig_size)
    <2>1. hs[k] \in compress_chunk_of_file(lens[k]) /\ lens[k] \in Nat /\ PropsLen \in Nat
      BY <1>2, <1>3, CompAssumption
    <2>2. CASE hs[k] = [compressed |-> FALSE, orig_size |-> lens[k], proc_size |-> lens[k]]
      BY <2>1, <2>2 DEF Header
    <2>3. CASE \E outbuf_len \in 1..(lens[k] - PropsLen - 1) :
                 hs[k] = [compressed |-> TRUE, orig_size |-> lens[k], proc_size |-> outbuf_len]
      BY <2>1, <2>3 DEF Header
    <2> QED
      BY <2>1, <2>2, <2>3 DEF compress_chunk_of_file
  <1>5. hs \in [1..Len(lens) -> Header]
    BY <1>2, <1>4
  <1>6. hs \in Seq(Header) /\ Len(hs) = Len(lens)
    BY <1>3, <1>5
  <1> QED
    BY <1>4, <1>6 DEF HeadersFit

(* Where the record of each chunk ends in what comp_file writes.           *)
Starts(hs) ==
    LET start[k \in 0..Len(hs)] == IF k = 0 THEN 0 ELSE start[k - 1] + RecordLen(hs[k])
    IN  start

LEMMA RecordLenType ==
    ASSUME NEW h \in Header
    PROVE  /\ num_props_bytes(h) \in Nat /\ EC_HEADER_SIZE \in Nat \ {0}
           /\ RecordLen(h) = EC_HEADER_SIZE + (num_props_bytes(h) + h.proc_size)
           /\ RecordLen(h) \in Nat \ {0} /\ RecordLen(h) >= EC_HEADER_SIZE
  <1>1. num_props_bytes(h) \in Nat /\ h.proc_size \in Nat
    BY CompAssumption DEF num_props_bytes, Header
  <1>2. EC_HEADER_SIZE \in Nat \ {0}
    BY CompAssumption DEF EC_HEADER_SIZE
  <1> QED
    BY <1>1, <1>2 DEF RecordLen

Bytes == Nat \X Nat

(* comp_file's stream, byte by byte.                                       *)
IsCompFile(s, hs) ==
    /\ s \in Seq(Bytes) /\ Len(s) = Starts(hs)[Len(hs)]
    /\ AreSums(Starts(hs), Len(hs), [k \in 1..Len(hs) |-> RecordLen(hs[k])])
    /\ \A k \in 1..Len(hs) : \A at \in 1..RecordLen(hs[k]) :
         s[Starts(hs)[k - 1] + at] = Byte(k, at)

LEMMA StartsAreSums ==
    ASSUME NEW hs \in Seq(Header)
    PROVE  AreSums(Starts(hs), Len(hs), [k \in 1..Len(hs) |-> RecordLen(hs[k])])
  <1> DEFINE n == Len(hs)
             lens == [k \in 1..n |-> RecordLen(hs[k])]
             start == CHOOSE f : f = [k \in 0..n |-> IF k = 0 THEN 0 ELSE f[k - 1] + RecordLen(hs[k])]
  <1>0. n \in Nat /\ \A k \in 1..n : hs[k] \in Header
    OBVIOUS
  <1> HIDE DEF n
  <1>1. lens \in [1..n -> Nat]
    BY <1>0, RecordLenType
  <1>2. PICK P : AreSums(P, n, lens)
    <2> HIDE DEF lens
    <2> QED
      BY <1>0, <1>1, SumsExist
  <1>3. P = [k \in 0..n |-> IF k = 0 THEN 0 ELSE P[k - 1] + RecordLen(hs[k])]
    <2>1. \A k \in 0..n : P[k] = IF k = 0 THEN 0 ELSE P[k - 1] + RecordLen(hs[k])
      BY <1>2 DEF AreSums
    <2>2. P = [k \in 0..n |-> P[k]]
      BY <1>2 DEF AreSums
    <2> QED
      BY <2>1, <2>2
  <1>4. start = [k \in 0..n |-> IF k = 0 THEN 0 ELSE start[k - 1] + RecordLen(hs[k])]
    BY <1>3
  <1>5. Starts(hs) = start
    BY DEF Starts, n
  <1> HIDE DEF start
  <1>6. start[0] = 0
    BY <1>0, <1>4
  <1>7. \A k \in 1..n : start[k] = start[k - 1] + lens[k] /\ lens[k] \in Nat
    BY <1>0, <1>1, <1>4
  <1>8. start \in [0..n -> Nat]
    <2> DEFINE T == {k \in Nat : k <= n => start[k] \in Nat}
    <2>1. 0 \in T
      BY <1>6
    <2>2. ASSUME NEW k \in Nat, k \in T PROVE k + 1 \in T
      <3>1. SUFFICES ASSUME k + 1 <= n PROVE start[k + 1] \in Nat
        OBVIOUS
      <3>2. start[k] \in Nat /\ k + 1 \in 1..n /\ (k + 1) - 1 = k
        BY <1>0, <2>2, <3>1
      <3>3. start[k + 1] = start[(k + 1) - 1] + lens[k + 1] /\ lens[k + 1] \in Nat
        BY <1>7, <3>2
      <3> QED
        BY <3>2, <3>3
    <2> HIDE DEF T
    <2>3. \A k \in Nat : k \in T
      BY <2>1, <2>2, SetInduction
    <2>4. \A k \in 0..n : start[k] \in Nat
      BY <2>3 DEF T
    <2> QED
      BY <1>4, <2>4
  <1>9. AreSums(start, n, lens)
    BY <1>6, <1>7, <1>8 DEF AreSums
  <1> QED
    BY <1>5, <1>9 DEF n

LEMMA CompFileIs ==
    ASSUME NEW hs \in Seq(Header)
    PROVE  IsCompFile(comp_file(hs), hs)
  <1> DEFINE n == Len(hs)
             lens == [k \in 1..n |-> RecordLen(hs[k])]
             seqs == [k \in 1..n |-> [at \in 1..RecordLen(hs[k]) |-> Byte(k, at)]]
             P == Starts(hs)
  <1>1. AreSums(P, n, lens)
    BY StartsAreSums
  <1>0. n \in Nat /\ \A k \in 1..n : hs[k] \in Header
    OBVIOUS
  <1>2. ASSUME NEW k \in 1..n
        PROVE  /\ seqs[k] \in Seq(Bytes) /\ Len(seqs[k]) = RecordLen(hs[k])
               /\ \A at \in 1..RecordLen(hs[k]) : seqs[k][at] = Byte(k, at)
    <2> DEFINE u == [at \in 1..RecordLen(hs[k]) |-> Byte(k, at)]
    <2>1. RecordLen(hs[k]) \in Nat
      BY <1>0, RecordLenType
    <2>2. \A at \in 1..RecordLen(hs[k]) : Byte(k, at) \in Bytes
      BY <1>0, <2>1 DEF Byte, Bytes
    <2>3. u \in Seq(Bytes) /\ Len(u) = RecordLen(hs[k])
      BY <2>1, <2>2
    <2>4. seqs[k] = u
      OBVIOUS
    <2> QED
      BY <2>3, <2>4
  <1>3. seqs \in [1..n -> Seq(Bytes)]
    BY <1>2
  <1>4. \A k \in 1..n : lens[k] = Len(seqs[k])
    BY <1>2
  <1>5. comp_file(hs) = FlattenSeq(seqs)
    BY DEF comp_file
  <1> HIDE DEF n, lens, seqs, P
  <1>6. FlattenSeq(seqs) \in Seq(Bytes) /\ AreParts(FlattenSeq(seqs), n, seqs, P)
    BY <1>0, <1>1, <1>3, <1>4, FlattenAt
  <1>7. ASSUME NEW k \in 1..n, NEW at \in 1..RecordLen(hs[k])
        PROVE  FlattenSeq(seqs)[P[k - 1] + at] = Byte(k, at)
    BY <1>2, <1>6 DEF AreParts
  <1> QED
    BY <1>1, <1>5, <1>6, <1>7 DEF IsCompFile, AreParts, n, P, lens

(* u is the part of s of the given length after the given place.            *)
IsPart(u, S, s, off, len) ==
    u \in Seq(S) /\ Len(u) = len /\ \A i \in 1..len : u[i] = s[off + i]

LEMMA PartIs ==
    ASSUME NEW S, NEW s \in Seq(S), NEW off \in Nat, NEW len \in Nat, off + len <= Len(s)
    PROVE  IsPart(SubSeq(s, off + 1, off + len), S, s, off, len)
  <1>1. \A y \in off + 1..off + len : s[y] \in S
    <2>1. \A y \in 1..Len(s) : s[y] \in S
      BY ElementOfSeq
    <2>2. Len(s) \in Nat
      OBVIOUS
    <2> QED
      BY <2>1, <2>2
  <1>2. off + 1 \in Int /\ off + len \in Int
    OBVIOUS
  <1> DEFINE u == SubSeq(s, off + 1, off + len)
  <1>3. /\ u \in Seq(S) /\ Len(u) = IF off + 1 <= off + len THEN (off + len) - (off + 1) + 1 ELSE 0
        /\ \A i \in 1..((off + len) - (off + 1) + 1) : u[i] = s[(off + 1) + i - 1]
    BY <1>1, <1>2, SubSeqProperties
  <1> HIDE DEF u
  <1>4. Len(u) = len
    BY <1>3
  <1>5. \A i \in 1..len : u[i] = s[off + i]
    <2>1. (off + len) - (off + 1) + 1 = len
      OBVIOUS
    <2>2. \A i \in 1..len : (off + 1) + i - 1 = off + i
      OBVIOUS
    <2> QED
      BY <1>3, <2>1, <2>2
  <1> QED
    BY <1>3, <1>4, <1>5 DEF IsPart, u

(* The place of byte j of block i.                                         *)
Place(i, j) == (i - 1) * Block + j

LEMMA PlaceIn ==
    ASSUME NEW c \in Nat, NEW i \in 1..c, NEW j \in 1..Block
    PROVE  Place(i, j) \in 1..(c * Block) /\ (i - 1) * Block \in Nat
           /\ i * Block = (i - 1) * Block + Block /\ i * Block <= c * Block /\ c * Block \in Nat
  <1>0. Block \in Nat \ {0}
    BY CryptAssumption
  <1> DEFINE d == c - i
             e == i - 1
  <1>1. d \in Nat /\ e \in Nat /\ i = e + 1 /\ c = (e + 1) + d /\ i - 1 = e
    OBVIOUS
  <1> HIDE DEF d, e
  <1>2. /\ Block * c = Block * (e + 1) + Block * d /\ Block * (e + 1) = Block * e + Block * 1
        /\ Block * d \in Nat /\ Block * e \in Nat
    BY <1>0, <1>1, TimesPlus
  <1>3. c * Block = Block * c /\ e * Block = Block * e /\ i * Block = Block * (e + 1)
    BY <1>0, <1>1, TimesPlus
  <1> QED
    BY <1>0, <1>1, <1>2, <1>3 DEF Place

(* Block i, of so many that a sequence has.                                *)
LEMMA BlockIs ==
    ASSUME NEW S, NEW s \in Seq(S), NEW c \in Nat, c * Block <= Len(s), NEW i \in 1..c
    PROVE  IsPart(BlockAt(s, i), S, s, (i - 1) * Block, Block)
  <1>0. Block \in Nat \ {0}
    BY CryptAssumption
  <1>1. /\ (i - 1) * Block \in Nat /\ i * Block = (i - 1) * Block + Block
        /\ i * Block <= c * Block /\ c * Block \in Nat
    <2>1. 1 \in 1..Block
      BY <1>0
    <2> QED
      BY <2>1, PlaceIn
  <1> DEFINE off == (i - 1) * Block
  <1>2. off \in Nat /\ i * Block = off + Block /\ off + Block <= Len(s)
    <2> DEFINE all == c * Block
               end == i * Block
    <2>1. off \in Nat /\ end = off + Block /\ end <= all /\ all \in Nat /\ all <= Len(s)
          /\ Len(s) \in Nat
      BY <1>1
    <2> HIDE DEF all, end, off
    <2>2. off + Block <= Len(s)
      BY <1>0, <2>1
    <2> QED
      BY <2>1, <2>2 DEF end
  <1>3. BlockAt(s, i) = SubSeq(s, off + 1, off + Block)
    BY <1>2 DEF BlockAt
  <1> HIDE DEF off
  <1>4. IsPart(BlockAt(s, i), S, s, off, Block)
    BY <1>0, <1>2, <1>3, PartIs
  <1> QED
    BY <1>4 DEF off

LEMMA SamePart ==
    ASSUME NEW S, NEW u, NEW v, NEW s, NEW r, NEW off, NEW off2, NEW len,
           IsPart(u, S, s, off, len), IsPart(v, S, r, off2, len),
           \A i \in 1..len : s[off + i] = r[off2 + i]
    PROVE  u = v
  <1>1. u \in Seq(S) /\ v \in Seq(S) /\ Len(u) = Len(v) /\ Len(u) = len
        /\ \A i \in 1..len : u[i] = s[off + i] /\ v[i] = r[off2 + i]
    BY DEF IsPart
  <1>2. \A i \in 1..Len(u) : u[i] = v[i]
    BY <1>1
  <1> QED
    BY <1>1, <1>2, SeqEqual

(* Whole blocks of one sequence, the same as those of another from block   *)
(* number at + 1 on.                                                       *)
LEMMA SameBlock ==
    ASSUME NEW S, NEW s \in Seq(S), NEW c \in Nat, c * Block <= Len(s), NEW i \in 1..c,
           NEW r \in Seq(S), NEW d \in Nat, d * Block <= Len(r), NEW at \in Nat, at + i \in 1..d,
           \A y \in 1..(c * Block) : s[y] = r[at * Block + y]
    PROVE  BlockAt(s, i) = BlockAt(r, at + i)
  <1>0. Block \in Nat \ {0}
    BY CryptAssumption
  <1> DEFINE k == at + i
  <1>1. IsPart(BlockAt(s, i), S, s, (i - 1) * Block, Block)
    BY BlockIs
  <1>2. k \in 1..d
    OBVIOUS
  <1>3. IsPart(BlockAt(r, k), S, r, (k - 1) * Block, Block)
    <2> HIDE DEF k
    <2> QED
      BY <1>2, BlockIs
  <1>4. (k - 1) * Block = at * Block + (i - 1) * Block
        /\ at * Block \in Nat /\ (i - 1) * Block \in Nat
    <2> DEFINE e == i - 1
    <2>1. e \in Nat /\ k - 1 = at + e
      OBVIOUS
    <2> HIDE DEF e, k
    <2>2. Block * (at + e) = Block * at + Block * e /\ Block * at = at * Block
          /\ at * Block \in Nat /\ Block * e = e * Block /\ e * Block \in Nat
      BY <1>0, <2>1, TimesPlus
    <2>3. (at + e) * Block = Block * (at + e)
      <3>1. at + e \in Nat
        BY <2>1
      <3> QED
        BY <1>0, <3>1, TimesPlus
    <2> QED
      BY <2>1, <2>2, <2>3 DEF e
  <1> HIDE DEF k
  <1>5. ASSUME NEW j \in 1..Block PROVE s[(i - 1) * Block + j] = r[(k - 1) * Block + j]
    <2> DEFINE y == (i - 1) * Block + j
    <2>1. y \in 1..(c * Block)
      BY PlaceIn DEF Place
    <2>2. at * Block + y = (k - 1) * Block + j
      BY <1>4
    <2> HIDE DEF y
    <2>3. s[y] = r[at * Block + y]
      BY <2>1
    <2> QED
      BY <2>2, <2>3 DEF y
  <1>6. BlockAt(s, i) = BlockAt(r, k)
    BY <1>1, <1>3, <1>5, SamePart
  <1> QED
    BY <1>6 DEF k

(* So many blocks, one after the other.                                    *)
AreBlocks(f, c, seqs) ==
    Len(f) = c * Block /\ \A i \in 1..c : \A j \in 1..Block : f[Place(i, j)] = seqs[i][j]

LEMMA FlattenBlocks ==
    ASSUME NEW S, NEW c \in Nat, NEW seqs \in [1..c -> Seq(S)],
           \A i \in 1..c : Len(seqs[i]) = Block
    PROVE  FlattenSeq(seqs) \in Seq(S) /\ AreBlocks(FlattenSeq(seqs), c, seqs)
  <1>0. Block \in Nat \ {0}
    BY CryptAssumption
  <1> DEFINE P == [k \in 0..c |-> k * Block]
             lens == [k \in 1..c |-> Block]
  <1>1. AreSums(P, c, lens)
    <2>1. ASSUME NEW k \in 1..c PROVE P[k] = P[k - 1] + lens[k] /\ lens[k] \in Nat
      <3>1. 1 \in 1..Block
        BY <1>0
      <3>2. k * Block = (k - 1) * Block + Block
        BY <3>1, PlaceIn
      <3>3. P[k] = k * Block /\ P[k - 1] = (k - 1) * Block /\ lens[k] = Block
        OBVIOUS
      <3> QED
        BY <1>0, <3>2, <3>3
    <2>2. P \in [0..c -> Nat]
      BY <1>0, TimesPlus
    <2>3. P[0] = 0
      BY <1>0
    <2> QED
      BY <2>1, <2>2, <2>3 DEF AreSums
  <1>2. \A k \in 1..c : lens[k] = Len(seqs[k])
    OBVIOUS
  <1>3. P[c] = c * Block /\ \A k \in 1..c : P[k - 1] = (k - 1) * Block
    OBVIOUS
  <1> HIDE DEF P, lens
  <1>4. FlattenSeq(seqs) \in Seq(S) /\ AreParts(FlattenSeq(seqs), c, seqs, P)
    BY <1>1, <1>2, FlattenAt
  <1> QED
    BY <1>3, <1>4 DEF AreParts, AreBlocks, Place

Coded == {"encrypted"} \X Seq(Bytes) \X (1..Block)

(* f is text encrypted, which has whole blocks.                             *)
EncryptedAs(f, text) ==
    /\ f \in Seq(Coded) /\ text \in Seq(Bytes) /\ Len(f) = Len(text)
    /\ Len(text) = (Len(text) \div Block) * Block /\ Len(text) \div Block \in Nat
    /\ \A i \in 1..(Len(text) \div Block) : \A j \in 1..Block :
         f[Place(i, j)] = <<"encrypted", BlockAt(text, i), j>>

LEMMA EncryptIs ==
    ASSUME NEW text \in Seq(Bytes)
    PROVE  /\ Encrypt(text) \in Seq(Coded) /\ Len(Encrypt(text)) = Block
           /\ \A j \in 1..Block : Encrypt(text)[j] = <<"encrypted", text, j>>
  <1>1. Block \in Nat
    BY CryptAssumption
  <1>2. \A j \in 1..Block : <<"encrypted", text, j>> \in Coded
    BY DEF Coded
  <1> DEFINE u == [j \in 1..Block |-> <<"encrypted", text, j>>]
  <1>3. u \in Seq(Coded) /\ Len(u) = Block
    BY <1>1, <1>2
  <1>4. Encrypt(text) = u
    BY DEF Encrypt
  <1> QED
    BY <1>3, <1>4

(* A multiple of the block size is that many blocks.                        *)
LEMMA WholeBlocks ==
    ASSUME NEW n \in Nat, n % Block = 0
    PROVE  n = (n \div Block) * Block /\ n \div Block \in Nat
  <1>1. Block \in Nat \ {0}
    BY CryptAssumption
  <1> DEFINE q == n \div Block
  <1>2. q \in Nat /\ n = Block * q + (n % Block)
    BY <1>1, Remainder
  <1> HIDE DEF q
  <1>3. Block * q = q * Block /\ Block * q \in Nat
    BY <1>1, <1>2, TimesPlus
  <1> QED
    BY <1>2, <1>3 DEF q

LEMMA EncryptBlocks ==
    ASSUME NEW text \in Seq(Bytes), Len(text) % Block = 0
    PROVE  EncryptedAs(FlattenSeq([i \in 1..(Len(text) \div Block) |-> Encrypt(BlockAt(text, i))]),
                       text)
  <1> DEFINE c == Len(text) \div Block
             seqs == [i \in 1..c |-> Encrypt(BlockAt(text, i))]
             f == FlattenSeq(seqs)
  <1>1. Len(text) = c * Block /\ c \in Nat
    <2> DEFINE n == Len(text)
    <2>1. n \in Nat /\ n % Block = 0
      OBVIOUS
    <2> HIDE DEF n
    <2>2. n = (n \div Block) * Block /\ n \div Block \in Nat
      BY <2>1, WholeBlocks
    <2> QED
      BY <2>2 DEF n
  <1> HIDE DEF c
  <1>2. ASSUME NEW i \in 1..c
        PROVE  /\ BlockAt(text, i) \in Seq(Bytes) /\ seqs[i] \in Seq(Coded) /\ Len(seqs[i]) = Block
               /\ \A j \in 1..Block : seqs[i][j] = <<"encrypted", BlockAt(text, i), j>>
    <2>1. IsPart(BlockAt(text, i), Bytes, text, (i - 1) * Block, Block)
      <3>1. c * Block <= Len(text)
        BY <1>1
      <3> QED
        BY <1>1, <3>1, BlockIs
    <2>2. BlockAt(text, i) \in Seq(Bytes)
      BY <2>1 DEF IsPart
    <2>3. seqs[i] = Encrypt(BlockAt(text, i))
      OBVIOUS
    <2> HIDE DEF seqs
    <2> QED
      BY <2>2, <2>3, EncryptIs
  <1>3. seqs \in [1..c -> Seq(Coded)]
    BY <1>2
  <1> HIDE DEF seqs
  <1>4. f \in Seq(Coded) /\ AreBlocks(f, c, seqs)
    BY <1>1, <1>2, <1>3, FlattenBlocks
  <1> HIDE DEF f
  <1>5. EncryptedAs(f, text)
    <2>1. \A i \in 1..c : \A j \in 1..Block : f[Place(i, j)] = <<"encrypted", BlockAt(text, i), j>>
      BY <1>2, <1>4 DEF AreBlocks
    <2> QED
      BY <1>1, <1>4, <2>1 DEF AreBlocks, EncryptedAs, c
  <1> QED
    BY <1>5 DEF f, seqs, c

(* Block place of chunk and of block within the chunk.                      *)
LEMMA PlaceInChunk ==
    ASSUME NEW q \in Nat, EncMem = Block * q, NEW b \in Nat, NEW i \in Nat, NEW j \in Nat
    PROVE  b * EncMem + Place(i, j) = Place(b * q + i, j) /\ b * EncMem = (b * q) * Block
           /\ b * q \in Nat
  <1>0. Block \in Nat \ {0}
    BY CryptAssumption
  <1>1. b * (Block * q) = Block * (b * q) /\ b * q \in Nat
    BY <1>0, TimesSwap, TimesPlus
  <1> DEFINE u == b * q
  <1>2. b * EncMem = Block * u /\ u \in Nat
    BY <1>1
  <1> HIDE DEF u
  <1>3. Block * u = u * Block /\ u * Block \in Nat
    BY <1>0, <1>2, TimesPlus
  <1>4. ((u + i) - 1) * Block = u * Block + (i - 1) * Block /\ (i - 1) * Block \in Int
    <2>1. CASE i = 0
      <3>1. (i - 1) * Block = 0 - Block
        BY <1>0, <2>1
      <3>2. CASE u = 0
        BY <1>0, <2>1, <3>2
      <3>3. CASE u # 0
        <4> DEFINE e == u - 1
        <4>1. e \in Nat /\ u = e + 1 /\ (u + i) - 1 = e
          BY <1>2, <2>1, <3>3
        <4> HIDE DEF e
        <4>2. Block * (e + 1) = Block * e + Block * 1 /\ Block * e = e * Block
              /\ Block * (e + 1) = (e + 1) * Block /\ e * Block \in Nat
          BY <1>0, <4>1, TimesPlus
        <4> QED
          BY <1>0, <3>1, <4>1, <4>2
      <3> QED
        BY <3>2, <3>3
    <2>2. CASE i # 0
      <3> DEFINE e == i - 1
      <3>1. e \in Nat /\ (u + i) - 1 = u + e /\ i - 1 = e
        BY <1>2, <2>2
      <3> HIDE DEF e
      <3>2. Block * (u + e) = Block * u + Block * e /\ Block * u = u * Block /\ Block * e = e * Block
            /\ e * Block \in Nat
        BY <1>0, <1>2, <3>1, TimesPlus
      <3>3. (u + e) * Block = Block * (u + e)
        <4>1. u + e \in Nat
          BY <1>2, <3>1
        <4> QED
          BY <1>0, <4>1, TimesPlus
      <3> QED
        BY <1>3, <3>1, <3>2, <3>3
    <2> QED
      BY <2>1, <2>2
  <1>5. b * EncMem + Place(i, j) = Place(u + i, j)
    <2> DEFINE x == (i - 1) * Block
               y == ((u + i) - 1) * Block
               z == u * Block
    <2>1. b * EncMem = z /\ y = z + x /\ x \in Int /\ z \in Nat
      BY <1>2, <1>3, <1>4
    <2> HIDE DEF x, y, z
    <2>2. z + (x + j) = y + j
      BY <2>1
    <2> QED
      BY <2>1, <2>2 DEF Place, x, y
  <1> QED
    BY <1>2, <1>3, <1>5 DEF u

(* A block of a piece that starts at a chunk is a block of the whole.       *)
LEMMA PieceBlock ==
    ASSUME NEW q \in Nat, EncMem = Block * q, NEW a \in Nat,
           NEW S, NEW text \in Seq(S), NEW c \in Nat, c * Block <= Len(text),
           NEW v, NEW len \in Nat, IsPart(v, S, text, a * EncMem, len),
           NEW cb \in Nat, cb * Block <= len,
           NEW h \in 1..cb, a * q + h \in 1..c, NEW j \in 1..Block
    PROVE  /\ BlockAt(v, h) = BlockAt(text, a * q + h)
           /\ a * EncMem + Place(h, j) = Place(a * q + h, j)
           /\ Place(h, j) \in 1..len
  <1>0. Block \in Nat \ {0} /\ h \in Nat /\ j \in Nat
    BY CryptAssumption
  <1>1. /\ a * EncMem + Place(h, j) = Place(a * q + h, j) /\ a * EncMem = (a * q) * Block
        /\ a * q \in Nat
    BY <1>0, PlaceInChunk
  <1> DEFINE at == a * q
  <1>2. v \in Seq(S) /\ Len(v) = len /\ \A y \in 1..len : v[y] = text[at * Block + y]
    BY <1>1 DEF IsPart
  <1>3. at \in Nat /\ at + h \in 1..c
    BY <1>1
  <1> HIDE DEF at
  <1>4. cb * Block \in Nat /\ cb * Block <= Len(v)
    BY <1>0, <1>2, TimesPlus
  <1>5. \A y \in 1..(cb * Block) : v[y] = text[at * Block + y]
    <2> DEFINE n == cb * Block
    <2>1. n \in Nat /\ n <= len
      BY <1>4
    <2> HIDE DEF n
    <2>2. \A y \in 1..n : v[y] = text[at * Block + y]
      BY <1>2, <2>1
    <2> QED
      BY <2>2 DEF n
  <1>6. BlockAt(v, h) = BlockAt(text, at + h)
    BY <1>2, <1>3, <1>4, <1>5, SameBlock, SMTT(60)
  <1>7. Place(h, j) \in 1..len
    <2>1. Place(h, j) \in 1..(cb * Block)
      BY PlaceIn
    <2> DEFINE n == cb * Block
    <2>2. n \in Nat /\ n <= len /\ Place(h, j) \in 1..n
      BY <1>4, <2>1
    <2> HIDE DEF n
    <2> QED
      BY <2>2
  <1> QED
    BY <1>1, <1>6, <1>7 DEF at

(* Chunks encrypted one by one are the whole encrypted.                     *)
LEMMA PiecesEncrypted ==
    ASSUME EncMem % Block = 0,
           NEW text \in Seq(Bytes), NEW last \in Nat, NEW nt \in Nat, nt % Block = 0,
           Len(text) = last * EncMem + nt,
           NEW texts, NEW seqs \in [1..(last + 1) -> Seq(Coded)],
           \A b \in 1..(last + 1) :
             /\ IsPart(texts[b], Bytes, text, (b - 1) * EncMem,
                       IF b = last + 1 THEN nt ELSE EncMem)
             /\ EncryptedAs(seqs[b], texts[b])
    PROVE  EncryptedAs(FlattenSeq(seqs), text)
  <1> DEFINE q == EncMem \div Block
             nq == nt \div Block
             f == FlattenSeq(seqs)
             c == last * q + nq
  <1>0. EncMem \in Nat \ {0} /\ Block \in Nat \ {0}
    BY CryptAssumption
  <1>1. EncMem = q * Block /\ EncMem = Block * q /\ q \in Nat \ {0} /\ nt = nq * Block /\ nq \in Nat
    <2>1. EncMem = q * Block /\ q \in Nat
      BY <1>0, WholeBlocks
    <2>2. nt = nq * Block /\ nq \in Nat
      BY WholeBlocks
    <2> HIDE DEF q, nq
    <2>3. q * Block = Block * q /\ (q = 0 => q * Block = 0)
      BY <1>0, <2>1, TimesPlus
    <2> QED
      BY <1>0, <2>1, <2>2, <2>3
  <1> HIDE DEF q, nq
  <1>2. \A b \in 1..(last + 1) : Len(seqs[b]) = IF b = last + 1 THEN nt ELSE EncMem
    BY DEF IsPart, EncryptedAs
  <1>3. f \in Seq(Coded) /\ AreBatches(f, last, EncMem, nt, seqs)
    <2>1. (\A b \in 1..last : Len(seqs[b]) = EncMem) /\ Len(seqs[last + 1]) = nt
      <3>1. last + 1 \in 1..(last + 1) /\ \A b \in 1..last : b \in 1..(last + 1) /\ b # last + 1
        OBVIOUS
      <3> QED
        BY <1>2, <3>1, Zenon
    <2> QED
      BY <1>0, <2>1, FlattenBatches
  <1> HIDE DEF f
  <1>4. Len(text) = c * Block /\ c \in Nat /\ Len(text) \div Block = c
    <2>1. last * EncMem = (last * q) * Block /\ last * q \in Nat
      BY <1>1, PlaceInChunk
    <2> DEFINE u == last * q
    <2>2. Len(text) = u * Block + nq * Block /\ u \in Nat
      BY <1>1, <2>1
    <2>3. c = u + nq
      OBVIOUS
    <2> HIDE DEF u, c
    <2>4. Block * (u + nq) = Block * u + Block * nq /\ Block * u = u * Block /\ Block * nq = nq * Block
          /\ Block * (u + nq) \in Nat
      <3>1. u + nq \in Nat
        BY <1>1, <2>2
      <3> QED
        BY <1>0, <1>1, <2>2, <3>1, TimesPlus
    <2>5. c \in Nat /\ Block * c = c * Block
      <3>1. c \in Nat
        BY <1>1, <2>2, <2>3
      <3> QED
        BY <1>0, <3>1, TimesPlus
    <2>6. Len(text) = Block * c + 0 /\ Len(text) \in Nat
      BY <2>2, <2>3, <2>4
    <2>7. Len(text) \div Block = c
      <3> DEFINE n == Len(text)
      <3>3. n \in Nat /\ n = Block * c + 0
        BY <2>6
      <3>4. 0 \in 0..(Block - 1)
        BY <1>0
      <3> HIDE DEF n
      <3>1. n \in Nat /\ n = Block * c + 0 /\ 0 \in 0..(Block - 1)
        BY <3>3, <3>4
      <3>2. n \div Block = c
        BY <1>0, <2>5, <3>1, OnlyQuotient
      <3> QED
        BY <3>2 DEF n
    <2> QED
      BY <2>5, <2>6, <2>7, <2>4, <2>3
  <1> HIDE DEF c
  <1>5. ASSUME NEW i \in 1..c, NEW j \in 1..Block
        PROVE  f[Place(i, j)] = <<"encrypted", BlockAt(text, i), j>>
    <2>1. HasThread(i, last, q, nq)
      BY <1>1, ThreadOf DEF c
    <2>11. PICK b \in 1..(last + 1) : \E h \in 1..(IF b = last + 1 THEN nq ELSE q) :
                                         i = (b - 1) * q + h
      BY <2>1 DEF HasThread
    <2>2. PICK h \in 1..(IF b = last + 1 THEN nq ELSE q) : i = (b - 1) * q + h
      BY <2>11
    <2> DEFINE cb == IF b = last + 1 THEN nq ELSE q
               len == IF b = last + 1 THEN nt ELSE EncMem
               a == b - 1
    <2>3. a \in Nat /\ h \in 1..cb /\ cb \in Nat /\ len = cb * Block /\ h \in Nat
      BY <1>1
    <2> HIDE DEF cb
    <2>5. IsPart(texts[b], Bytes, text, a * EncMem, len) /\ EncryptedAs(seqs[b], texts[b])
      OBVIOUS
    <2> DEFINE v == texts[b]
    <2>6. Len(v) = cb * Block
      BY <2>3, <2>5 DEF IsPart
    <2>4. /\ BlockAt(v, h) = BlockAt(text, i)
          /\ a * EncMem + Place(h, j) = Place(i, j)
      <3>1. i = a * q + h /\ i \in 1..c /\ len \in Nat /\ cb * Block <= len /\ c * Block <= Len(text)
        <4>1. len \in Nat /\ Len(text) \in Nat
          BY <1>0
        <4> QED
          BY <1>4, <2>2, <2>3, <4>1
      <3>2. IsPart(v, Bytes, text, a * EncMem, len)
        BY <2>5
      <3> HIDE DEF a, v, len
      <3> DEFINE i2 == a * q + h
      <3>3. i2 = i
        BY <3>1
      <3>4. i2 \in 1..c
        BY <3>1
      <3>6. q \in Nat /\ EncMem = Block * q
        BY <1>1
      <3>7. c \in Nat /\ c * Block <= Len(text)
        BY <1>4, <3>1
      <3>8. len \in Nat /\ cb * Block <= len
        BY <3>1
      <3>9. a \in Nat /\ cb \in Nat /\ h \in 1..cb
        BY <2>3
      <3> HIDE DEF i2
      <3>10. a * q + h \in 1..c /\ i2 = a * q + h
        BY <3>1, <3>4 DEF i2
      <3>5. /\ BlockAt(v, h) = BlockAt(text, a * q + h)
            /\ a * EncMem + Place(h, j) = Place(a * q + h, j)
        BY <3>2, <3>6, <3>7, <3>8, <3>9, <3>10, SMTT(60), PieceBlock
      <3> QED
        BY <3>3, <3>5, <3>10
    <2>8. seqs[b][Place(h, j)] = <<"encrypted", BlockAt(v, h), j>> /\ Len(seqs[b]) = cb * Block
      <3>1. EncryptedAs(seqs[b], v)
        BY <2>5
      <3> HIDE DEF v
      <3>2. Len(v) \div Block = cb
        <4>1. Len(v) = (Len(v) \div Block) * Block /\ Len(v) \div Block \in Nat
          BY <3>1 DEF EncryptedAs
        <4> DEFINE n == Len(v)
        <4>2. n = Block * cb + 0 /\ n \in Nat
          <5>1. cb * Block = Block * cb /\ cb * Block \in Nat
            BY <1>0, <2>3, TimesPlus
          <5> QED
            BY <2>6, <5>1
        <4>4. 0 \in 0..(Block - 1)
          BY <1>0
        <4> HIDE DEF n
        <4>3. n \div Block = cb
          BY <1>0, <2>3, <4>2, <4>4, OnlyQuotient
        <4> QED
          BY <4>3 DEF n
      <3> QED
        BY <2>3, <2>6, <3>1, <3>2 DEF EncryptedAs
    <2>9. Place(h, j) \in 1..Len(seqs[b])
      BY <2>3, <2>8, PlaceIn
    <2>10. f[(b - 1) * EncMem + Place(h, j)] = seqs[b][Place(h, j)]
      BY <1>3, <2>9 DEF AreBatches
    <2> QED
      BY <2>4, <2>8, <2>10
  <1>6. Len(f) = Len(text)
    BY <1>3 DEF AreBatches
  <1> QED
    BY <1>3, <1>4, <1>5, <1>6 DEF EncryptedAs, f

(* A remainder is that of the remainder by a multiple.                      *)
LEMMA ModMod ==
    ASSUME EncMem % Block = 0, NEW n \in Nat
    PROVE  (n % EncMem) % Block = n % Block
  <1>0. EncMem \in Nat \ {0} /\ Block \in Nat \ {0}
    BY CryptAssumption
  <1> DEFINE q == EncMem \div Block
             u == n \div EncMem
             v == n % EncMem
             w == v \div Block
             z == v % Block
  <1>1. EncMem = q * Block /\ q \in Nat
    BY <1>0, WholeBlocks
  <1>2. u \in Nat /\ v \in 0..(EncMem - 1) /\ n = EncMem * u + v
    BY <1>0, Remainder
  <1>3. v \in Nat
    BY <1>0, <1>2
  <1> HIDE DEF q, u, v
  <1>4. w \in Nat /\ z \in 0..(Block - 1) /\ v = Block * w + z
    BY <1>0, <1>3, Remainder
  <1> HIDE DEF w, z
  <1>5. EncMem * u = Block * (u * q) /\ u * q \in Nat
    <2>1. u * (Block * q) = Block * (u * q) /\ q * Block = Block * q /\ u * q \in Nat
      BY <1>0, <1>1, <1>2, TimesSwap, TimesPlus
    <2>2. EncMem * u = u * EncMem
      BY <1>0, <1>2, TimesPlus
    <2> QED
      BY <1>1, <2>1, <2>2
  <1> DEFINE x == u * q
  <1>6. Block * (x + w) = Block * x + Block * w /\ x \in Nat /\ Block * w \in Nat /\ Block * x \in Nat
    BY <1>0, <1>4, <1>5, TimesPlus
  <1>7. n = Block * x + (Block * w + z)
    BY <1>2, <1>4, <1>5
  <1> HIDE DEF x
  <1>8. n = Block * (x + w) + z /\ x + w \in Nat
    BY <1>4, <1>6, <1>7
  <1> DEFINE y == x + w
  <1>9. n = Block * y + z /\ y \in Nat
    BY <1>8
  <1> HIDE DEF y
  <1>10. n % Block = z
    BY <1>0, <1>4, <1>9, OnlyQuotient
  <1> QED
    BY <1>10 DEF z, v

(* Cut's chunks are parts of the stream, one after the other.               *)
CutParts(inbufs, S, s, N) ==
    /\ inbufs \in Seq(Seq(S)) /\ Len(inbufs) = N /\ N \in Nat \ {0}
    /\ (N - 1) * EncMem \in Nat /\ Len(s) = (N - 1) * EncMem + (Len(s) % EncMem)
    /\ Len(s) % EncMem \in Nat /\ Len(s) % EncMem < EncMem
    /\ \A k \in 1..N :
         /\ (k - 1) * EncMem \in Nat
         /\ (k - 1) * EncMem + (IF k = N THEN Len(s) % EncMem ELSE EncMem) <= Len(s)
         /\ IsPart(inbufs[k], S, s, (k - 1) * EncMem, IF k = N THEN Len(s) % EncMem ELSE EncMem)

LEMMA CutPartsIs ==
    ASSUME NEW S, NEW s \in Seq(S)
    PROVE  CutParts(Cut(s), S, s, Len(s) \div EncMem + 1)
  <1> DEFINE n == Len(s)
             u == n \div EncMem
             N == u + 1
             v == n % EncMem
  <1>0. EncMem \in Nat \ {0} /\ n \in Nat
    BY CryptAssumption
  <1>1. /\ Cut(s) \in Seq(Seq(S)) /\ Len(Cut(s)) = N
        /\ \A k \in 1..N :
             Cut(s)[k] = SubSeq(s, (k - 1) * EncMem + 1, EndOf(Len(s), EncMem, k))
    BY CutIs
  <1>2. u \in Nat /\ v \in 0..(EncMem - 1) /\ n = EncMem * u + v
    <2> HIDE DEF n
    <2> QED
      BY <1>0, Remainder
  <1>3. EncMem * u = u * EncMem /\ u * EncMem \in Nat
    <2> HIDE DEF u
    <2> QED
      BY <1>0, <1>2, TimesPlus
  <1>4. ASSUME NEW k \in 1..N
        PROVE  /\ (k - 1) * EncMem \in Nat
               /\ (k - 1) * EncMem + (IF k = N THEN v ELSE EncMem) <= n
               /\ IsPart(Cut(s)[k], S, s, (k - 1) * EncMem, IF k = N THEN v ELSE EncMem)
    <2> DEFINE end == EndOf(n, EncMem, k)
               off == (k - 1) * EncMem
               len == IF k = N THEN v ELSE EncMem
    <2>1. IsEnd(n, EncMem, k, end)
      <3> HIDE DEF n
      <3> QED
        BY <1>0, EndsWithin
    <2>2. /\ end \in Nat /\ end <= n /\ off \in Nat /\ off <= end
          /\ end - off = len
      <3> HIDE DEF n
      <3> QED
        BY <2>1 DEF IsEnd
    <2>3. Cut(s)[k] = SubSeq(s, off + 1, end)
      BY <1>1
    <2>4. len \in Nat
      BY <1>0, <1>2
    <2> HIDE DEF end, off, len, n
    <2>5. end = off + len
      BY <2>2, <2>4
    <2>6. off + len <= Len(s)
      BY <2>2, <2>5 DEF n
    <2>7. IsPart(Cut(s)[k], S, s, off, len)
      BY <2>2, <2>3, <2>4, <2>5, <2>6, PartIs
    <2> QED
      BY <2>2, <2>5, <2>7 DEF off, len
  <1>5. N \in Nat \ {0} /\ N - 1 = u
    BY <1>2
  <1>6. v \in Nat /\ v < EncMem
    <2> HIDE DEF v
    <2> QED
      BY <1>0, <1>2
  <1>7. n = (N - 1) * EncMem + v /\ (N - 1) * EncMem \in Nat
    <2> HIDE DEF n, u, v
    <2> QED
      BY <1>2, <1>3, <1>5
  <1> HIDE DEF u
  <1>8. CutParts(Cut(s), S, s, N)
    BY <1>1, <1>4, <1>5, <1>6, <1>7 DEF CutParts
  <1> QED
    BY <1>8 DEF u

(* What encrypt_chunk_of_file encrypts of a chunk.                          *)
TextOf(inbuf) ==
    IF Len(inbuf) % Block # 0 THEN inbuf \o Padding(Block - (Len(inbuf) % Block)) ELSE inbuf
Pads(n) == IF n % Block = 0 THEN 0 ELSE Block - (n % Block)

LEMMA PaddingIs ==
    ASSUME NEW n \in 1..Block
    PROVE  /\ Padding(n) \in Seq(Bytes) /\ Len(Padding(n)) = n
           /\ \A i \in 1..n : Padding(n)[i] = Byte(0, n)
  <1> DEFINE u == [j \in 1..n |-> Byte(0, n)]
  <1>1. n \in Nat /\ Byte(0, n) \in Bytes
    BY DEF Byte, Bytes
  <1>2. u \in Seq(Bytes) /\ Len(u) = n
    BY <1>1
  <1>3. Padding(n) = u
    BY DEF Padding
  <1> QED
    BY <1>2, <1>3

IsTextOf(text, s) ==
    /\ text \in Seq(Bytes) /\ Len(text) = Len(s) + Pads(Len(s)) /\ Len(text) % Block = 0
    /\ Pads(Len(s)) \in Nat /\ Pads(Len(s)) < Block
    /\ \A i \in 1..Len(s) : text[i] = s[i]
    /\ \A i \in 1..Pads(Len(s)) : text[Len(s) + i] = Byte(0, Pads(Len(s)))

LEMMA PadsFill ==
    ASSUME NEW n \in Nat
    PROVE  Pads(n) \in Nat /\ Pads(n) < Block /\ (n + Pads(n)) % Block = 0
  <1> DEFINE q == n \div Block
             z == n % Block
  <1>0. Block \in Nat \ {0}
    BY CryptAssumption
  <1>1. q \in Nat /\ z \in 0..(Block - 1) /\ n = Block * q + z
    BY <1>0, Remainder
  <1>2. Pads(n) = IF z = 0 THEN 0 ELSE Block - z
    BY DEF Pads
  <1> HIDE DEF q, z
  <1>3. CASE z = 0
    <2>1. Pads(n) = 0
      BY <1>2, <1>3
    <2>2. n % Block = 0
      BY <1>3 DEF z
    <2>3. n + Pads(n) = n
      BY <2>1
    <2> QED
      BY <1>0, <2>1, <2>2, <2>3
  <1>4. CASE z # 0
    <2> DEFINE m == n + Pads(n)
               y == q + 1
    <2>1. Block * (q + 1) = Block * q + Block * 1 /\ Block * q \in Nat
      BY <1>0, <1>1, TimesPlus
    <2>2. Pads(n) = Block - z /\ y \in Nat /\ 0 \in 0..(Block - 1)
      BY <1>0, <1>1, <1>2, <1>4
    <2>3. m = Block * y + 0 /\ m \in Nat
      BY <1>0, <1>1, <2>1, <2>2
    <2> HIDE DEF m, y
    <2>4. m % Block = 0
      BY <1>0, <2>2, <2>3, OnlyQuotient
    <2>5. Pads(n) \in Nat /\ Pads(n) < Block
      BY <1>0, <1>1, <1>4, <2>2
    <2> QED
      BY <2>4, <2>5 DEF m
  <1> QED
    BY <1>3, <1>4

LEMMA TextOfIs ==
    ASSUME NEW s \in Seq(Bytes)
    PROVE  IsTextOf(TextOf(s), s)
  <1> DEFINE n == Len(s)
             text == TextOf(s)
  <1>0. Block \in Nat \ {0} /\ n \in Nat
    BY CryptAssumption
  <1>1. Pads(n) \in Nat /\ Pads(n) < Block /\ (n + Pads(n)) % Block = 0
    <2> HIDE DEF n
    <2> QED
      BY <1>0, PadsFill
  <1>2. CASE n % Block = 0
    <2>1. text = s /\ Pads(n) = 0
      BY <1>2 DEF TextOf, Pads
    <2> QED
      BY <1>0, <1>2, <2>1 DEF IsTextOf
  <1>3. CASE n % Block # 0
    <2> DEFINE p == Block - (n % Block)
               v == Padding(p)
    <2>1. p = Pads(n) /\ text = s \o v
      BY <1>3 DEF TextOf, Pads
    <2>2. p \in 1..Block
      <3>1. p \in Nat /\ p # 0 /\ p <= Block
        <4> DEFINE z == n % Block
        <4>1. z \in 0..(Block - 1)
          <5> HIDE DEF n
          <5> QED
            BY <1>0, Remainder
        <4>2. z # 0 /\ p = Block - z
          BY <1>3
        <4> HIDE DEF z, p
        <4> QED
          BY <1>0, <4>1, <4>2
      <3> HIDE DEF p
      <3> QED
        BY <1>0, <3>1
    <2> HIDE DEF p
    <2>3. v \in Seq(Bytes) /\ Len(v) = p /\ \A i \in 1..p : v[i] = Byte(0, p)
      BY <2>2, PaddingIs
    <2>6. text = s \o v
      BY <2>1
    <2> HIDE DEF v, text
    <2>7. v \in Seq(Bytes)
      BY <2>3
    <2>4. /\ text \in Seq(Bytes) /\ Len(text) = Len(s) + Len(v)
          /\ \A i \in 1..Len(s) : text[i] = s[i]
          /\ \A i \in 1..Len(v) : text[Len(s) + i] = v[i]
      BY <2>6, <2>7, Concat
    <2>5. IsTextOf(text, s)
      <3>1. Len(text) = Len(s) + Pads(Len(s))
        BY <2>1, <2>3, <2>4
      <3>2. \A i \in 1..Pads(Len(s)) : text[Len(s) + i] = Byte(0, Pads(Len(s)))
        BY <2>1, <2>3, <2>4
      <3> QED
        BY <1>1, <2>4, <3>1, <3>2 DEF IsTextOf
    <2> QED
      BY <2>5 DEF text
  <1> QED
    BY <1>2, <1>3

LEMMA ChunkEncrypted ==
    ASSUME NEW inbuf \in Seq(Bytes)
    PROVE  /\ EncryptedAs(encrypt_chunk_of_file(inbuf).outbuf, TextOf(inbuf))
           /\ encrypt_chunk_of_file(inbuf).padded <=> Len(inbuf) % Block # 0
  <1> DEFINE text == TextOf(inbuf)
             f == FlattenSeq([i \in 1..(Len(text) \div Block) |-> Encrypt(BlockAt(text, i))])
  <1>1. IsTextOf(text, inbuf)
    BY TextOfIs
  <1>2. text \in Seq(Bytes) /\ Len(text) % Block = 0
    BY <1>1 DEF IsTextOf
  <1>3. encrypt_chunk_of_file(inbuf) = [padded |-> Len(inbuf) % Block # 0, outbuf |-> f]
    BY DEF encrypt_chunk_of_file, TextOf
  <1> HIDE DEF text
  <1>4. EncryptedAs(f, text)
    BY <1>2, EncryptBlocks
  <1> HIDE DEF f
  <1>5. encrypt_chunk_of_file(inbuf).outbuf = f
    BY <1>3
  <1>6. encrypt_chunk_of_file(inbuf).padded = (Len(inbuf) % Block # 0)
    BY <1>3
  <1> QED
    BY <1>4, <1>5, <1>6 DEF text

(* A whole block more.                                                      *)
LEMMA OneMoreBlock ==
    ASSUME NEW f, NEW text, EncryptedAs(f, text), NEW u \in Seq(Bytes), Len(u) = Block
    PROVE  EncryptedAs(f \o Encrypt(u), text \o u)
  <1> DEFINE c == Len(text) \div Block
             g == f \o Encrypt(u)
             tu == text \o u
             v == Encrypt(u)
  <1>0. Block \in Nat \ {0}
    BY CryptAssumption
  <1>1. /\ f \in Seq(Coded) /\ text \in Seq(Bytes) /\ Len(f) = Len(text)
        /\ Len(text) = c * Block /\ c \in Nat
        /\ \A i \in 1..c : \A j \in 1..Block : f[Place(i, j)] = <<"encrypted", BlockAt(text, i), j>>
    BY DEF EncryptedAs
  <1> HIDE DEF c
  <1>2. v \in Seq(Coded) /\ Len(v) = Block /\ \A j \in 1..Block : v[j] = <<"encrypted", u, j>>
    BY EncryptIs
  <1>3. g = f \o v
    OBVIOUS
  <1> HIDE DEF v, g
  <1>12. f \in Seq(Coded) /\ v \in Seq(Coded)
    BY <1>1, <1>2
  <1>4. /\ g \in Seq(Coded) /\ Len(g) = Len(f) + Len(v)
        /\ \A i \in 1..Len(f) : g[i] = f[i]
        /\ \A i \in 1..Len(v) : g[Len(f) + i] = v[i]
    BY <1>3, <1>12, Concat
  <1>13. tu = text \o u
    OBVIOUS
  <1> HIDE DEF tu
  <1>5. /\ tu \in Seq(Bytes) /\ Len(tu) = Len(text) + Len(u)
        /\ \A i \in 1..Len(text) : tu[i] = text[i]
        /\ \A i \in 1..Len(u) : tu[Len(text) + i] = u[i]
    <2>1. text \in Seq(Bytes) /\ u \in Seq(Bytes) /\ tu = text \o u
      BY <1>1, <1>13
    <2>2. Len(tu) = Len(text) + Len(u) /\ tu \in Seq(Bytes)
      BY <2>1, ConcatProperties
    <2>3. \A i \in 1..Len(text) : tu[i] = text[i]
      BY <2>1, Concat
    <2>4. \A i \in 1..Len(u) : tu[Len(text) + i] = u[i]
      BY <2>1, Concat
    <2> QED
      BY <2>2, <2>3, <2>4
  <1> DEFINE d == c + 1
  <1>6. d \in Nat /\ d * Block = c * Block + Block /\ c * Block \in Nat
    <2>1. Block * (c + 1) = Block * c + Block * 1 /\ Block * c = c * Block /\ c * Block \in Nat
      BY <1>0, <1>1, TimesPlus
    <2>2. Block * d = d * Block
      <3>1. d \in Nat
        BY <1>1
      <3> HIDE DEF d
      <3> QED
        BY <1>0, <3>1, TimesPlus
    <2> QED
      BY <1>0, <1>1, <2>1, <2>2
  <1>7. Len(tu) = d * Block /\ Len(g) = d * Block
    BY <1>1, <1>2, <1>4, <1>5, <1>6
  <1>8. Len(tu) \div Block = d
    <2> DEFINE n == Len(tu)
    <2>1. Block * d = d * Block /\ d \in Nat /\ 0 \in 0..(Block - 1)
      BY <1>0, <1>6, TimesPlus
    <2>2. n = Block * d + 0 /\ n \in Nat
      BY <1>6, <1>7, <2>1
    <2> HIDE DEF n, d
    <2>3. n \div Block = d
      BY <1>0, <2>1, <2>2, OnlyQuotient
    <2> QED
      BY <2>3 DEF n
  <1>9. ASSUME NEW i \in 1..d, NEW j \in 1..Block
        PROVE  g[Place(i, j)] = <<"encrypted", BlockAt(tu, i), j>>
    <2>1. CASE i \in 1..c
      <3>1. Place(i, j) \in 1..(c * Block)
        BY <1>1, <2>1, PlaceIn
      <3>2. g[Place(i, j)] = f[Place(i, j)]
        BY <1>1, <1>4, <3>1
      <3>3. BlockAt(text, i) = BlockAt(tu, i)
        <4>1. \A y \in 1..(c * Block) : text[y] = tu[0 * Block + y]
          <5>1. \A y \in 1..(c * Block) : text[y] = tu[y] /\ y \in Nat
            BY <1>1, <1>5
          <5>2. 0 * Block = 0
            BY <1>0
          <5> QED
            BY <5>1, <5>2
        <4>2. c * Block <= Len(text) /\ d * Block <= Len(tu)
          BY <1>1, <1>6, <1>7, <1>0
        <4>3. 0 + i \in 1..d /\ 0 \in Nat /\ 0 + i = i
          BY <1>1, <2>1
        <4> HIDE DEF d
        <4>4. BlockAt(text, i) = BlockAt(tu, 0 + i)
          <5>1. text \in Seq(Bytes) /\ tu \in Seq(Bytes)
            BY <1>1, <1>5
          <5>2. c \in Nat /\ d \in Nat /\ i \in 1..c
            BY <1>1, <1>6, <2>1
          <5> QED
            BY <4>1, <4>2, <4>3, <5>1, <5>2, SameBlock
        <4> QED
          BY <4>3, <4>4
      <3> QED
        BY <1>1, <2>1, <3>2, <3>3
    <2>2. CASE i = d
      <3>1. i - 1 = c
        BY <1>1, <2>2
      <3>2. Place(i, j) = Len(f) + j
        BY <1>1, <3>1 DEF Place
      <3>3. g[Len(f) + j] = <<"encrypted", u, j>>
        BY <1>2, <1>4
      <3>4. IsPart(BlockAt(tu, i), Bytes, tu, c * Block, Block)
        <4>1. d * Block <= Len(tu)
          BY <1>0, <1>6, <1>7
        <4>2. IsPart(BlockAt(tu, i), Bytes, tu, (i - 1) * Block, Block)
          <5> HIDE DEF d
          <5> QED
            BY <1>5, <1>6, <4>1, BlockIs
        <4> QED
          BY <3>1, <4>2
      <3>5. IsPart(u, Bytes, u, 0, Block)
        BY <1>0 DEF IsPart
      <3>6. \A y \in 1..Block : tu[c * Block + y] = u[0 + y]
        BY <1>1, <1>5
      <3>7. BlockAt(tu, i) = u
        BY <3>4, <3>5, <3>6, SamePart
      <3> QED
        BY <3>2, <3>3, <3>7
    <2> QED
      BY <1>1, <2>1, <2>2
  <1> HIDE DEF d
  <1>10. Len(g) = Len(tu) /\ Len(tu) = (Len(tu) \div Block) * Block /\ Len(tu) \div Block \in Nat
    BY <1>6, <1>7, <1>8
  <1>11. EncryptedAs(g, tu)
    BY <1>4, <1>5, <1>8, <1>9, <1>10 DEF EncryptedAs
  <1> QED
    BY <1>11 DEF g, tu, v

(* The chunks' texts are parts of the whole stream's.                       *)
LEMMA TextParts ==
    ASSUME EncMem % Block = 0, NEW s \in Seq(Bytes), NEW inbufs, NEW N,
           CutParts(inbufs, Bytes, s, N), NEW k \in 1..N
    PROVE  IsPart(TextOf(inbufs[k]), Bytes, TextOf(s), (k - 1) * EncMem,
                  IF k = N THEN (Len(s) % EncMem) + Pads(Len(s)) ELSE EncMem)
  <1> DEFINE n == Len(s)
             v == n % EncMem
             off == (k - 1) * EncMem
             len == IF k = N THEN v ELSE EncMem
             text == TextOf(s)
             inbuf == inbufs[k]
             mine == TextOf(inbuf)
  <1>0. EncMem \in Nat \ {0} /\ n \in Nat
    BY CryptAssumption
  <1>1. /\ (N - 1) * EncMem \in Nat /\ n = (N - 1) * EncMem + v /\ v \in Nat
        /\ off \in Nat /\ off + len <= n /\ IsPart(inbuf, Bytes, s, off, len)
    BY DEF CutParts
  <1>2. /\ text \in Seq(Bytes) /\ Len(text) = n + Pads(n) /\ Pads(n) \in Nat
        /\ \A i \in 1..n : text[i] = s[i]
        /\ \A i \in 1..Pads(n) : text[n + i] = Byte(0, Pads(n))
    BY TextOfIs DEF IsTextOf
  <1>3. /\ inbuf \in Seq(Bytes) /\ Len(inbuf) = len /\ \A i \in 1..len : inbuf[i] = s[off + i]
    BY <1>1 DEF IsPart
  <1>4. IsTextOf(mine, inbuf)
    <2> HIDE DEF inbuf
    <2> QED
      BY <1>3, TextOfIs
  <1>5. len \in Nat
    BY <1>0, <1>1
  <1>6. Pads(len) = IF k = N THEN Pads(n) ELSE 0
    <2>1. v % Block = n % Block
      <3> HIDE DEF n
      <3> QED
        BY <1>0, ModMod DEF v
    <2> QED
      BY <2>1 DEF Pads
  <1>7. /\ mine \in Seq(Bytes) /\ Len(mine) = len + Pads(len) /\ Pads(len) \in Nat
        /\ \A i \in 1..len : mine[i] = s[off + i]
        /\ \A i \in 1..Pads(len) : mine[len + i] = Byte(0, Pads(len))
    BY <1>3, <1>4 DEF IsTextOf
  <1>8. k = N => off + len = n
    BY <1>1
  <1> DEFINE all == len + Pads(len)
  <1>9. all = IF k = N THEN v + Pads(n) ELSE EncMem
    BY <1>0, <1>6
  <1> HIDE DEF text, mine, inbuf, len, off, v, n
  <1>10. ASSUME NEW i \in 1..all PROVE mine[i] = text[off + i]
    <2>1. CASE i \in 1..len
      <3>1. off + i \in 1..n
        BY <1>0, <1>1, <1>5, <2>1
      <3> QED
        BY <1>2, <1>7, <2>1, <3>1
    <2>2. CASE ~(i \in 1..len)
      <3>1. k = N /\ Pads(len) = Pads(n)
        BY <1>5, <1>6, <2>2
      <3> DEFINE j == i - len
      <3>2. j \in 1..Pads(len) /\ i = len + j /\ off + i = n + j
        BY <1>1, <1>5, <1>7, <1>8, <2>2, <3>1
      <3> HIDE DEF j
      <3> QED
        BY <1>2, <1>7, <3>1, <3>2
    <2> QED
      BY <2>1, <2>2
  <1>11. IsPart(mine, Bytes, text, off, all)
    BY <1>7, <1>10 DEF IsPart
  <1> QED
    BY <1>9, <1>11 DEF n, v, off, text, mine, inbuf

(* enc_file's stream: the bytes given to it and their padding, encrypted.   *)
IsEncFile(f, s) == EncryptedAs(f, s \o Padding(Block - (Len(s) % Block)))

LEMMA EncFileIs ==
    ASSUME EncMem % Block = 0, NEW s \in Seq(Bytes)
    PROVE  IsEncFile(enc_file(s), s)
  <1> DEFINE n == Len(s)
             N == n \div EncMem + 1
             inbufs == Cut(s)
             seqs == [k \in 1..Len(inbufs) |-> encrypt_chunk_of_file(inbufs[k]).outbuf]
             texts == [k \in 1..N |-> TextOf(inbufs[k])]
             f == FlattenSeq(seqs)
             last == N - 1
             nt == (n % EncMem) + Pads(n)
             text == TextOf(s)
  <1>0. Block \in Nat \ {0} /\ EncMem \in Nat \ {0} /\ n \in Nat
    BY CryptAssumption
  <1>1. CutParts(inbufs, Bytes, s, N)
    BY CutPartsIs
  <1>2. inbufs \in Seq(Seq(Bytes)) /\ Len(inbufs) = N /\ N \in Nat \ {0} /\ last * EncMem \in Nat
        /\ n = last * EncMem + (n % EncMem) /\ n % EncMem \in Nat
    BY <1>1 DEF CutParts
  <1> HIDE DEF inbufs, N
  <1>3. last \in Nat /\ N = last + 1 /\ \A k \in 1..N : inbufs[k] \in Seq(Bytes)
    BY <1>2
  <1>4. \A k \in 1..N : /\ EncryptedAs(seqs[k], TextOf(inbufs[k]))
                        /\ encrypt_chunk_of_file(inbufs[k]).padded <=> Len(inbufs[k]) % Block # 0
    BY <1>2, <1>3, ChunkEncrypted
  <1>5. seqs \in [1..(last + 1) -> Seq(Coded)]
    <2>1. \A k \in 1..N : seqs[k] \in Seq(Coded)
      BY <1>4 DEF EncryptedAs
    <2> QED
      BY <1>2, <1>3, <2>1
  <1>6. IsTextOf(text, s)
    BY TextOfIs
  <1>7. /\ text \in Seq(Bytes) /\ Len(text) = n + Pads(n) /\ Len(text) % Block = 0 /\ Pads(n) \in Nat
    BY <1>6 DEF IsTextOf
  <1> HIDE DEF seqs
  <1>8. ASSUME NEW k \in 1..(last + 1)
        PROVE  /\ IsPart(texts[k], Bytes, text, (k - 1) * EncMem,
                         IF k = last + 1 THEN nt ELSE EncMem)
               /\ EncryptedAs(seqs[k], texts[k])
    <2>0. k \in 1..N /\ (k = last + 1 <=> k = N)
      BY <1>3
    <2>1. texts[k] = TextOf(inbufs[k])
      BY <2>0
    <2>2. IsPart(TextOf(inbufs[k]), Bytes, TextOf(s), (k - 1) * EncMem,
                  IF k = N THEN (Len(s) % EncMem) + Pads(Len(s)) ELSE EncMem)
      BY <1>1, <2>0, TextParts
    <2> QED
      BY <1>4, <2>0, <2>1, <2>2
  <1> HIDE DEF texts
  <1>9. Len(text) = last * EncMem + nt /\ nt \in Nat
    <2> DEFINE x == last * EncMem
               v == n % EncMem
    <2>1. n = x + v /\ x \in Nat /\ v \in Nat /\ nt = v + Pads(n) /\ Len(text) = n + Pads(n)
      BY <1>2, <1>7
    <2> HIDE DEF x, v, nt, n, text
    <2>2. Len(text) = x + nt /\ nt \in Nat
      BY <1>7, <2>1
    <2> QED
      BY <2>2 DEF x
  <1>10. nt % Block = 0
    <2> DEFINE v == n % EncMem
    <2>1. v % Block = n % Block
      <3> HIDE DEF n
      <3> QED
        BY <1>0, ModMod
    <2>2. Pads(n) = Pads(v)
      BY <2>1 DEF Pads
    <2>3. v \in Nat
      BY <1>2
    <2> HIDE DEF v
    <2>4. (v + Pads(v)) % Block = 0
      BY <2>3, PadsFill
    <2> QED
      BY <2>2, <2>4 DEF v
  <1> HIDE DEF nt, last, text
  <1>11. EncryptedAs(f, text)
    BY <1>3, <1>5, <1>7, <1>8, <1>9, <1>10, PiecesEncrypted
  <1> HIDE DEF f
  <1>12. Last(inbufs) = inbufs[N] /\ N \in 1..N
    BY <1>2 DEF Last
  <1>13. encrypt_chunk_of_file(Last(inbufs)).padded <=> n % Block # 0
    <2>1. IsPart(inbufs[N], Bytes, s, (N - 1) * EncMem, n % EncMem)
      BY <1>1, <1>12 DEF CutParts
    <2>2. Len(inbufs[N]) = n % EncMem
      BY <2>1 DEF IsPart
    <2>3. (n % EncMem) % Block = n % Block
      <3> HIDE DEF n
      <3> QED
        BY <1>0, ModMod
    <2> QED
      BY <1>4, <1>12, <2>2, <2>3
  <1>14. enc_file(s) = f \o (IF encrypt_chunk_of_file(Last(inbufs)).padded
                             THEN <<>> ELSE Encrypt(Padding(Block)))
    BY DEF enc_file, f, seqs, inbufs
  <1>15. f \in Seq(Coded)
    BY <1>11 DEF EncryptedAs
  <1>16. CASE n % Block = 0
    <2>1. enc_file(s) = f \o Encrypt(Padding(Block)) /\ text = s
      BY <1>13, <1>14, <1>16 DEF text, TextOf
    <2>2. Block - (n % Block) = Block
      BY <1>0, <1>16
    <2>3. Padding(Block) \in Seq(Bytes) /\ Len(Padding(Block)) = Block
      <3>1. Block \in 1..Block
        BY <1>0
      <3> QED
        BY <3>1, PaddingIs
    <2> DEFINE u == Padding(Block)
    <2>4. u \in Seq(Bytes) /\ Len(u) = Block
      BY <2>3
    <2> HIDE DEF u
    <2>5. EncryptedAs(f \o Encrypt(u), text \o u)
      BY <1>11, <2>4, OneMoreBlock
    <2> QED
      BY <2>1, <2>2, <2>5 DEF u, IsEncFile
  <1>17. CASE n % Block # 0
    <2>1. enc_file(s) = f \o <<>>
      BY <1>13, <1>14, <1>17
    <2>2. f \o <<>> = f
      BY <1>15, ConcatEmptySeq
    <2>3. text = s \o Padding(Block - (n % Block))
      BY <1>17 DEF text, TextOf
    <2> QED
      BY <1>11, <2>1, <2>2, <2>3 DEF IsEncFile
  <1> QED
    BY <1>16, <1>17

(* y is the place of a byte of one of c blocks.                             *)
IsPlace(y, c) == \E i \in 1..c : \E j \in 1..Block : y = Place(i, j)

LEMMA PlaceOf ==
    ASSUME NEW c \in Nat, NEW y \in 1..(c * Block)
    PROVE  IsPlace(y, c)
  <1>0. Block \in Nat \ {0}
    BY CryptAssumption
  <1>1. y \in 1..(c * Block + 0)
    <2>1. c * Block \in Nat
      BY <1>0, TimesPlus
    <2> QED
      BY <2>1
  <1>2. HasThread(y, c, Block, 0)
    BY <1>0, <1>1, ThreadOf
  <1>3. PICK b \in 1..(c + 1) : \E h \in 1..(IF b = c + 1 THEN 0 ELSE Block) : y = (b - 1) * Block + h
    BY <1>2 DEF HasThread
  <1>4. b # c + 1
    BY <1>3
  <1>5. b \in 1..c
    BY <1>4
  <1>6. \E h \in 1..Block : y = Place(b, h)
    BY <1>3, <1>4 DEF Place
  <1> QED
    BY <1>5, <1>6 DEF IsPlace

LEMMA JunkIs ==
    ASSUME NEW n \in Nat
    PROVE  Junk(n) \in Seq(Bytes) /\ Len(Junk(n)) = n
  <1> DEFINE u == [j \in 1..n |-> Byte(0, 0)]
  <1>1. Byte(0, 0) \in Bytes
    BY DEF Byte, Bytes
  <1>2. u \in Seq(Bytes) /\ Len(u) = n
    BY <1>1
  <1> QED
    BY <1>2 DEF Junk

(* An encrypted block that is all there is decrypted.                       *)
LEMMA DecryptIs ==
    ASSUME NEW f, NEW text, EncryptedAs(f, text), NEW k \in 1..(Len(text) \div Block)
    PROVE  Decrypt(BlockAt(f, k)) = BlockAt(text, k)
  <1> DEFINE c == Len(text) \div Block
             code == BlockAt(f, k)
  <1>0. Block \in Nat \ {0}
    BY CryptAssumption
  <1>1. /\ f \in Seq(Coded) /\ Len(f) = c * Block /\ c \in Nat
        /\ \A j \in 1..Block : f[Place(k, j)] = <<"encrypted", BlockAt(text, k), j>>
    BY DEF EncryptedAs
  <1>2. c * Block <= Len(f) /\ k \in 1..c
    BY <1>1
  <1> HIDE DEF c
  <1>3. IsPart(code, Coded, f, (k - 1) * Block, Block)
    BY <1>1, <1>2, BlockIs
  <1> HIDE DEF code
  <1>4. \A j \in 1..Block : code[j] = <<"encrypted", BlockAt(text, k), j>>
    BY <1>1, <1>3 DEF IsPart, Place
  <1>5. code[1][2] = BlockAt(text, k)
    <2>1. 1 \in 1..Block
      BY <1>0
    <2> QED
      BY <1>4, <2>1
  <1>6. \A i \in 1..Block : code[i] = <<"encrypted", code[1][2], i>>
    BY <1>4, <1>5
  <1>7. Decrypt(code) = code[1][2]
    BY <1>6 DEF Decrypt
  <1> QED
    BY <1>5, <1>7 DEF code

(* A chunk of the encrypted stream, decrypted: its whole blocks.            *)
DecryptedAs(d, text, off, len) ==
    /\ d \in Seq(Bytes) /\ Len(d) = len
    /\ (len \div Block) * Block \in Nat /\ (len \div Block) * Block <= len
    /\ len - (len \div Block) * Block < Block
    /\ \A y \in 1..((len \div Block) * Block) : d[y] = text[off + y]

LEMMA BlocksIn ==
    ASSUME NEW len \in Nat
    PROVE  /\ len \div Block \in Nat /\ len % Block \in Nat /\ len % Block < Block
           /\ (len \div Block) * Block \in Nat /\ len = (len \div Block) * Block + (len % Block)
  <1> DEFINE c == len \div Block
             z == len % Block
  <1>0. Block \in Nat \ {0}
    BY CryptAssumption
  <1>1. c \in Nat /\ z \in 0..(Block - 1) /\ len = Block * c + z
    BY <1>0, Remainder
  <1> HIDE DEF c, z
  <1>2. Block * c = c * Block /\ c * Block \in Nat
    BY <1>0, <1>1, TimesPlus
  <1>3. z \in Nat /\ z < Block
    BY <1>0, <1>1
  <1> QED
    BY <1>1, <1>2, <1>3 DEF c, z

LEMMA DecryptedIs ==
    ASSUME EncMem % Block = 0, NEW f, NEW text, EncryptedAs(f, text),
           NEW a \in Nat, NEW len \in Nat, a * EncMem + len <= Len(text),
           NEW inbuf, IsPart(inbuf, Coded, f, a * EncMem, len)
    PROVE  DecryptedAs(Decrypted(inbuf), text, a * EncMem, len)
  <1> DEFINE q == EncMem \div Block
             cb == len \div Block
             z == len % Block
             c == Len(text) \div Block
             seqs == [i \in 1..cb |-> Decrypt(BlockAt(inbuf, i))]
             g == FlattenSeq(seqs)
             d == Decrypted(inbuf)
  <1>0. EncMem \in Nat \ {0} /\ Block \in Nat \ {0}
    BY CryptAssumption
  <1>1. EncMem = Block * q /\ q \in Nat
    <2>1. EncMem = q * Block /\ q \in Nat
      BY <1>0, WholeBlocks
    <2> HIDE DEF q
    <2> QED
      BY <1>0, <2>1, TimesPlus
  <1>2. cb \in Nat /\ z \in Nat /\ z < Block /\ cb * Block \in Nat /\ len = cb * Block + z
    BY BlocksIn
  <1>3. /\ f \in Seq(Coded) /\ text \in Seq(Bytes) /\ Len(f) = Len(text) /\ Len(text) = c * Block
        /\ c \in Nat
    BY DEF EncryptedAs
  <1>11. Len(inbuf) = len
    BY DEF IsPart
  <1>12. d = g \o Junk(z)
    BY <1>11 DEF Decrypted
  <1> HIDE DEF q, cb, z, d
  <1>4. ASSUME NEW i \in 1..cb, NEW j \in 1..Block
        PROVE  /\ seqs[i] = BlockAt(text, a * q + i) /\ a * q + i \in 1..c
               /\ a * EncMem + Place(i, j) = Place(a * q + i, j)
    <2>1. a * q + i \in 1..c
      <3> DEFINE u == a * q
                 k == u + i
      <3>1. u \in Nat /\ a * EncMem = u * Block
        <4>1. i \in Nat /\ j \in Nat
          BY <1>0, <1>2
        <4> QED
          BY <1>1, <4>1, PlaceInChunk
      <3> HIDE DEF u
      <3>2. k \in Nat /\ k >= 1
        BY <1>2, <3>1
      <3>3. Block * (u + i) = Block * u + Block * i /\ Block * u = u * Block /\ Block * i = i * Block
            /\ i * Block \in Nat /\ u * Block \in Nat
        BY <1>0, <3>1, TimesPlus
      <3>4. i * Block <= cb * Block
        BY <1>2, PlaceIn
      <3>5. Block * k <= c * Block
        <4> DEFINE x == u * Block
                   y == i * Block
                   w == cb * Block
                   e == c * Block
        <4>1. x + len <= e /\ y <= w /\ len = w + z /\ Block * k = x + y /\ x \in Nat /\ y \in Nat
              /\ w \in Nat /\ e \in Nat
          <5>1. c * Block \in Nat
            BY <1>0, <1>3, TimesPlus
          <5>2. a * EncMem + len <= Len(text)
            OBVIOUS
          <5>3. x + len <= e
            BY <1>3, <3>1, <5>2
          <5> QED
            BY <1>2, <3>3, <3>4, <5>1, <5>3
        <4> HIDE DEF x, y, w, e, k
        <4>2. Block * k <= e
          BY <1>2, <4>1
        <4> QED
          BY <4>2 DEF e
      <3>6. k <= c
        <4> SUFFICES ASSUME c + 1 <= k PROVE FALSE
          BY <1>3, <3>2
        <4> HIDE DEF k
        <4> DEFINE e == k - c
        <4>1. e \in Nat \ {0} /\ k = c + e
          BY <1>3, <3>2
        <4> HIDE DEF e
        <4>2. Block * (c + e) = Block * c + Block * e /\ Block * c = c * Block /\ c * Block \in Nat
              /\ Block * e \in Nat
          BY <1>0, <1>3, <4>1, TimesPlus
        <4>3. Block * e # 0
          BY <1>0, <4>1
        <4> DEFINE x == c * Block
                   y == Block * e
        <4>4. Block * k = x + y /\ x \in Nat /\ y \in Nat /\ y # 0 /\ Block * k <= x
          BY <3>5, <4>1, <4>2, <4>3
        <4> HIDE DEF x, y
        <4> QED
          BY <4>4
      <3>7. k \in 1..c
        BY <1>3, <3>2, <3>6
      <3> QED
        BY <3>7 DEF u
    <2>2. q \in Nat /\ EncMem = Block * q /\ cb \in Nat /\ c \in Nat
      BY <1>1, <1>2, <1>3
    <2>3. c * Block <= Len(f) /\ cb * Block <= len
      <3>1. Len(f) \in Nat
        BY <1>3
      <3>2. cb * Block <= len
        <4> DEFINE w == cb * Block
        <4>1. w \in Nat /\ len = w + z
          BY <1>2
        <4> HIDE DEF w
        <4>2. w <= len
          BY <1>2, <4>1
        <4> QED
          BY <4>2 DEF w
      <3> QED
        BY <1>3, <3>1, <3>2
    <2>4. f \in Seq(Coded)
      BY <1>3
    <2>5. /\ BlockAt(inbuf, i) = BlockAt(f, a * q + i)
          /\ a * EncMem + Place(i, j) = Place(a * q + i, j)
      <3> HIDE DEF c
      <3> QED
        BY <2>1, <2>2, <2>3, <2>4, PieceBlock
    <2>6. Decrypt(BlockAt(f, a * q + i)) = BlockAt(text, a * q + i)
      BY <2>1, DecryptIs
    <2> QED
      BY <2>1, <2>5, <2>6
  <1>5. ASSUME NEW i \in 1..cb
        PROVE  IsPart(seqs[i], Bytes, text, ((a * q + i) - 1) * Block, Block)
    <2> DEFINE k == a * q + i
    <2>1. 1 \in 1..Block
      BY <1>0
    <2>2. seqs[i] = BlockAt(text, k) /\ k \in 1..c
      BY <1>4, <2>1
    <2>3. c * Block <= Len(text)
      BY <1>3, <1>0
    <2> HIDE DEF k, c
    <2>4. IsPart(BlockAt(text, k), Bytes, text, (k - 1) * Block, Block)
      BY <1>3, <2>2, <2>3, BlockIs
    <2> QED
      BY <2>2, <2>4 DEF k
  <1>6. seqs \in [1..cb -> Seq(Bytes)] /\ \A i \in 1..cb : Len(seqs[i]) = Block
    <2>1. \A i \in 1..cb : seqs[i] \in Seq(Bytes) /\ Len(seqs[i]) = Block
      BY <1>5 DEF IsPart
    <2> QED
      BY <2>1
  <1> HIDE DEF seqs
  <1>7. g \in Seq(Bytes) /\ AreBlocks(g, cb, seqs)
    BY <1>2, <1>6, FlattenBlocks
  <1> HIDE DEF g
  <1>8. ASSUME NEW y \in 1..(cb * Block) PROVE g[y] = text[a * EncMem + y]
    <2>1. IsPlace(y, cb)
      BY <1>2, PlaceOf
    <2>2. PICK i \in 1..cb : \E j \in 1..Block : y = Place(i, j)
      BY <2>1 DEF IsPlace
    <2>3. PICK j \in 1..Block : y = Place(i, j)
      BY <2>2
    <2>4. g[Place(i, j)] = seqs[i][j]
      BY <1>7 DEF AreBlocks
    <2>5. seqs[i][j] = text[Place(a * q + i, j)]
      BY <1>5 DEF IsPart, Place
    <2>6. a * EncMem + Place(i, j) = Place(a * q + i, j)
      BY <1>4
    <2> QED
      BY <2>3, <2>4, <2>5, <2>6
  <1> DEFINE v == Junk(z)
  <1>9. v \in Seq(Bytes) /\ Len(v) = z /\ d = g \o v
    BY <1>2, <1>12, JunkIs
  <1> HIDE DEF v
  <1>10. /\ d \in Seq(Bytes) /\ Len(d) = Len(g) + Len(v) /\ \A y \in 1..Len(g) : d[y] = g[y]
    <2>1. g \in Seq(Bytes) /\ v \in Seq(Bytes) /\ d = g \o v
      BY <1>7, <1>9
    <2> QED
      BY <2>1, Concat
  <1>13. Len(g) = cb * Block
    BY <1>7 DEF AreBlocks
  <1>14. \A y \in 1..(cb * Block) : d[y] = text[a * EncMem + y]
    BY <1>8, <1>10, <1>13
  <1>15. Len(d) = len
    BY <1>2, <1>9, <1>10, <1>13
  <1>16. cb * Block <= len /\ len - cb * Block < Block
    <2> DEFINE w == cb * Block
    <2>1. w \in Nat /\ len = w + z
      BY <1>2
    <2> HIDE DEF w
    <2>2. w <= len /\ len - w < Block
      BY <1>0, <1>2, <2>1
    <2> QED
      BY <2>2 DEF w
  <1> QED
    BY <1>2, <1>10, <1>14, <1>15, <1>16 DEF DecryptedAs, d, cb

(* u is s as far as place m, and little more.                               *)
AgreesTo(u, s, m) ==
    /\ m \in Nat /\ m <= Len(u) /\ m <= Len(s) /\ Len(u) - m < Block
    /\ \A x \in 1..m : u[x] = s[x]

(* What comes of the first n bytes of an encrypted stream.                  *)
Arrives(d, s, n, sent_) ==
    /\ n = sent_ => d.ret # "undefined"
    /\ d.ret = "ok" => /\ Len(d.stream) \in Nat \ {0}
                       /\ \E m : /\ AgreesTo(d.stream, s, m)
                                 /\ n = sent_ => m = Len(d.stream) /\ m = Len(s)

(* g is the first n elements of a text.                                     *)
BeginsAs(g, text, n) == g \in Seq(Bytes) /\ Len(g) = n /\ \A x \in 1..n : g[x] = text[x]

(* The chunks before the last are pieces of a text, decrypted.              *)
FullPieces(seqs, text, last) ==
    /\ seqs \in [1..last -> Seq(Bytes)]
    /\ \A k \in 1..last : /\ Len(seqs[k]) = EncMem
                          /\ \A y \in 1..EncMem : seqs[k][y] = text[(k - 1) * EncMem + y]

LEMMA WholeDecrypted ==
    ASSUME NEW text, NEW last \in Nat, NEW seqs, FullPieces(seqs, text, last)
    PROVE  BeginsAs(FlattenSeq(seqs), text, last * EncMem)
  <1> DEFINE P == [k \in 0..last |-> k * EncMem]
             lens == [k \in 1..last |-> EncMem]
             g == FlattenSeq(seqs)
  <1>0. EncMem \in Nat \ {0}
    BY CryptAssumption
  <1>7. /\ seqs \in [1..last -> Seq(Bytes)]
        /\ \A k \in 1..last : /\ Len(seqs[k]) = EncMem
                              /\ \A y \in 1..EncMem : seqs[k][y] = text[(k - 1) * EncMem + y]
    BY DEF FullPieces
  <1>1. AreSums(P, last, lens)
    <2>1. ASSUME NEW k \in 1..last PROVE P[k] = P[k - 1] + lens[k] /\ lens[k] \in Nat
      <3> DEFINE e == k - 1
      <3>1. e \in Nat /\ k = e + 1
        OBVIOUS
      <3>2. P[k] = k * EncMem /\ P[k - 1] = e * EncMem /\ lens[k] = EncMem
        OBVIOUS
      <3> HIDE DEF e
      <3>3. EncMem * (e + 1) = EncMem * e + EncMem * 1 /\ EncMem * e = e * EncMem
            /\ EncMem * k = k * EncMem /\ e * EncMem \in Nat
        BY <1>0, <3>1, TimesPlus
      <3> QED
        BY <1>0, <3>1, <3>2, <3>3
    <2>2. P \in [0..last -> Nat]
      BY <1>0, TimesPlus
    <2>3. P[0] = 0
      BY <1>0
    <2> QED
      BY <2>1, <2>2, <2>3 DEF AreSums
  <1>2. \A k \in 1..last : lens[k] = Len(seqs[k])
    BY <1>7
  <1>3. P[last] = last * EncMem /\ \A k \in 1..last : P[k - 1] = (k - 1) * EncMem
    OBVIOUS
  <1> HIDE DEF P, lens
  <1>4. g \in Seq(Bytes) /\ AreParts(g, last, seqs, P)
    BY <1>1, <1>2, <1>7, FlattenAt
  <1> HIDE DEF g
  <1>5. ASSUME NEW x \in 1..(last * EncMem) PROVE g[x] = text[x]
    <2>1. x \in 1..(last * EncMem + 0)
      <3>1. last * EncMem \in Nat
        BY <1>0, TimesPlus
      <3> QED
        BY <3>1
    <2>2. HasThread(x, last, EncMem, 0)
      BY <1>0, <2>1, ThreadOf
    <2>3. PICK b \in 1..(last + 1) : \E h \in 1..(IF b = last + 1 THEN 0 ELSE EncMem) :
                                       x = (b - 1) * EncMem + h
      BY <2>2 DEF HasThread
    <2>4. b # last + 1
      BY <2>3
    <2>5. b \in 1..last
      BY <2>4
    <2>6. PICK h \in 1..EncMem : x = (b - 1) * EncMem + h
      BY <2>3, <2>4
    <2>7. Len(seqs[b]) = EncMem /\ seqs[b][h] = text[(b - 1) * EncMem + h]
      BY <1>7, <2>5
    <2>8. g[P[b - 1] + h] = seqs[b][h]
      BY <1>4, <2>5, <2>7 DEF AreParts
    <2> QED
      BY <1>3, <2>5, <2>6, <2>7, <2>8
  <1>6. Len(g) = last * EncMem
    BY <1>3, <1>4 DEF AreParts
  <1> QED
    BY <1>4, <1>5, <1>6 DEF g, BeginsAs

(* What is left of the last chunk when its padding is taken off.            *)
Trimmed(len, v, dec) ==
    /\ len \in Int /\ len <= v
    /\ \A p \in 1..Block : v > 0 /\ v % Block = 0 /\ dec[v] = Byte(0, p) => len = v - p
    /\ v = 0 => len = 0

LEMMA TrimIs ==
    ASSUME NEW inbuf, Len(inbuf) \in Nat, NEW len \in outbuf_lens(inbuf, TRUE),
           NEW dec, dec = Decrypted(inbuf), Len(dec) = Len(inbuf)
    PROVE  Trimmed(len, Len(inbuf), dec)
  <1> DEFINE v == Len(inbuf)
             byte == Last(dec)
  <1>0. Block \in Nat \ {0} /\ ByteMax \in Nat /\ v \in Nat
    BY CryptAssumption, ByteMaxAssumption
  <1>1. byte = dec[v]
    BY DEF Last
  <1>2. \A n \in PadBytes(byte) : n \in Nat
    <2>1. CASE byte \in {Byte(0, n) : n \in 1..Block}
      <3>1. PICK n \in 1..Block : byte = Byte(0, n)
        BY <2>1
      <3>2. PadBytes(byte) = {n}
        BY <2>1, <3>1 DEF PadBytes, Byte
      <3> QED
        BY <3>2
    <2>2. CASE byte \notin {Byte(0, n) : n \in 1..Block}
      BY <1>0, <2>2 DEF PadBytes
    <2> QED
      BY <2>1, <2>2
  <1>3. \A p \in 1..Block : byte = Byte(0, p) => PadBytes(byte) = {p}
    BY DEF PadBytes, Byte
  <1>4. IF v > 0 /\ v % Block = 0 THEN \E n \in PadBytes(byte) : len = v - n ELSE len = v
    BY DEF outbuf_lens
  <1> HIDE DEF v, byte
  <1>5. len \in Int /\ len <= v
    <2>1. CASE v > 0 /\ v % Block = 0
      <3>1. PICK n \in PadBytes(byte) : len = v - n
        BY <1>4, <2>1
      <3> QED
        BY <1>0, <1>2, <3>1
    <2>2. CASE ~(v > 0 /\ v % Block = 0)
      BY <1>0, <1>4, <2>2
    <2> QED
      BY <2>1, <2>2
  <1>6. \A p \in 1..Block : v > 0 /\ v % Block = 0 /\ byte = Byte(0, p) => len = v - p
    BY <1>3, <1>4
  <1>7. v = 0 => len = 0
    BY <1>4
  <1> QED
    BY <1>1, <1>5, <1>6, <1>7 DEF v, Trimmed

LEMMA DecFileArrives ==
    ASSUME EncMem % Block = 0, NEW s \in Seq(Bytes), NEW f, IsEncFile(f, s),
           NEW n \in 0..Len(f), NEW d \in dec_file(SubSeq(f, 1, n))
    PROVE  Arrives(d, s, n, Len(f))
  <1> DEFINE r == SubSeq(f, 1, n)
             inbufs == Cut(r)
             N == n \div EncMem + 1
             last == N - 1
             v == n % EncMem
             p == Block - (Len(s) % Block)
             text == s \o Padding(p)
             lastbuf == Decrypted(inbufs[N])
             seqs == [k \in 1..last |-> Decrypted(inbufs[k])]
             whole == FlattenSeq(seqs)
             off == last * EncMem
             m0 == (v \div Block) * Block
  <1>0. EncMem \in Nat \ {0} /\ Block \in Nat \ {0}
    BY CryptAssumption
  <1>1. EncryptedAs(f, text)
    BY DEF IsEncFile
  <1>2. p \in 1..Block
    <2> DEFINE z == Len(s) % Block
    <2>1. z \in Nat /\ z < Block
      <3> DEFINE w == Len(s)
      <3>1. w \in Nat
        OBVIOUS
      <3> HIDE DEF w
      <3>2. w % Block \in Nat /\ w % Block < Block
        BY <3>1, BlocksIn
      <3> QED
        BY <3>2 DEF w
    <2> HIDE DEF z
    <2>2. Block - z \in 1..Block
      BY <1>0, <2>1
    <2> QED
      BY <2>2 DEF z
  <1> HIDE DEF p
  <1>3. /\ text \in Seq(Bytes) /\ Len(text) = Len(s) + p
        /\ \A i \in 1..Len(s) : text[i] = s[i]
        /\ text[Len(s) + p] = Byte(0, p)
    <2> DEFINE u == Padding(p)
    <2>1. u \in Seq(Bytes) /\ Len(u) = p /\ \A i \in 1..p : u[i] = Byte(0, p)
      BY <1>2, PaddingIs
    <2> HIDE DEF u
    <2>2. s \in Seq(Bytes) /\ u \in Seq(Bytes)
      BY <2>1
    <2> DEFINE w == s \o u
    <2>3. w = s \o u
      OBVIOUS
    <2> HIDE DEF w
    <2>4. /\ w \in Seq(Bytes) /\ Len(w) = Len(s) + Len(u)
      BY <2>2, <2>3, ConcatProperties
    <2>5. \A i \in 1..Len(s) : w[i] = s[i]
      BY <2>2, <2>3, Concat
    <2>6. \A i \in 1..Len(u) : w[Len(s) + i] = u[i]
      BY <2>2, <2>3, Concat
    <2>7. p \in 1..p
      BY <1>2
    <2>8. w[Len(s) + p] = Byte(0, p) /\ Len(w) = Len(s) + p
      BY <2>1, <2>4, <2>6, <2>7
    <2> QED
      BY <2>4, <2>5, <2>8 DEF w, u
  <1> HIDE DEF text
  <1>4. f \in Seq(Coded) /\ Len(f) = Len(text) /\ n \in Nat /\ n <= Len(f)
    <2>1. f \in Seq(Coded) /\ Len(f) = Len(text)
      BY <1>1 DEF EncryptedAs
    <2> QED
      BY <2>1
  <1>5. IsPart(r, Coded, f, 0, n)
    <2>1. r = SubSeq(f, 0 + 1, 0 + n)
      BY <1>4
    <2> HIDE DEF r
    <2>2. 0 + n <= Len(f) /\ 0 \in Nat
      BY <1>4
    <2> QED
      BY <1>4, <2>1, <2>2, PartIs
  <1> HIDE DEF r
  <1>6. r \in Seq(Coded) /\ Len(r) = n /\ \A i \in 1..n : r[i] = f[i]
    BY <1>4, <1>5 DEF IsPart
  <1>7. CutParts(inbufs, Coded, r, N)
    BY <1>6, CutPartsIs
  <1> HIDE DEF inbufs, N
  <1>8. /\ inbufs \in Seq(Seq(Coded)) /\ Len(inbufs) = N /\ N \in Nat \ {0}
        /\ off \in Nat /\ n = off + v /\ v \in Nat /\ v < EncMem
    BY <1>6, <1>7 DEF CutParts
  <1>9. ASSUME NEW k \in 1..N
        PROVE  DecryptedAs(Decrypted(inbufs[k]), text, (k - 1) * EncMem,
                           IF k = N THEN v ELSE EncMem)
    <2> DEFINE a == k - 1
               len == IF k = N THEN v ELSE EncMem
    <2>1. /\ a * EncMem \in Nat /\ a * EncMem + len <= n
          /\ IsPart(inbufs[k], Coded, r, a * EncMem, len)
      BY <1>6, <1>7 DEF CutParts
    <2>2. len \in Nat /\ a \in Nat
      BY <1>0, <1>8
    <2> HIDE DEF a, len, v
    <2>3. IsPart(inbufs[k], Coded, f, a * EncMem, len)
      <3> DEFINE o == a * EncMem
      <3>1. o \in Nat /\ o + len <= n /\ IsPart(inbufs[k], Coded, r, o, len)
        BY <2>1
      <3> HIDE DEF o
      <3>2. \A i \in 1..len : r[o + i] = f[o + i]
        BY <1>4, <1>6, <2>2, <3>1
      <3>3. IsPart(inbufs[k], Coded, f, o, len)
        BY <3>1, <3>2 DEF IsPart
      <3> QED
        BY <3>3 DEF o
    <2>4. a * EncMem + len <= Len(text)
      <3> DEFINE o == a * EncMem
      <3>1. o \in Nat /\ o + len <= n
        BY <2>1
      <3> HIDE DEF o
      <3>2. o + len <= Len(text)
        BY <1>4, <2>2, <3>1
      <3> QED
        BY <3>2 DEF o
    <2>5. DecryptedAs(Decrypted(inbufs[k]), text, a * EncMem, len)
      BY <1>1, <2>2, <2>3, <2>4, DecryptedIs
    <2> QED
      BY <2>5 DEF a, len, v
  <1>10. last \in Nat /\ N \in 1..N /\ last = N - 1
    BY <1>8
  <1>11. ASSUME NEW k \in 1..last
         PROVE  /\ seqs[k] \in Seq(Bytes) /\ Len(seqs[k]) = EncMem
                /\ \A y \in 1..EncMem : seqs[k][y] = text[(k - 1) * EncMem + y]
    <2>1. k \in 1..N /\ k # N
      BY <1>8
    <2>2. DecryptedAs(Decrypted(inbufs[k]), text, (k - 1) * EncMem, EncMem)
      BY <1>9, <2>1
    <2>3. (EncMem \div Block) * Block = EncMem
      BY <1>0, WholeBlocks
    <2> QED
      BY <2>2, <2>3 DEF DecryptedAs
  <1>12. seqs \in [1..last -> Seq(Bytes)]
    BY <1>11
  <1> HIDE DEF seqs, last
  <1>21. FullPieces(seqs, text, last)
    BY <1>11, <1>12 DEF FullPieces
  <1>22. BeginsAs(whole, text, off)
    BY <1>10, <1>21, WholeDecrypted
  <1>13. /\ whole \in Seq(Bytes) /\ Len(whole) = off
         /\ \A x \in 1..off : whole[x] = text[x]
    BY <1>22 DEF BeginsAs
  <1>14. DecryptedAs(lastbuf, text, off, v)
    BY <1>9, <1>10
  <1>15. /\ lastbuf \in Seq(Bytes) /\ Len(lastbuf) = v /\ m0 \in Nat /\ m0 <= v /\ v - m0 < Block
         /\ \A y \in 1..m0 : lastbuf[y] = text[off + y]
    BY <1>14 DEF DecryptedAs
  <1>16. Len(inbufs[N]) = v
    <2>1. IsPart(inbufs[N], Coded, r, (N - 1) * EncMem, Len(r) % EncMem)
      BY <1>7, <1>10 DEF CutParts
    <2> QED
      BY <1>6, <2>1 DEF IsPart
  <1>17. PICK len \in outbuf_lens(inbufs[N], TRUE) :
           d = IF len > 0
               THEN [ret |-> "ok", stream |-> whole \o SubSeq(lastbuf, 1, len)]
               ELSE [ret |-> IF len = 0 THEN "error" ELSE "undefined", stream |-> <<>>]
    <2>1. \E len \in outbuf_lens(inbufs[Len(inbufs)], TRUE) :
           d = IF len > 0
               THEN [ret |-> "ok",
                     stream |-> FlattenSeq([k \in 1..(Len(inbufs) - 1) |-> Decrypted(inbufs[k])])
                                \o SubSeq(Decrypted(inbufs[Len(inbufs)]), 1, len)]
               ELSE [ret |-> IF len = 0 THEN "error" ELSE "undefined", stream |-> <<>>]
      BY DEF dec_file, inbufs, r
    <2> QED
      BY <1>8, <2>1 DEF seqs, last
  <1> HIDE DEF whole, lastbuf, off, m0
  <1>18. /\ len \in Int /\ len <= v
         /\ \A q \in 1..Block : v > 0 /\ v % Block = 0 /\ lastbuf[v] = Byte(0, q) => len = v - q
         /\ v = 0 => len = 0
    <2> DEFINE inbuf == inbufs[N]
               dec == lastbuf
    <2>1. Len(inbuf) \in Nat /\ len \in outbuf_lens(inbuf, TRUE) /\ dec = Decrypted(inbuf)
          /\ Len(dec) = Len(inbuf) /\ Len(inbuf) = v
      BY <1>8, <1>15, <1>16 DEF lastbuf
    <2> HIDE DEF inbuf, dec
    <2>2. Trimmed(len, Len(inbuf), dec)
      BY <2>1, TrimIs
    <2> QED
      BY <2>1, <2>2 DEF dec, Trimmed
  <1>19. /\ d.ret = "ok" <=> len > 0
         /\ len > 0 => d.stream = whole \o SubSeq(lastbuf, 1, len)
         /\ d.ret = "undefined" => ~(len > 0) /\ len # 0
    BY <1>17
  <1>20. ASSUME len > 0
         PROVE  /\ Len(d.stream) = off + len
                /\ \A x \in 1..off : d.stream[x] = text[x]
                /\ \A y \in 1..len : y <= m0 => d.stream[off + y] = text[off + y]
    <2> DEFINE u == SubSeq(lastbuf, 1, len)
               w == d.stream
    <2>1. IsPart(u, Bytes, lastbuf, 0, len)
      <3>1. len \in Nat /\ 0 + len <= Len(lastbuf) /\ 0 \in Nat /\ u = SubSeq(lastbuf, 0 + 1, 0 + len)
        BY <1>15, <1>18, <1>20
      <3> HIDE DEF u
      <3> QED
        BY <1>15, <3>1, PartIs
    <2>2. w = whole \o u
      BY <1>19, <1>20
    <2> HIDE DEF u, w
    <2>3. u \in Seq(Bytes) /\ Len(u) = len /\ \A y \in 1..len : u[y] = lastbuf[y]
      BY <1>18, <2>1 DEF IsPart
    <2>4. whole \in Seq(Bytes) /\ u \in Seq(Bytes)
      BY <1>13, <2>3
    <2>5. Len(w) = Len(whole) + Len(u)
      BY <2>2, <2>4, ConcatProperties
    <2>6. \A i \in 1..Len(whole) : w[i] = whole[i]
      BY <2>2, <2>4, Concat
    <2>7. \A i \in 1..Len(u) : w[Len(whole) + i] = u[i]
      BY <2>2, <2>4, Concat
    <2>8. ASSUME NEW y \in 1..len, y <= m0 PROVE w[off + y] = text[off + y]
      <3>1. w[off + y] = u[y] /\ u[y] = lastbuf[y]
        BY <1>13, <2>3, <2>7
      <3>2. y \in 1..m0
        BY <1>15, <1>18, <2>8
      <3> QED
        BY <1>15, <3>1, <3>2
    <2> QED
      BY <1>13, <2>3, <2>5, <2>6, <2>8 DEF w
  <1>23. Len(s) \in Nat /\ Len(text) \in Nat /\ off \in Nat /\ n = off + v /\ v \in Nat
    BY <1>3, <1>8
  <1>24. CASE n = Len(f)
    <2>1. n = Len(s) + p /\ n = Len(text)
      BY <1>3, <1>4, <1>24
    <2>2. v % Block = 0
      <3>1. Len(text) = (Len(text) \div Block) * Block /\ Len(text) \div Block \in Nat
        BY <1>1 DEF EncryptedAs
      <3>2. n = (n \div Block) * Block
        BY <2>1, <3>1
      <3>3. (n \div Block) * Block \in Nat /\ n = (n \div Block) * Block + (n % Block)
            /\ n % Block \in Nat
        BY <1>4, BlocksIn
      <3> DEFINE x == (n \div Block) * Block
                 z == n % Block
      <3>4. n = x /\ x \in Nat /\ z \in Nat /\ n = x + z
        BY <3>2, <3>3
      <3> HIDE DEF x, z
      <3>5. z = 0
        BY <3>4
      <3>6. (n % EncMem) % Block = n % Block
        BY <1>4, ModMod
      <3> QED
        BY <3>5, <3>6 DEF v, z
    <2>3. m0 = v /\ (v > 0 => v >= Block)
      <3> DEFINE c == v \div Block
                 z == v % Block
      <3>1. c \in Nat /\ m0 \in Nat /\ v = m0 + z /\ m0 = c * Block
        BY <1>8, BlocksIn DEF m0
      <3>2. z = 0
        BY <2>2
      <3> HIDE DEF c, z
      <3>3. m0 = v
        BY <3>1, <3>2
      <3>4. ASSUME v > 0 PROVE v >= Block
        <4>1. c # 0
          BY <1>0, <3>1, <3>3, <3>4
        <4> DEFINE e == c - 1
        <4>2. e \in Nat /\ c = 1 + e
          BY <3>1, <4>1
        <4> HIDE DEF e
        <4>3. Block * (1 + e) = Block * 1 + Block * e /\ Block * e \in Nat /\ Block * c = c * Block
          BY <1>0, <3>1, <4>2, TimesPlus
        <4>4. c * Block = Block + Block * e
          BY <1>0, <4>2, <4>3
        <4> DEFINE w == Block * e
        <4>5. v = Block + w /\ w \in Nat
          BY <3>1, <3>3, <4>3, <4>4
        <4> HIDE DEF w
        <4> QED
          BY <1>0, <4>5
      <3> QED
        BY <3>3, <3>4
    <2>4. v > 0 => len = v - p
      <3>1. ASSUME v > 0 PROVE lastbuf[v] = Byte(0, p)
        <4>1. v \in 1..m0
          BY <1>23, <2>3, <3>1
        <4>2. lastbuf[v] = text[off + v]
          BY <1>15, <4>1
        <4>3. off + v = Len(s) + p
          BY <1>23, <2>1
        <4> QED
          BY <1>3, <4>2, <4>3
      <3> QED
        BY <1>2, <1>18, <2>2, <3>1
    <2>5. len >= 0
      BY <1>0, <1>2, <1>18, <1>23, <2>3, <2>4
    <2>6. d.ret # "undefined"
      BY <1>18, <1>19, <2>5
    <2>7. ASSUME d.ret = "ok"
          PROVE  /\ Len(d.stream) \in Nat \ {0} /\ AgreesTo(d.stream, s, Len(s))
                 /\ Len(s) = Len(d.stream)
      <3>1. len > 0 /\ v > 0
        BY <1>18, <1>19, <1>23, <2>7
      <3>2. Len(d.stream) = off + len
        BY <1>20, <3>1
      <3>3. off + len = Len(s) /\ len <= m0
        BY <1>2, <1>18, <1>23, <2>1, <2>3, <2>4, <3>1
      <3>4. ASSUME NEW x \in 1..Len(s) PROVE d.stream[x] = s[x]
        <4>1. text[x] = s[x]
          BY <1>3
        <4>2. CASE x <= off
          <5>1. x \in 1..off
            BY <1>23, <4>2
          <5> QED
            BY <1>20, <3>1, <4>1, <5>1
        <4>3. CASE ~(x <= off)
          <5> DEFINE y == x - off
          <5>1. y \in 1..len /\ y <= m0 /\ x = off + y
            BY <1>18, <1>15, <1>23, <3>3, <4>3
          <5> HIDE DEF y
          <5> QED
            BY <1>20, <3>1, <4>1, <5>1
        <4> QED
          BY <4>2, <4>3
      <3>5. Len(s) <= Len(d.stream) /\ Len(d.stream) - Len(s) < Block /\ Len(d.stream) # 0
        BY <1>0, <1>18, <1>23, <3>1, <3>2, <3>3
      <3> QED
        BY <1>23, <3>2, <3>3, <3>4, <3>5 DEF AgreesTo
    <2> QED
      BY <2>6, <2>7 DEF Arrives
  <1>25. CASE n # Len(f)
    <2>1. n < Len(text)
      BY <1>4, <1>23, <1>25
    <2>2. off + m0 <= Len(s)
      <3> SUFFICES ASSUME off + m0 > Len(s) PROVE FALSE
        BY <1>15, <1>23
      <3>1. EncryptedAs(f, text)
        BY <1>1
      <3> DEFINE c == Len(text) \div Block
                 e == last * (EncMem \div Block) + (v \div Block)
      <3>2. Len(text) = c * Block /\ c \in Nat
        BY <3>1 DEF EncryptedAs
      <3> HIDE DEF c
      <3>3. off + m0 = e * Block /\ e \in Nat
        <4> DEFINE q == EncMem \div Block
                   h == v \div Block
                   u == last * q
        <4>1. EncMem = q * Block /\ q \in Nat
          BY <1>0, WholeBlocks
        <4> HIDE DEF q
        <4>2. q * Block = Block * q
          BY <1>0, <4>1, TimesPlus
        <4>3. off = u * Block /\ u \in Nat
          <5>1. EncMem = Block * q
            BY <4>1, <4>2
          <5>2. last * (Block * q) = Block * (last * q) /\ last * q \in Nat
            <6>1. last \in Nat /\ q \in Nat /\ Block \in Nat
              BY <1>0, <1>10, <4>1
            <6>2. last * (Block * q) = Block * (last * q)
              BY <6>1, TimesSwap
            <6> QED
              BY <6>1, <6>2, TimesPlus
          <5>3. Block * u = u * Block
            <6>1. u \in Nat
              BY <5>2
            <6> HIDE DEF u
            <6> QED
              BY <1>0, <6>1, TimesPlus
          <5> QED
            BY <5>1, <5>2, <5>3 DEF off
        <4>4. h \in Nat /\ m0 = h * Block
          BY <1>8, BlocksIn DEF m0
        <4>5. e = u + h
          BY DEF q
        <4> HIDE DEF u, h, e
        <4>6. Block * (u + h) = Block * u + Block * h /\ Block * u = u * Block /\ Block * h = h * Block
          BY <1>0, <4>3, <4>4, TimesPlus
        <4>7. Block * e = e * Block /\ e \in Nat
          <5>1. e \in Nat
            BY <4>3, <4>4, <4>5
          <5> QED
            BY <1>0, <5>1, TimesPlus
        <4> QED
          BY <4>3, <4>4, <4>5, <4>6, <4>7
      <3> HIDE DEF e
      <3>4. off + m0 <= n
        BY <1>15, <1>23
      <3>5. CASE e >= c
        <4>1. Block * c <= Block * e
          <5> DEFINE g == e - c
          <5>1. g \in Nat /\ e = c + g
            BY <3>2, <3>3, <3>5
          <5> HIDE DEF g
          <5>2. Block * (c + g) = Block * c + Block * g /\ Block * c \in Nat /\ Block * g \in Nat
            BY <1>0, <3>2, <5>1, TimesPlus
          <5> QED
            BY <5>1, <5>2
        <4>2. Block * c = c * Block /\ Block * e = e * Block
          BY <1>0, <3>2, <3>3, TimesPlus
        <4> QED
          BY <1>15, <1>23, <2>1, <3>2, <3>3, <3>4, <4>1, <4>2
      <3>6. CASE e < c
        <4> DEFINE g == c - (e + 1)
        <4>1. g \in Nat /\ c = (e + 1) + g
          BY <3>2, <3>3, <3>6
        <4> HIDE DEF g
        <4>2. /\ Block * ((e + 1) + g) = Block * (e + 1) + Block * g
              /\ Block * (e + 1) = Block * e + Block * 1
              /\ Block * e = e * Block /\ Block * g \in Nat /\ e * Block \in Nat
          BY <1>0, <3>3, <4>1, TimesPlus
        <4>3. Block * c = c * Block
          BY <1>0, <3>2, TimesPlus
        <4> DEFINE x == e * Block
                   w == Block * g
        <4>4. Len(text) = x + Block + w /\ x \in Nat /\ w \in Nat /\ off + m0 = x
          BY <1>0, <3>2, <3>3, <4>1, <4>2, <4>3
        <4> HIDE DEF x, w
        <4> QED
          BY <1>0, <1>2, <1>3, <1>23, <4>4
      <3> QED
        BY <3>2, <3>3, <3>5, <3>6
    <2>3. ASSUME d.ret = "ok"
          PROVE  Len(d.stream) \in Nat \ {0} /\ \E m : AgreesTo(d.stream, s, m)
      <3>1. len > 0
        BY <1>19, <2>3
      <3>2. Len(d.stream) = off + len
        BY <1>20, <3>1
      <3> DEFINE k == IF len <= m0 THEN len ELSE m0
                 m == off + k
      <3>3. k \in Nat /\ k <= len /\ k <= m0 /\ len - k < Block
        BY <1>0, <1>15, <1>18, <3>1
      <3> HIDE DEF k
      <3>4. m \in Nat /\ m <= Len(d.stream) /\ m <= Len(s) /\ Len(d.stream) - m < Block
        BY <1>15, <1>18, <1>23, <2>2, <3>1, <3>2, <3>3
      <3>5. ASSUME NEW x \in 1..m PROVE d.stream[x] = s[x]
        <4>1. text[x] = s[x]
          <5>1. x \in 1..Len(s)
            BY <1>23, <3>4
          <5> QED
            BY <1>3, <5>1
        <4>2. CASE x <= off
          <5>1. x \in 1..off
            BY <1>23, <4>2
          <5> QED
            BY <1>20, <3>1, <4>1, <5>1
        <4>3. CASE ~(x <= off)
          <5> DEFINE y == x - off
          <5>1. y \in 1..len /\ y <= m0 /\ x = off + y
            BY <1>15, <1>18, <1>23, <3>3, <4>3
          <5> HIDE DEF y
          <5> QED
            BY <1>20, <3>1, <4>1, <5>1
        <4> QED
          BY <4>2, <4>3
      <3> HIDE DEF m
      <3>6. AgreesTo(d.stream, s, m)
        BY <3>4, <3>5 DEF AgreesTo
      <3>7. Len(d.stream) # 0 /\ Len(d.stream) \in Nat
        BY <1>18, <1>23, <3>1, <3>2
      <3> QED
        BY <3>6, <3>7
    <2> QED
      BY <1>25, <2>3 DEF Arrives
  <1> QED
    BY <1>24, <1>25
=============================================================================
