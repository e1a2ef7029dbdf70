-------------------------- MODULE LzmaCodecProofs ---------------------------
(***************************************************************************)
(* The codec of src/src/lzma/, for every width of a byte, of the           *)
(* probabilities and of the fields of the stream, and for every chunk: the *)
(* range encoder of LzmaEnc.c loses no carry (CarryFits), and the decoder  *)
(* of LzmaDec.c keeps to the output it has, whatever arrives               *)
(* (StaysInOutput).                                                        *)
(***************************************************************************)
EXTENDS LzmaCodec, SequenceTheorems, WellFoundedInduction, TLAPS

(***************************************************************************)
(* Numbers.                                                                *)
(***************************************************************************)

(* A set of numbers that has 0, and with a number the next, has all.       *)
LEMMA SetInduction ==
    ASSUME NEW S, 0 \in S, \A n \in Nat : n \in S => n + 1 \in S
    PROVE  \A n \in Nat : n \in S
  <1> SUFFICES ASSUME NEW n \in Nat, n \notin S PROVE FALSE
    OBVIOUS
  <1> DEFINE T == {k \in Nat : k \notin S}
  <1>1. IsWellFoundedOn(OpToRel(<, Nat), Nat)
    BY NatLessThanWellFounded
  <1>2. PICK x \in T : \A y \in T : ~ (<<y, x>> \in OpToRel(<, Nat))
    BY <1>1, WFMin
  <1>3. x # 0 /\ x - 1 \in Nat /\ x - 1 < x
    OBVIOUS
  <1>4. x - 1 \in T
    BY <1>3
  <1>5. <<x - 1, x>> \in OpToRel(<, Nat)
    BY <1>3 DEF OpToRel
  <1> QED
    BY <1>2, <1>4, <1>5

LEMMA Remainder ==
    ASSUME NEW n \in Nat, NEW d \in Nat \ {0}
    PROVE  n \div d \in Nat /\ n % d \in 0..(d - 1) /\ n = d * (n \div d) + (n % d)
  <1>1. n \div d \in Nat
    OBVIOUS
  <1>2. n % d \in Nat /\ n % d < d
    OBVIOUS
  <1>3. n = d * (n \div d) + (n % d)
    OBVIOUS
  <1> QED
    BY <1>1, <1>2, <1>3

LEMMA TimesLess ==
    ASSUME NEW i \in Nat, NEW j \in Nat, NEW k \in Nat, i <= j
    PROVE  k * i <= k * j /\ i * k <= j * k
  OBVIOUS

LEMMA Products ==
    ASSUME NEW i \in Nat, NEW j \in Nat, NEW k \in Nat
    PROVE  /\ i * (j + k) = i * j + i * k /\ (j + k) * i = j * i + k * i
           /\ i * j \in Nat /\ i * j = j * i /\ i * (j * k) = (i * j) * k
  OBVIOUS

(* A quotient and a remainder are the only ones.                           *)
LEMMA OnlyQuotient ==
    ASSUME NEW d \in Nat \ {0}, NEW q \in Nat, NEW r \in 0..(d - 1),
           NEW n \in Nat, n = d * q + r
    PROVE  n \div d = q /\ n % d = r
  <1> DEFINE u == n \div d
             v == n % d
  <1>0. u \in Nat /\ v \in 0..(d - 1) /\ n = d * u + v
    BY Remainder
  <1> HIDE DEF u, v
  <1>1. q = u
    <2>1. CASE q + 1 <= u
      <3>1. d * (q + 1) <= d * u
        BY <1>0, <2>1, TimesLess
      <3>2. d * (q + 1) = d * q + d
        OBVIOUS
      <3> QED
        BY <1>0, <3>1, <3>2
    <2>2. CASE u + 1 <= q
      <3>1. d * (u + 1) <= d * q
        BY <1>0, <2>2, TimesLess
      <3>2. d * (u + 1) = d * u + d
        BY <1>0
      <3> QED
        BY <1>0, <3>1, <3>2
    <2> QED
      BY <1>0, <2>1, <2>2
  <1> QED
    BY <1>0, <1>1 DEF u, v

(* The top byte c of a word L of B times K, and what is left below it.     *)
TopByte(L, c, m, K, B) ==
    /\ L \in Nat /\ L < K * B /\ c \in 0..(B - 1) /\ m \in 0..(K - 1)
    /\ L = K * c + m /\ L \div K = c /\ (L * B) % (K * B) = m * B

LEMMA TopByteOf ==
    ASSUME NEW K \in Nat \ {0}, NEW B \in Nat \ {0}, NEW L \in Nat, L < K * B
    PROVE  \E c, m : TopByte(L, c, m, K, B)
  <1> DEFINE c == L \div K
             m == L % K
             W == K * B
  <1>1. c \in Nat /\ m \in 0..(K - 1) /\ L = K * c + m /\ L \div K = c
    BY Remainder
  <1>2. W \in Nat \ {0} /\ L < W
    OBVIOUS
  <1> HIDE DEF c, m
  <1>3. c < B
    <2>1. SUFFICES ASSUME B <= c PROVE FALSE
      BY <1>1
    <2>2. W <= K * c
      BY <1>1, <2>1, TimesLess
    <2>3. K * c \in Nat
      BY <1>1
    <2> HIDE DEF W
    <2> QED
      BY <1>1, <1>2, <2>2, <2>3
  <1>4. m * B \in 0..(W - 1)
    <2>1. m + 1 \in Nat /\ m + 1 <= K /\ m \in Nat
      BY <1>1
    <2>2. (m + 1) * B <= W
      BY <2>1, TimesLess
    <2>3. (m + 1) * B = m * B + B /\ m * B \in Nat
      BY <2>1
    <2> HIDE DEF W
    <2> QED
      BY <1>2, <2>2, <2>3
  <1>5. L * B = W * c + m * B
    <2>1. K * c \in Nat /\ m \in Nat
      BY <1>1
    <2>2. L * B = (K * c) * B + m * B
      BY <1>1, <2>1, Products
    <2>3. (K * c) * B = W * c
      BY <1>1
    <2> QED
      BY <2>2, <2>3
  <1>6. L * B \in Nat
    OBVIOUS
  <1>7. (L * B) % W = m * B
    <2> DEFINE n == L * B
               r == m * B
    <2>1. n \in Nat /\ r \in 0..(W - 1) /\ n = W * c + r
      BY <1>4, <1>5, <1>6
    <2> HIDE DEF n, r, W
    <2>2. n % W = r
      BY <1>1, <1>2, <2>1, OnlyQuotient
    <2> QED
      BY <2>2 DEF n, r
  <1>8. TopByte(L, c, m, K, B)
    BY <1>1, <1>2, <1>3, <1>7 DEF TopByte
  <1> QED
    BY <1>8

(* When the top byte leaves, low and range, both made larger by a byte,    *)
(* still make no more than two words, and no more than one if the byte     *)
(* kept back is full.                                                      *)
Shifting(K, B, W, low, r, cache, high, L, c, m, new) ==
    /\ K \in Nat \ {0} /\ B \in Nat \ {0} /\ W = K * B
    /\ low \in Nat /\ r \in Nat \ {0} /\ r < K /\ low + r <= 2 * W
    /\ cache \in 0..(B - 1) /\ (cache = B - 1 => low + r <= W)
    /\ high \in Nat /\ low = W * high + L /\ TopByte(L, c, m, K, B)
    /\ new = IF L < W - K \/ high # 0 THEN c ELSE cache

LEMMA ShiftedSum ==
    ASSUME NEW K, NEW B, NEW W, NEW low, NEW r, NEW cache, NEW high, NEW L, NEW c, NEW m, NEW new,
           Shifting(K, B, W, low, r, cache, high, L, c, m, new)
    PROVE  /\ m * B \in 0..(W - 1) /\ new \in 0..(B - 1)
           /\ m * B + r * B <= 2 * W
           /\ new = B - 1 => m * B + r * B <= W
  <1>a. /\ K \in Nat \ {0} /\ B \in Nat \ {0} /\ W = K * B
        /\ low \in Nat /\ r \in Nat \ {0} /\ r < K /\ low + r <= 2 * W
        /\ cache \in 0..(B - 1) /\ (cache = B - 1 => low + r <= W)
        /\ high \in Nat /\ low = W * high + L /\ TopByte(L, c, m, K, B)
        /\ new = IF L < W - K \/ high # 0 THEN c ELSE cache
    BY DEF Shifting
  <1> USE <1>a
  <1>0. /\ L \in Nat /\ L < W /\ c \in 0..(B - 1) /\ m \in 0..(K - 1)
        /\ L = K * c + m /\ W \in Nat \ {0} /\ m \in Nat /\ c \in Nat
    BY DEF TopByte
  <1>1. m * B + r * B = (m + r) * B
    BY <1>0
  <1>2. m * B \in 0..(W - 1)
    <2>1. (m + 1) * B <= W /\ (m + 1) * B = m * B + B /\ m * B \in Nat
      BY <1>0, TimesLess
    <2> QED
      BY <1>0, <2>1
  <1>3. m * B + r * B <= 2 * W
    <2>1. m + r <= 2 * K /\ m + r \in Nat /\ 2 * K \in Nat
      BY <1>0
    <2>2. (m + r) * B <= (2 * K) * B
      BY <2>1, TimesLess
    <2>3. (2 * K) * B = 2 * W
      OBVIOUS
    <2> QED
      BY <1>1, <2>2, <2>3
  <1>4. new \in 0..(B - 1)
    BY <1>0
  <1>5. ASSUME new = B - 1 PROVE m * B + r * B <= W
    <2>1. SUFFICES m + r <= K
      <3>1. m + r \in Nat
        BY <1>0
      <3>2. (m + r) * B <= K * B
        BY <2>1, <3>1, TimesLess
      <3> QED
        BY <1>1, <3>2
    <2>2. K * (B - 1) = W - K
      OBVIOUS
    <2>3. W * high \in Nat
      BY <1>0
    <2>4. CASE L < W - K \/ high # 0
      <3>1. c = B - 1
        BY <1>5, <2>4
      <3>2. L = W - K + m
        BY <1>0, <2>2, <3>1
      <3>3. high >= 1
        BY <1>0, <2>4, <3>2
      <3>4. W <= W * high
        BY <1>0, <3>3, TimesLess
      <3> HIDE DEF TopByte
      <3> DEFINE wh == W * high
      <3>5. low = wh + L /\ wh \in Nat /\ W <= wh
        BY <2>3, <3>4
      <3> HIDE DEF wh
      <3> QED
        BY <1>0, <3>2, <3>5
    <2>5. CASE ~(L < W - K \/ high # 0)
      <3>1. cache = B - 1 /\ low = L /\ W - K <= L
        BY <1>0, <1>5, <2>5
      <3>2. c = B - 1
        <4>1. SUFFICES ASSUME c + 1 <= B - 1 PROVE FALSE
          BY <1>0
        <4>2. K * (c + 1) <= K * (B - 1)
          BY <1>0, <4>1, TimesLess
        <4>3. K * (c + 1) = K * c + K /\ K * c \in Nat
          BY <1>0
        <4> DEFINE kc == K * c
        <4>4. kc \in Nat /\ kc + K <= W - K /\ L = kc + m
          BY <1>0, <2>2, <4>2, <4>3
        <4> HIDE DEF kc
        <4> QED
          BY <1>0, <3>1, <4>4
      <3>3. L = W - K + m
        BY <1>0, <2>2, <3>2
      <3> QED
        BY <1>0, <3>1, <3>3
    <2> QED
      BY <2>4, <2>5
  <1> QED
    BY <1>2, <1>3, <1>4, <1>5

(***************************************************************************)
(* The widths of the range coder.                                          *)
(***************************************************************************)
LEMMA Widths ==
    /\ Base \in Nat \ {0} /\ 2 <= Base
    /\ kTopValue \in Nat \ {0} /\ Word \in Nat \ {0} /\ Word = kTopValue * Base
    /\ kTopValue < Word /\ kTopValue <= Word - 1
    /\ kBitModelTotal \in Nat \ {0} /\ LowestProb \in Nat \ {0}
    /\ \E h \in Nat : kTopValue = 2 * h /\ kTopValue <= h * Base
    /\ \E q \in Nat : kTopValue = kBitModelTotal * q
  <1>1. /\ Base \in Nat \ {0} /\ Base % 2 = 0 /\ MoveStep \in Nat \ {0}
        /\ kBitModelTotal \in Nat /\ 2 * MoveStep <= kBitModelTotal
        /\ LowestProb * Base >= kBitModelTotal /\ kTopValue % kBitModelTotal = 0
    BY WidthAssumption
  <1>2. PICK b \in Nat \ {0} : Base = 2 * b
    <2>1. Base = 2 * (Base \div 2) /\ Base \div 2 \in Nat
      BY <1>1
    <2> QED
      BY <1>1, <2>1
  <1>3. kBitModelTotal \in Nat \ {0}
    BY <1>1
  <1>4. LowestProb \in Nat \ {0}
    <2>1. LowestProb = MoveStep - 1 /\ LowestProb \in Nat
      BY <1>1 DEF LowestProb
    <2>2. LowestProb # 0
      BY <1>1, <1>3, <2>1
    <2> QED
      BY <2>1, <2>2
  <1> DEFINE sq == Base * Base
  <1>5. sq \in Nat \ {0} /\ kTopValue = sq * Base
    BY <1>1 DEF kTopValue
  <1> HIDE DEF sq
  <1>6. kTopValue \in Nat \ {0}
    BY <1>1, <1>5
  <1>7. Word = kTopValue * Base
    BY DEF Word
  <1>8. 2 <= Base /\ Base \in Nat
    BY <1>1, <1>2
  <1>9. 2 * kTopValue <= Word
    <2>1. kTopValue * 2 <= kTopValue * Base
      BY <1>6, <1>8, TimesLess
    <2> QED
      BY <1>6, <1>7, <2>1
  <1>10. Word \in Nat \ {0}
    BY <1>6, <1>7, <1>8
  <1>11. \E h \in Nat : kTopValue = 2 * h /\ kTopValue <= h * Base
    <2> DEFINE h == sq * b
    <2>1. h \in Nat /\ kTopValue = 2 * h
      BY <1>2, <1>5
    <2> HIDE DEF h
    <2>2. h * 2 <= h * Base
      BY <1>8, <2>1, TimesLess
    <2> QED
      BY <2>1, <2>2
  <1>12. \E q \in Nat : kTopValue = kBitModelTotal * q
    <2> DEFINE q == kTopValue \div kBitModelTotal
    <2>1. q \in Nat /\ kTopValue = kBitModelTotal * q + (kTopValue % kBitModelTotal)
      BY <1>3, <1>6, Remainder
    <2>2. kBitModelTotal * q \in Nat
      BY <1>3, <2>1
    <2>3. kTopValue = kBitModelTotal * q
      <3> DEFINE tq == kBitModelTotal * q
      <3>1. kTopValue = tq + 0 /\ tq \in Nat
        BY <1>1, <2>1, <2>2
      <3> HIDE DEF tq
      <3>2. kTopValue = tq
        BY <3>1
      <3> QED
        BY <3>2 DEF tq
    <2> QED
      BY <2>1, <2>3
  <1>13. kTopValue < Word /\ kTopValue <= Word - 1
    BY <1>6, <1>9, <1>10
  <1> QED
    BY <1>1, <1>3, <1>4, <1>6, <1>7, <1>8, <1>10, <1>11, <1>12, <1>13

(***************************************************************************)
(* Probabilities stay away from 0 and 1.                                   *)
(***************************************************************************)
Probable == LowestProb..(kBitModelTotal - LowestProb)
ProbsFit(probs) == \A key \in DOMAIN probs : probs[key] \in Probable

LEMMA LessMoved ==
    ASSUME NEW M \in Nat \ {0}, NEW t \in Nat, M - 1 <= t
    PROVE  t \div M \in Nat /\ t - t \div M \in Nat /\ M - 1 <= t - t \div M
  <1> DEFINE q == t \div M
             r == t % M
  <1>1. q \in Nat /\ r \in 0..(M - 1) /\ t = M * q + r
    BY Remainder
  <1> HIDE DEF q, r
  <1>2. CASE q = 0
    BY <1>1, <1>2 DEF q
  <1>3. CASE q # 0
    <2>1. M * q = (M - 1) * q + q /\ (M - 1) * q \in Nat /\ M - 1 \in Nat
      BY <1>1
    <2>2. (M - 1) * 1 <= (M - 1) * q
      BY <1>1, <1>3, <2>1, TimesLess
    <2> DEFINE mq == (M - 1) * q
    <2>3. t - q = mq + r /\ mq \in Nat /\ M - 1 <= mq
      BY <1>1, <2>1, <2>2
    <2> HIDE DEF mq
    <2>4. t - q \in Nat /\ M - 1 <= t - q
      BY <1>1, <2>3
    <2> QED
      BY <1>1, <2>4 DEF q
  <1> QED
    BY <1>2, <1>3

LEMMA MovedProbable ==
    ASSUME NEW t \in Probable, NEW bit
    PROVE  Moved(t, bit) \in Probable
  <1>1. /\ MoveStep \in Nat \ {0} /\ kBitModelTotal \in Nat /\ 2 * MoveStep <= kBitModelTotal
        /\ LowestProb = MoveStep - 1
    BY WidthAssumption DEF LowestProb
  <1>2. t \in Nat /\ MoveStep - 1 <= t /\ MoveStep - 1 <= kBitModelTotal - t
        /\ kBitModelTotal - t \in Nat
    BY <1>1 DEF Probable
  <1>3. CASE bit = 0
    <2> DEFINE u == kBitModelTotal - t
               q == u \div MoveStep
    <2>1. q \in Nat /\ u - q \in Nat /\ MoveStep - 1 <= u - q
      <3> HIDE DEF u
      <3>1. u \in Nat /\ MoveStep - 1 <= u
        BY <1>2 DEF u
      <3> QED
        BY <1>1, <3>1, LessMoved
    <2>2. Moved(t, bit) = t + q
      BY <1>3 DEF Moved
    <2> HIDE DEF q
    <2> QED
      BY <1>1, <1>2, <2>1, <2>2 DEF Probable
  <1>4. CASE bit # 0
    <2> DEFINE q == t \div MoveStep
    <2>1. q \in Nat /\ t - q \in Nat /\ MoveStep - 1 <= t - q
      BY <1>1, <1>2, LessMoved
    <2>2. Moved(t, bit) = t - q
      BY <1>4 DEF Moved
    <2> HIDE DEF q
    <2> QED
      BY <1>1, <1>2, <2>1, <2>2 DEF Probable
  <1> QED
    BY <1>3, <1>4

LEMMA ProbProbable ==
    ASSUME NEW probs, ProbsFit(probs), NEW key
    PROVE  Prob(probs, key) \in Probable
  <1>1. CASE key \in DOMAIN probs
    BY <1>1 DEF Prob, ProbsFit
  <1>2. CASE key \notin DOMAIN probs
    <2>1. /\ MoveStep \in Nat \ {0} /\ kBitModelTotal \in Nat /\ 2 * MoveStep <= kBitModelTotal
          /\ LowestProb = MoveStep - 1
      BY WidthAssumption DEF LowestProb
    <2> DEFINE half == kBitModelTotal \div 2
    <2>2. half \in Nat /\ 2 * half <= kBitModelTotal /\ kBitModelTotal <= 2 * half + 1
      BY <2>1
    <2>3. Prob(probs, key) = half
      BY <1>2 DEF Prob, kProbInitValue
    <2> HIDE DEF half
    <2> QED
      BY <2>1, <2>2, <2>3 DEF Probable
  <1> QED
    BY <1>1, <1>2

LEMMA AdaptFits ==
    ASSUME NEW probs, ProbsFit(probs), NEW key, NEW bit
    PROVE  ProbsFit(Adapt(probs, key, bit))
  <1> DEFINE new == Moved(Prob(probs, key), bit)
  <1>1. new \in Probable
    BY ProbProbable, MovedProbable
  <1> HIDE DEF new
  <1>2. Adapt(probs, key, bit) =
          [k \in DOMAIN probs \cup {key} |-> IF k = key THEN new ELSE probs[k]]
    BY DEF Adapt, new
  <1> QED
    BY <1>1, <1>2 DEF ProbsFit

(***************************************************************************)
(* The encoder's range coder.  Between two bits its range is at least      *)
(* kTopValue; low and range together are no more than two words, and no    *)
(* more than one while the byte kept back is full: it could not be changed *)
(* by a carry.                                                             *)
(***************************************************************************)
IsCoder(rc) ==
    /\ rc = [range |-> rc.range, low |-> rc.low, cache |-> rc.cache,
             cacheSize |-> rc.cacheSize, out |-> rc.out]
    /\ rc.cache \in Nat /\ rc.cacheSize \in Nat /\ rc.out \in Seq(0..(Base - 1))

\* What holds of the sums, before and after the range is made larger again.
SumsFit(rc) ==
    /\ IsCoder(rc) /\ rc.range \in Nat \ {0} /\ rc.range < Word /\ rc.low \in Nat
    /\ rc.low + rc.range <= 2 * Word
    /\ rc.cache \in 0..(Base - 1)
    /\ rc.cache = Base - 1 => rc.low + rc.range <= Word

RcFits(rc) == SumsFit(rc) /\ kTopValue <= rc.range

\* What is left of it when the last bytes have been shifted out.
Flushed(rc) ==
    /\ IsCoder(rc) /\ rc.range \in kTopValue..(Word - 1) /\ rc.low \in 0..(Word - 1)
    /\ rc.cache \in 0..(Base - 1)

(* Shifting out the top byte of low.                                       *)
LEMMA ShiftLowIs ==
    ASSUME NEW rc, IsCoder(rc), rc.low \in Nat
    PROVE  \E high, c, m, L, new :
             /\ high \in Nat
             /\ TopByte(L, c, m, kTopValue, Base) /\ rc.low = Word * high + L
             /\ new = IF L < Word - kTopValue \/ high # 0 THEN c ELSE rc.cache
             /\ IsCoder(RangeEnc_ShiftLow(rc))
             /\ RangeEnc_ShiftLow(rc).range = rc.range
             /\ RangeEnc_ShiftLow(rc).low = m * Base
             /\ RangeEnc_ShiftLow(rc).cache = new
  <1> DEFINE L == rc.low % Word
             high == rc.low \div Word
             s == RangeEnc_ShiftLow(rc)
  <1>1. high \in Nat /\ L \in 0..(Word - 1) /\ rc.low = Word * high + L
    BY Widths, Remainder
  <1>0. Word \in Nat /\ Word = kTopValue * Base
    BY Widths
  <1>7. /\ rc = [range |-> rc.range, low |-> rc.low, cache |-> rc.cache,
                 cacheSize |-> rc.cacheSize, out |-> rc.out]
        /\ rc.cache \in Nat /\ rc.cacheSize \in Nat /\ rc.out \in Seq(0..(Base - 1))
    BY DEF IsCoder
  <1> HIDE DEF L, high
  <1>2. L \in Nat /\ L < kTopValue * Base
    <2>1. L \in Nat /\ L < Word
      BY <1>0, <1>1
    <2> QED
      BY <1>0, <2>1
  <1>3. PICK c, m : TopByte(L, c, m, kTopValue, Base)
    BY <1>2, Widths, TopByteOf
  <1>4. (L * Base) % Word = m * Base /\ L \div kTopValue = c
    BY <1>3, Widths DEF TopByte
  <1> DEFINE new == IF L < Word - kTopValue \/ high # 0 THEN c ELSE rc.cache
  <1>5. CASE L < Word - kTopValue \/ high # 0
    <2>1. s = [rc EXCEPT !.low = m * Base,
                         !.out = Append(@, (rc.cache + high) % Base)
                                 \o [i \in 1 .. rc.cacheSize |-> (Base - 1 + high) % Base],
                         !.cache = c, !.cacheSize = 0]
      BY <1>4, <1>5 DEF RangeEnc_ShiftLow, L, high
    <2> DEFINE byte == (rc.cache + high) % Base
               full == (Base - 1 + high) % Base
               kept == [i \in 1 .. rc.cacheSize |-> full]
               out == Append(rc.out, byte) \o kept
    <2>2. byte \in 0..(Base - 1) /\ full \in 0..(Base - 1)
      <3>0. Base \in Nat \ {0} /\ high \in Nat /\ rc.cache \in Nat
        BY <1>1, <1>7, Widths
      <3>1. Base \in Nat \ {0} /\ rc.cache + high \in Nat /\ Base - 1 + high \in Nat
        BY <3>0
      <3>2. \A n \in Nat : n % Base \in 0..(Base - 1)
        BY <3>1, Remainder
      <3> QED
        BY <3>1, <3>2
    <2> HIDE DEF byte, full
    <2>3. kept \in Seq(0..(Base - 1))
      <3> DEFINE S == 0..(Base - 1)
      <3>1. full \in S
        BY <2>2
      <3> HIDE DEF S
      <3>2. kept \in [1 .. rc.cacheSize -> S]
        BY <3>1
      <3>3. kept \in Seq(S)
        BY <1>7, <3>2
      <3> QED
        BY <3>3 DEF S
    <2> HIDE DEF kept
    <2>4. out \in Seq(0..(Base - 1))
      BY <1>7, <2>2, <2>3
    <2>5. s = [rc EXCEPT !.low = m * Base, !.out = out, !.cache = c, !.cacheSize = 0]
      BY <2>1 DEF kept, byte, full
    <2> HIDE DEF out, s
    <2>6. c \in Nat
      BY <1>3 DEF TopByte
    <2> DEFINE below == m * Base
    <2>7. s = [range |-> rc.range, low |-> below, cache |-> c, cacheSize |-> 0, out |-> out]
      BY <1>7, <2>5
    <2> HIDE DEF below
    <2>8. IsCoder(s) /\ s.range = rc.range /\ s.low = below /\ s.cache = c
      BY <2>4, <2>6, <2>7 DEF IsCoder
    <2> QED
      BY <1>1, <1>3, <1>5, <2>8 DEF s, below
  <1>6. CASE ~(L < Word - kTopValue \/ high # 0)
    <2>1. s = [rc EXCEPT !.low = m * Base, !.cacheSize = @ + 1]
      BY <1>4, <1>6 DEF RangeEnc_ShiftLow, L, high
    <2> DEFINE below == m * Base
               size == rc.cacheSize + 1
    <2>2. s = [range |-> rc.range, low |-> below, cache |-> rc.cache, cacheSize |-> size,
               out |-> rc.out]
      BY <1>7, <2>1
    <2>3. size \in Nat
      BY <1>7
    <2> HIDE DEF below, size, s
    <2>4. IsCoder(s) /\ s.range = rc.range /\ s.low = below /\ s.cache = rc.cache
      BY <1>7, <2>2, <2>3 DEF IsCoder
    <2> QED
      BY <1>1, <1>3, <1>6, <2>4 DEF s, below
  <1> QED
    BY <1>5, <1>6

LEMMA NormFits ==
    ASSUME NEW rc, SumsFit(rc), kTopValue <= rc.range * Base
    PROVE  RcFits(RC_NORM(rc))
  <1>1. CASE ~(rc.range < kTopValue)
    BY <1>1, Widths DEF RC_NORM, RcFits, SumsFit
  <1>2. CASE rc.range < kTopValue
    <2> DEFINE big == [rc EXCEPT !.range = @ * Base]
               s == RangeEnc_ShiftLow(big)
    <2>1. /\ IsCoder(big) /\ big.range = rc.range * Base /\ big.low = rc.low
          /\ big.cache = rc.cache
      BY DEF SumsFit, IsCoder
    <2>2. RC_NORM(rc) = s
      BY <1>2 DEF RC_NORM
    <2>3. big.low \in Nat
      BY <2>1 DEF SumsFit
    <2> HIDE DEF big
    <2>4. PICK high, c, m, L, new :
             /\ high \in Nat
             /\ TopByte(L, c, m, kTopValue, Base) /\ big.low = Word * high + L
             /\ new = IF L < Word - kTopValue \/ high # 0 THEN c ELSE big.cache
             /\ IsCoder(s) /\ s.range = big.range /\ s.low = m * Base /\ s.cache = new
      BY <2>1, <2>3, ShiftLowIs
    <2> DEFINE r == rc.range
               low == rc.low
               cache == rc.cache
    <2>5. /\ r \in Nat \ {0} /\ r < kTopValue /\ low \in Nat /\ low + r <= 2 * Word
          /\ cache \in 0..(Base - 1) /\ (cache = Base - 1 => low + r <= Word)
          /\ low = Word * high + L
          /\ new = IF L < Word - kTopValue \/ high # 0 THEN c ELSE cache
      BY <1>2, <2>1, <2>4 DEF SumsFit
    <2> HIDE DEF r, low, cache, s
    <2>6. /\ m * Base \in 0..(Word - 1) /\ new \in 0..(Base - 1)
          /\ m * Base + r * Base <= 2 * Word
          /\ new = Base - 1 => m * Base + r * Base <= Word
      <3>1. TopByte(L, c, m, kTopValue, Base) /\ high \in Nat
        BY <2>4
      <3>2. Base \in Nat \ {0} /\ kTopValue \in Nat \ {0} /\ Word = kTopValue * Base
        BY Widths
      <3>3. Shifting(kTopValue, Base, Word, low, r, cache, high, L, c, m, new)
        BY <2>5, <3>1, <3>2 DEF Shifting
      <3> QED
        BY <3>3, ShiftedSum
    <2>7. r * Base \in Nat \ {0} /\ r * Base < Word
      <3>1. (r + 1) * Base <= kTopValue * Base
        BY <2>5, Widths, TimesLess
      <3>2. (r + 1) * Base = r * Base + Base /\ r * Base \in Nat /\ r * Base # 0
        BY <2>5, Widths
      <3> QED
        BY <3>1, <3>2, Widths
    <2>8. kTopValue <= r * Base
      BY DEF r
    <2> DEFINE mb == m * Base
               rb == r * Base
    <2>9. s.range = rb /\ s.low = mb /\ s.cache = new /\ IsCoder(s)
      BY <2>1, <2>4 DEF r
    <2>10. /\ mb \in 0..(Word - 1) /\ new \in 0..(Base - 1) /\ mb + rb <= 2 * Word
           /\ new = Base - 1 => mb + rb <= Word
           /\ rb \in Nat \ {0} /\ rb < Word /\ kTopValue <= rb
      BY <2>6, <2>7, <2>8
    <2> HIDE DEF mb, rb
    <2>11. RcFits(s)
      BY <2>9, <2>10 DEF RcFits, SumsFit
    <2> QED
      BY <2>2, <2>11 DEF s
  <1> QED
    BY <1>1, <1>2

(* The part of the range a bit of probability t takes, and what it leaves: *)
(* both are wide enough to be made as large as kTopValue by one byte.      *)
LEMMA BoundFits ==
    ASSUME NEW T \in Nat \ {0}, NEW P \in Nat \ {0}, NEW B \in Nat \ {0}, T <= P * B,
           NEW K \in Nat \ {0}, NEW k \in Nat, K = T * k,
           NEW range \in Nat, K <= range, NEW t \in P..(T - P),
           NEW bound, bound = (range \div T) * t
    PROVE  /\ bound \in Nat \ {0} /\ bound < range
           /\ K <= bound * B /\ K <= (range - bound) * B
  <1> DEFINE q == range \div T
             rem == range % T
  <1>1. q \in Nat /\ rem \in 0..(T - 1) /\ range = T * q + rem /\ bound = q * t
    BY Remainder
  <1> HIDE DEF q, rem
  <1>2. k <= q
    <2>1. SUFFICES ASSUME q + 1 <= k PROVE FALSE
      BY <1>1
    <2>2. T * (q + 1) <= T * k
      BY <1>1, <2>1, TimesLess
    <2>3. T * (q + 1) = T * q + T /\ T * q \in Nat
      BY <1>1
    <2> DEFINE tq == T * q
    <2>4. tq + T <= range /\ range = tq + rem /\ tq \in Nat
      BY <1>1, <2>2, <2>3
    <2> HIDE DEF tq
    <2> QED
      BY <1>1, <2>4
  <1>3. K <= (q * P) * B
    <2>1. T * k <= (P * B) * k
      BY TimesLess
    <2>2. (P * B) * k <= (P * B) * q
      BY <1>1, <1>2, TimesLess
    <2>3. (P * B) * q = (q * P) * B /\ (P * B) * k \in Nat /\ (P * B) * q \in Nat
      BY <1>1
    <2> DEFINE x == (P * B) * k
               y == (P * B) * q
    <2>4. K <= x /\ x <= y /\ x \in Nat /\ y \in Nat /\ y = (q * P) * B
      BY <2>1, <2>2, <2>3
    <2> HIDE DEF x, y
    <2> QED
      BY <2>4
  <1>4. q * P \in Nat /\ q * P # 0
    <2>1. q * P \in Nat
      BY <1>1
    <2>2. ASSUME q * P = 0 PROVE FALSE
      BY <1>3, <2>2
    <2> QED
      BY <2>1, <2>2
  <1>5. bound \in Nat /\ q * P <= bound
    BY <1>1, TimesLess
  <1>6. bound <= range - q * P
    <2>1. q * t <= q * (T - P)
      BY <1>1, TimesLess
    <2>2. q * (T - P) = T * q - q * P
      BY <1>1
    <2> DEFINE tq == T * q
               qp == q * P
    <2>3. bound <= tq - qp /\ range = tq + rem /\ tq \in Nat /\ qp \in Nat /\ bound \in Nat
      BY <1>1, <1>4, <1>5, <2>1, <2>2
    <2> HIDE DEF tq, qp
    <2>4. bound <= range - qp
      BY <1>1, <2>3
    <2> QED
      BY <2>4 DEF qp
  <1> DEFINE qp == q * P
  <1>7. qp \in Nat \ {0} /\ qp <= bound /\ bound <= range - qp /\ K <= qp * B
    BY <1>3, <1>4, <1>5, <1>6
  <1> HIDE DEF qp
  <1>8. qp * B <= bound * B /\ qp * B \in Nat /\ bound * B \in Nat
    BY <1>5, <1>7, TimesLess
  <1>9. range - bound \in Nat /\ qp <= range - bound
    BY <1>5, <1>7
  <1>10. qp * B <= (range - bound) * B /\ (range - bound) * B \in Nat
    BY <1>7, <1>9, TimesLess
  <1>11. K <= bound * B
    BY <1>7, <1>8
  <1>12. K <= (range - bound) * B
    BY <1>7, <1>8, <1>10
  <1> QED
    BY <1>5, <1>7, <1>11, <1>12

LEMMA BitFits ==
    ASSUME NEW rc, RcFits(rc), NEW t \in Probable, NEW bit
    PROVE  RcFits(RC_BIT(rc, t, bit))
  <1> DEFINE bound == (rc.range \div kBitModelTotal) * t
             range == rc.range
  <1>1. PICK q \in Nat : kTopValue = kBitModelTotal * q
    BY Widths
  <1>2. /\ range \in Nat /\ kTopValue <= range /\ range < Word /\ Word \in Nat
        /\ Base \in Nat \ {0} /\ kTopValue \in Nat \ {0}
        /\ kBitModelTotal \in Nat \ {0} /\ LowestProb \in Nat \ {0}
        /\ kBitModelTotal <= LowestProb * Base
    BY Widths, WidthAssumption DEF RcFits, SumsFit
  <1>3. bound \in Nat \ {0} /\ bound < range
        /\ kTopValue <= bound * Base /\ kTopValue <= (range - bound) * Base
    <2> HIDE DEF range
    <2>1. t \in LowestProb..(kBitModelTotal - LowestProb)
      BY DEF Probable
    <2>2. bound = (range \div kBitModelTotal) * t
      BY DEF range
    <2> HIDE DEF bound
    <2> QED
      BY <1>1, <1>2, <2>1, <2>2, BoundFits
  <1> DEFINE new == IF bit = 0 THEN [rc EXCEPT !.range = bound]
                    ELSE [rc EXCEPT !.range = @ - bound, !.low = @ + bound]
  <1>4. RC_BIT(rc, t, bit) = RC_NORM(new)
    BY DEF RC_BIT
  <1> HIDE DEF bound
  <1>5. /\ IsCoder(rc) /\ rc.low \in Nat /\ rc.low + range <= 2 * Word
        /\ rc.cache \in 0..(Base - 1) /\ (rc.cache = Base - 1 => rc.low + range <= Word)
    BY DEF RcFits, SumsFit
  <1>6. SumsFit(new) /\ kTopValue <= new.range * Base
    <2>1. CASE bit = 0
      <3>1. IsCoder(new) /\ new.range = bound /\ new.low = rc.low /\ new.cache = rc.cache
        BY <1>5, <2>1 DEF IsCoder
      <3> HIDE DEF new
      <3> QED
        BY <1>2, <1>3, <1>5, <3>1 DEF SumsFit
    <2>2. CASE bit # 0
      <3>1. /\ IsCoder(new) /\ new.range = range - bound /\ new.low = rc.low + bound
            /\ new.cache = rc.cache
        BY <1>5, <2>2 DEF IsCoder
      <3> HIDE DEF new
      <3> QED
        BY <1>2, <1>3, <1>5, <3>1 DEF SumsFit
    <2> QED
      BY <2>1, <2>2
  <1> HIDE DEF new
  <1> QED
    BY <1>4, <1>6, NormFits

LEMMA DirectFits ==
    ASSUME NEW rc, RcFits(rc), NEW bit
    PROVE  RcFits(RC_DIRECT(rc, bit))
  <1> DEFINE half == rc.range \div 2
             range == rc.range
             new == [rc EXCEPT !.range = half, !.low = IF bit = 0 THEN @ ELSE @ + half]
  <1>1. PICK h \in Nat : kTopValue = 2 * h /\ kTopValue <= h * Base
    BY Widths
  <1>2. /\ range \in Nat /\ kTopValue <= range /\ range < Word /\ Word \in Nat
        /\ Base \in Nat \ {0} /\ kTopValue \in Nat \ {0}
        /\ IsCoder(rc) /\ rc.low \in Nat /\ rc.low + range <= 2 * Word
        /\ rc.cache \in 0..(Base - 1) /\ (rc.cache = Base - 1 => rc.low + range <= Word)
    BY Widths DEF RcFits, SumsFit
  <1>3. half \in Nat /\ 2 * half <= range /\ range <= 2 * half + 1
    <2> HIDE DEF range
    <2>1. half = range \div 2
      BY DEF range
    <2> QED
      BY <1>2, <2>1
  <1>4. RC_DIRECT(rc, bit) = RC_NORM(new)
    BY DEF RC_DIRECT
  <1>5. IsCoder(new) /\ new.range = half /\ new.cache = rc.cache
        /\ new.low = IF bit = 0 THEN rc.low ELSE rc.low + half
    <2>1. CASE bit = 0
      <3>1. new = [rc EXCEPT !.range = half, !.low = @]
        BY <2>1
      <3> HIDE DEF half, new
      <3> QED
        BY <1>2, <2>1, <3>1 DEF IsCoder
    <2>2. CASE bit # 0
      <3>1. new = [rc EXCEPT !.range = half, !.low = @ + half]
        BY <2>2
      <3> HIDE DEF half, new
      <3> QED
        BY <1>2, <2>2, <3>1 DEF IsCoder
    <2> QED
      BY <2>1, <2>2
  <1> HIDE DEF half, new
  <1>6. h <= half /\ h # 0
    BY <1>1, <1>2, <1>3
  <1>7. h * Base <= half * Base /\ h * Base \in Nat /\ half * Base \in Nat
    BY <1>2, <1>3, <1>6, TimesLess
  <1>8. kTopValue <= half * Base
    BY <1>1, <1>2, <1>7
  <1>9. SumsFit(new) /\ kTopValue <= new.range * Base
    BY <1>2, <1>3, <1>5, <1>6, <1>8 DEF SumsFit
  <1> QED
    BY <1>4, <1>9, NormFits

(* Flushing shifts low out five times.                                     *)
LEMMA ShiftFlushed ==
    ASSUME NEW rc, IsCoder(rc), rc.range \in kTopValue..(Word - 1), rc.low \in Nat,
           rc.cache \in 0..(Base - 1)
    PROVE  Flushed(RangeEnc_ShiftLow(rc))
  <1> DEFINE s == RangeEnc_ShiftLow(rc)
  <1>1. PICK high, c, m, L, new :
             /\ high \in Nat
             /\ TopByte(L, c, m, kTopValue, Base) /\ rc.low = Word * high + L
             /\ new = IF L < Word - kTopValue \/ high # 0 THEN c ELSE rc.cache
             /\ IsCoder(s) /\ s.range = rc.range /\ s.low = m * Base /\ s.cache = new
    BY ShiftLowIs
  <1> HIDE DEF s
  <1>2. m \in Nat /\ m + 1 <= kTopValue /\ c \in 0..(Base - 1)
    BY <1>1, Widths DEF TopByte
  <1>3. m * Base \in 0..(Word - 1)
    <2>1. (m + 1) * Base <= kTopValue * Base
      BY <1>2, Widths, TimesLess
    <2>2. (m + 1) * Base = m * Base + Base /\ m * Base \in Nat
      BY <1>2, Widths
    <2> QED
      BY <2>1, <2>2, Widths
  <1>4. new \in 0..(Base - 1)
    BY <1>1, <1>2
  <1>5. Flushed(s)
    BY <1>1, <1>3, <1>4 DEF Flushed
  <1> QED
    BY <1>5 DEF s

LEMMA FlushFits ==
    ASSUME NEW rc, RcFits(rc)
    PROVE  Flushed(RangeEnc_FlushData(rc))
  <1> DEFINE s1 == RangeEnc_ShiftLow(rc)
             s2 == RangeEnc_ShiftLow(s1)
             s3 == RangeEnc_ShiftLow(s2)
             s4 == RangeEnc_ShiftLow(s3)
             s5 == RangeEnc_ShiftLow(s4)
             shifted == CHOOSE f : f = [i \in 0 .. 5 |-> IF i = 0 THEN rc
                                                         ELSE RangeEnc_ShiftLow(f[i - 1])]
  <1>1. RangeEnc_FlushData(rc) = shifted[5]
    BY DEF RangeEnc_FlushData
  <1>2. Flushed(s1)
    BY ShiftFlushed, Widths DEF RcFits, SumsFit
  <1>3. ASSUME NEW s, Flushed(s) PROVE Flushed(RangeEnc_ShiftLow(s))
    <2>1. IsCoder(s) /\ s.range \in kTopValue..(Word - 1) /\ s.low \in Nat /\ s.cache \in 0..(Base - 1)
      BY <1>3, Widths DEF Flushed
    <2> QED
      BY <2>1, ShiftFlushed
  <1> HIDE DEF s1
  <1>4. Flushed(s2)
    BY <1>2, <1>3
  <1> HIDE DEF s2
  <1>5. Flushed(s3)
    BY <1>3, <1>4
  <1> HIDE DEF s3
  <1>6. Flushed(s4)
    BY <1>3, <1>5
  <1> HIDE DEF s4
  <1>7. Flushed(s5)
    BY <1>3, <1>6
  <1> HIDE DEF s5
  <1> DEFINE f == [i \in 0 .. 5 |-> IF i = 0 THEN rc ELSE IF i = 1 THEN s1 ELSE IF i = 2 THEN s2
                                    ELSE IF i = 3 THEN s3 ELSE IF i = 4 THEN s4 ELSE s5]
  <1>8. f = [i \in 0 .. 5 |-> IF i = 0 THEN rc ELSE RangeEnc_ShiftLow(f[i - 1])]
    <2>1. f[0] = rc /\ f[1] = s1 /\ f[2] = s2 /\ f[3] = s3 /\ f[4] = s4 /\ f[5] = s5
      OBVIOUS
    <2>2. \A i \in 0..5 : f[i] = IF i = 0 THEN rc ELSE RangeEnc_ShiftLow(f[i - 1])
      <3> HIDE DEF f
      <3> QED
        BY <2>1 DEF s1, s2, s3, s4, s5
    <2>3. f = [i \in 0..5 |-> f[i]]
      OBVIOUS
    <2> HIDE DEF f
    <2> QED
      BY <2>2, <2>3
  <1> HIDE DEF f
  <1>9. shifted = [i \in 0 .. 5 |-> IF i = 0 THEN rc ELSE RangeEnc_ShiftLow(shifted[i - 1])]
    BY <1>8
  <1> HIDE DEF shifted
  <1>10. shifted[0] = rc /\ \A i \in 1..5 : shifted[i] = RangeEnc_ShiftLow(shifted[i - 1])
    BY <1>9
  <1>11. shifted[1] = s1
    BY <1>10 DEF s1
  <1>12. shifted[2] = s2
    BY <1>10, <1>11 DEF s2
  <1>13. shifted[3] = s3
    BY <1>10, <1>12 DEF s3
  <1>14. shifted[4] = s4
    BY <1>10, <1>13 DEF s4
  <1>15. shifted[5] = s5
    BY <1>10, <1>14 DEF s5
  <1> QED
    BY <1>1, <1>7, <1>15

(***************************************************************************)
(* The bits of a packet are a sequence, of any length.                     *)
(***************************************************************************)
IsSeq(s) == \E S : s \in Seq(S)

LEMMA FunctionIsSeq ==
    ASSUME NEW n \in Int, NEW S, NEW f \in [1..n -> S]
    PROVE  IsSeq(f)
  <1>1. CASE n \in Nat
    <2>1. f \in Seq(S)
      BY <1>1
    <2> QED
      BY <2>1 DEF IsSeq
  <1>2. CASE n \notin Nat
    <2>1. 1..n = 1..0
      BY <1>2
    <2>2. f \in [1..0 -> S]
      BY <2>1
    <2>3. f \in Seq(S)
      <3> DEFINE z == 0
      <3>1. z \in Nat /\ f \in [1..z -> S]
        BY <2>2
      <3> HIDE DEF z
      <3> QED
        BY <3>1
    <2> QED
      BY <2>3 DEF IsSeq
  <1> QED
    BY <1>1, <1>2

LEMMA ConcatIsSeq ==
    ASSUME NEW s, NEW t, IsSeq(s), IsSeq(t)
    PROVE  IsSeq(s \o t)
  <1>1. PICK S : s \in Seq(S)
    BY DEF IsSeq
  <1>2. PICK T : t \in Seq(T)
    BY DEF IsSeq
  <1>3. s \in Seq(S \cup T)
    BY <1>1
  <1>4. t \in Seq(S \cup T)
    BY <1>2
  <1>5. s \o t \in Seq(S \cup T)
    BY <1>3, <1>4
  <1> QED
    BY <1>5 DEF IsSeq

LEMMA ShortIsSeq ==
    ASSUME NEW a, NEW b, NEW c
    PROVE  IsSeq(<<>>) /\ IsSeq(<<a>>) /\ IsSeq(<<a, b>>) /\ IsSeq(<<a, b, c>>)
  <1> DEFINE S == {a, b, c}
  <1>1. <<>> \in Seq(S) /\ <<a>> \in Seq(S) /\ <<a, b>> \in Seq(S) /\ <<a, b, c>> \in Seq(S)
    OBVIOUS
  <1> QED
    BY <1>1 DEF IsSeq

LEMMA TreeIsSeq ==
    ASSUME NEW n \in Int, NEW probs, NEW sym
    PROVE  IsSeq(TreeEncode(probs, n, sym)) /\ IsSeq(RcTree_ReverseEncode(probs, n, sym))
  <1>1. IsSeq(TreeEncode(probs, n, sym))
    <2> DEFINE bit(i) == BitAs(Node(probs, 2 ^ (i - 1) + sym \div 2 ^ (n - i + 1)),
                               BitOf(sym, n - i))
    <2>1. TreeEncode(probs, n, sym) = [i \in 1..n |-> bit(i)]
      BY DEF TreeEncode
    <2> HIDE DEF bit
    <2>2. TreeEncode(probs, n, sym) \in [1..n -> {bit(i) : i \in 1..n}]
      BY <2>1
    <2> QED
      BY <2>2, FunctionIsSeq
  <1>2. IsSeq(RcTree_ReverseEncode(probs, n, sym))
    <2> DEFINE m == CHOOSE m : m = [i \in 1 .. n |-> IF i = 1 THEN 1
                                                     ELSE 2 * m[i - 1] + BitOf(sym, i - 2)]
               bit(i) == BitAs(Node(probs, m[i]), BitOf(sym, i - 1))
    <2>1. RcTree_ReverseEncode(probs, n, sym) = [i \in 1..n |-> bit(i)]
      BY DEF RcTree_ReverseEncode
    <2> HIDE DEF bit
    <2>2. RcTree_ReverseEncode(probs, n, sym) \in [1..n -> {bit(i) : i \in 1..n}]
      BY <2>1
    <2> QED
      BY <2>2, FunctionIsSeq
  <1> QED
    BY <1>1, <1>2

LEMMA LiteralIsSeq ==
    ASSUME NEW context, NEW sym, NEW matchByte
    PROVE  /\ IsSeq(LitEnc_Encode(context, sym))
           /\ IsSeq(LitEnc_EncodeMatched(context, sym, matchByte))
  <1>0. LitBits \in Int
    BY FormatAssumption
  <1>1. IsSeq(LitEnc_Encode(context, sym))
    BY <1>0, TreeIsSeq DEF LitEnc_Encode
  <1>2. IsSeq(LitEnc_EncodeMatched(context, sym, matchByte))
    <2> DEFINE alike(i) == \A j \in LitBits - i + 1 .. LitBits - 1 :
                             BitOf(sym, j) = BitOf(matchByte, j)
               prefix(i) == 2 ^ (i - 1) + sym \div 2 ^ (LitBits - i + 1)
               index(i) == IF alike(i)
                           THEN LitSize * (1 + BitOf(matchByte, LitBits - i)) + prefix(i)
                           ELSE prefix(i)
               bit(i) == BitAs(<<"Literal", 0, context, index(i)>>, BitOf(sym, LitBits - i))
    <2>1. LitEnc_EncodeMatched(context, sym, matchByte) = [i \in 1..LitBits |-> bit(i)]
      BY DEF LitEnc_EncodeMatched
    <2> HIDE DEF bit
    <2>2. LitEnc_EncodeMatched(context, sym, matchByte) \in [1..LitBits -> {bit(i) : i \in 1..LitBits}]
      BY <2>1
    <2> QED
      BY <1>0, <2>2, FunctionIsSeq
  <1> QED
    BY <1>1, <1>2

LEMMA LengthIsSeq ==
    ASSUME NEW rep, NEW sym, NEW posState
    PROVE  IsSeq(LenEnc_Encode(rep, sym, posState))
  <1>0. LenLowBits \in Int /\ LenHighBits \in Int
    BY FormatAssumption
  <1> DEFINE c(b) == BitAs(<<"LenChoice", rep, 0, 0>>, b)
             d(b) == BitAs(<<"LenChoice2", rep, 0, 0>>, b)
             low == TreeEncode(<<"LenLow", rep, posState, 0>>, LenLowBits, sym)
             mid == TreeEncode(<<"LenMid", rep, posState, 0>>, LenLowBits, sym - kLenNumLowSymbols)
             high == TreeEncode(<<"LenHigh", rep, 0, 0>>, LenHighBits, sym - 2 * kLenNumLowSymbols)
  <1>1. IsSeq(low) /\ IsSeq(mid) /\ IsSeq(high)
    BY <1>0, TreeIsSeq
  <1>2. LenEnc_Encode(rep, sym, posState) =
          IF sym < kLenNumLowSymbols THEN <<c(0)>> \o low
          ELSE IF sym < 2 * kLenNumLowSymbols THEN <<c(1), d(0)>> \o mid
          ELSE <<c(1), d(1)>> \o high
    BY DEF LenEnc_Encode
  <1> HIDE DEF c, d, low, mid, high
  <1>3. IsSeq(<<c(0)>> \o low) /\ IsSeq(<<c(1), d(0)>> \o mid) /\ IsSeq(<<c(1), d(1)>> \o high)
    BY <1>1, ShortIsSeq, ConcatIsSeq
  <1> QED
    BY <1>2, <1>3

LEMMA RepIsSeq ==
    ASSUME NEW state, NEW posState, NEW p, p.dist \in 0..3
    PROVE  IsSeq(RepBits(state, posState, p))
  <1> DEFINE G0(b) == BitAs(<<"IsRepG0", state, 0, 0>>, b)
             G1(b) == BitAs(<<"IsRepG1", state, 0, 0>>, b)
             G2(b) == BitAs(<<"IsRepG2", state, 0, 0>>, b)
             Long(b) == BitAs(<<"IsRep0Long", state, posState, 0>>, b)
             bits == RepBits(state, posState, p)
  <1>1. \/ bits = <<G0(0), Long(IF p.len = 1 THEN 0 ELSE 1)>> \/ bits = <<G0(1), G1(0)>>
        \/ bits = <<G0(1), G1(1), G2(0)>> \/ bits = <<G0(1), G1(1), G2(1)>>
    BY DEF RepBits
  <1> HIDE DEF bits, G0, G1, G2, Long
  <1>2. IsSeq(bits)
    BY <1>1, ShortIsSeq
  <1> QED
    BY <1>2 DEF bits

(* Powers of two, of which the provers know the given ones only.           *)
IsPower(n) == 2 ^ n \in Nat \ {0}

LEMMA PowersOfTwo ==
    ASSUME NEW n \in 0..32
    PROVE  IsPower(n)
  <1>1. /\ 2 ^ 0 \in Nat \ {0} /\ 2 ^ 1 \in Nat \ {0} /\ 2 ^ 2 \in Nat \ {0} /\ 2 ^ 3 \in Nat \ {0}
        /\ 2 ^ 4 \in Nat \ {0} /\ 2 ^ 5 \in Nat \ {0} /\ 2 ^ 6 \in Nat \ {0} /\ 2 ^ 7 \in Nat \ {0}
        /\ 2 ^ 8 \in Nat \ {0} /\ 2 ^ 9 \in Nat \ {0} /\ 2 ^ 10 \in Nat \ {0} /\ 2 ^ 11 \in Nat \ {0}
        /\ 2 ^ 12 \in Nat \ {0} /\ 2 ^ 13 \in Nat \ {0} /\ 2 ^ 14 \in Nat \ {0} /\ 2 ^ 15 \in Nat \ {0}
        /\ 2 ^ 16 \in Nat \ {0} /\ 2 ^ 17 \in Nat \ {0} /\ 2 ^ 18 \in Nat \ {0} /\ 2 ^ 19 \in Nat \ {0}
        /\ 2 ^ 20 \in Nat \ {0} /\ 2 ^ 21 \in Nat \ {0} /\ 2 ^ 22 \in Nat \ {0} /\ 2 ^ 23 \in Nat \ {0}
        /\ 2 ^ 24 \in Nat \ {0} /\ 2 ^ 25 \in Nat \ {0} /\ 2 ^ 26 \in Nat \ {0} /\ 2 ^ 27 \in Nat \ {0}
        /\ 2 ^ 28 \in Nat \ {0} /\ 2 ^ 29 \in Nat \ {0} /\ 2 ^ 30 \in Nat \ {0} /\ 2 ^ 31 \in Nat \ {0}
        /\ 2 ^ 32 \in Nat \ {0}
    BY SMT
  <1>2. /\ IsPower(0) /\ IsPower(1) /\ IsPower(2) /\ IsPower(3) /\ IsPower(4) /\ IsPower(5)
        /\ IsPower(6) /\ IsPower(7) /\ IsPower(8) /\ IsPower(9) /\ IsPower(10) /\ IsPower(11)
        /\ IsPower(12) /\ IsPower(13) /\ IsPower(14) /\ IsPower(15) /\ IsPower(16) /\ IsPower(17)
        /\ IsPower(18) /\ IsPower(19) /\ IsPower(20) /\ IsPower(21) /\ IsPower(22) /\ IsPower(23)
        /\ IsPower(24) /\ IsPower(25) /\ IsPower(26) /\ IsPower(27) /\ IsPower(28) /\ IsPower(29)
        /\ IsPower(30) /\ IsPower(31) /\ IsPower(32)
    BY <1>1, Zenon DEF IsPower
  <1> QED
    BY <1>2, SMT

(* The distance that is the end marker has 32 bits at most.                *)
IsMark(n) == 2 ^ (2 ^ (n - 1)) \in Nat /\ 2 ^ (2 ^ (n - 1)) <= 2 ^ 32

LEMMA DistancesFit == DictSize \in Nat /\ DictSize < 2 ^ 32
  <1>1. /\ 2 ^ (2 ^ (1 - 1)) \in Nat /\ 2 ^ (2 ^ (1 - 1)) <= 2 ^ 32
        /\ 2 ^ (2 ^ (2 - 1)) \in Nat /\ 2 ^ (2 ^ (2 - 1)) <= 2 ^ 32
        /\ 2 ^ (2 ^ (3 - 1)) \in Nat /\ 2 ^ (2 ^ (3 - 1)) <= 2 ^ 32
        /\ 2 ^ (2 ^ (4 - 1)) \in Nat /\ 2 ^ (2 ^ (4 - 1)) <= 2 ^ 32
        /\ 2 ^ (2 ^ (5 - 1)) \in Nat /\ 2 ^ (2 ^ (5 - 1)) <= 2 ^ 32
        /\ 2 ^ (2 ^ (6 - 1)) \in Nat /\ 2 ^ (2 ^ (6 - 1)) <= 2 ^ 32
    BY SMT
  <1>2. IsMark(1) /\ IsMark(2) /\ IsMark(3) /\ IsMark(4) /\ IsMark(5) /\ IsMark(6)
    BY <1>1, Zenon DEF IsMark
  <1>3. PosSlotBits \in 1..6 /\ DictSize \in 1..EndMarkDistance
    BY FormatAssumption, SMT
  <1>4. IsMark(PosSlotBits)
    BY <1>2, <1>3, SMT
  <1> DEFINE mark == 2 ^ (2 ^ (PosSlotBits - 1))
             all == 2 ^ 32
  <1>5. mark \in Nat /\ mark <= all
    BY <1>4, Zenon DEF IsMark
  <1>6. all \in Nat
    BY SMT
  <1>7. DictSize \in 1..(mark - 1)
    BY <1>3, Zenon DEF EndMarkDistance
  <1> HIDE DEF mark, all
  <1>8. DictSize \in Nat /\ DictSize < all
    BY <1>5, <1>6, <1>7, SMT
  <1> QED
    BY <1>8, Zenon DEF all

(* A number of 32 bits has a highest bit.                                  *)
LEMMA HighestBit ==
    ASSUME NEW dist \in Nat, dist < 2 ^ 32, 2 <= dist
    PROVE  \E n \in 1..31 : 2 ^ n <= dist /\ dist < 2 ^ (n + 1)
  <1> SUFFICES ASSUME \A n \in 1..31 : ~(2 ^ n <= dist /\ dist < 2 ^ (n + 1)) PROVE FALSE
    BY Zenon
  <1> DEFINE P == [n \in 0..32 |-> 2 ^ n]
             S == {k \in Nat : k \in 1..32 => P[k] <= dist}
  <1>1. \A n \in 0..32 : P[n] = 2 ^ n /\ P[n] \in Nat
    BY PowersOfTwo DEF IsPower
  <1>2. P[1] = 2
    <2>1. 2 ^ 1 = 2
      BY SMT
    <2>2. P[1] = 2 ^ 1
      <3>1. 1 \in 0..32
        BY SMT
      <3> QED
        BY <1>1, <3>1, Zenon
    <2> QED
      BY <2>1, <2>2, Zenon
  <1>3. ~(P[32] <= dist)
    <2>1. 32 \in 0..32
      BY SMT
    <2>2. P[32] = 2 ^ 32
      BY <1>1, <2>1, Zenon
    <2>3. 2 ^ 32 \in Nat
      BY SMT
    <2> DEFINE all == 2 ^ 32
    <2>4. all \in Nat /\ P[32] = all /\ dist < all
      BY <2>2, <2>3, Zenon
    <2> HIDE DEF all, P
    <2> QED
      BY <2>4, SMT
  <1>4. \A n \in 1..31 : ~(P[n] <= dist /\ dist < P[n + 1])
    <2> TAKE n \in 1..31
    <2>1. n \in 0..32 /\ n + 1 \in 0..32
      BY SMT
    <2>2. P[n] = 2 ^ n /\ P[n + 1] = 2 ^ (n + 1)
      BY <1>1, <2>1, Zenon
    <2> QED
      BY <2>2, Zenon
  <1> HIDE DEF P
  <1>5. 0 \in S
    BY SMT
  <1>6. \A n \in Nat : n \in S => n + 1 \in S
    <2> SUFFICES ASSUME NEW n \in Nat, n \in S, n + 1 \in 1..32 PROVE P[n + 1] <= dist
      BY SMT
    <2>1. CASE n = 0
      BY <1>2, <2>1, SMT
    <2>2. CASE n # 0
      <3>1. n \in 1..31 /\ P[n] <= dist
        BY <2>2, SMT
      <3>2. ~(dist < P[n + 1])
        BY <1>4, <3>1, Zenon
      <3>3. P[n + 1] \in Nat
        BY <1>1, <3>1, SMT
      <3> QED
        BY <3>2, <3>3, SMT
    <2> QED
      BY <2>1, <2>2
  <1>7. \A n \in Nat : n \in S
    <2> HIDE DEF S
    <2> QED
      BY <1>5, <1>6, SetInduction
  <1>8. P[32] <= dist
    <2>1. 32 \in Nat /\ 32 \in 1..32
      BY SMT
    <2> QED
      BY <1>7, <2>1, Zenon
  <1> QED
    BY <1>3, <1>8, Zenon

LEMMA PosSlotType ==
    ASSUME NEW dist \in Nat, dist < 2 ^ 32
    PROVE  GetPosSlot(dist) \in Nat
  <1>1. CASE dist < 2
    BY <1>1, SMT DEF GetPosSlot
  <1>2. CASE ~(dist < 2)
    <2> DEFINE top == CHOOSE n \in 1 .. 31 : 2 ^ n <= dist /\ dist < 2 ^ (n + 1)
    <2>1. GetPosSlot(dist) = 2 * top + BitOf(dist, top - 1)
      BY <1>2, Zenon DEF GetPosSlot
    <2>2. 2 <= dist
      BY <1>2, SMT
    <2>3. top \in 1..31
      BY <2>2, HighestBit, Zenon
    <2> HIDE DEF top
    <2>4. top - 1 \in 0..32
      BY <2>3, SMT
    <2> DEFINE w == 2 ^ (top - 1)
    <2>5. w \in Nat \ {0}
      BY <2>4, PowersOfTwo, Zenon DEF IsPower
    <2>6. BitOf(dist, top - 1) = (dist \div w) % 2
      BY Zenon DEF BitOf
    <2> HIDE DEF w
    <2>7. dist \div w \in Nat
      BY <2>5, Remainder
    <2> DEFINE q == dist \div w
    <2>8. q % 2 \in Nat
      <3> HIDE DEF q
      <3>1. q \in Nat
        BY <2>7 DEF q
      <3> QED
        BY <3>1, SMT
    <2> HIDE DEF q
    <2>9. GetPosSlot(dist) = 2 * top + (q % 2)
      BY <2>1, <2>6 DEF q
    <2> DEFINE r == q % 2
    <2> HIDE DEF r
    <2>10. r \in Nat
      BY <2>8 DEF r
    <2>11. 2 * top + r \in Nat
      BY <2>3, <2>10, SMT
    <2> QED
      BY <2>9, <2>11 DEF r
  <1> QED
    BY <1>1, <1>2

LEMMA DistanceIsSeq ==
    ASSUME NEW dist \in Nat, dist < 2 ^ 32, NEW len
    PROVE  IsSeq(DistanceBits(dist, len))
  <1> DEFINE posSlot == GetPosSlot(dist)
             footerBits == posSlot \div 2 - 1
             base == (2 + (posSlot % 2)) * 2 ^ footerBits
             slot == TreeEncode(<<"PosSlot", 0, GetLenToPosState(len), 0>>, PosSlotBits, posSlot)
             bit(i) == BitAs(Direct, BitOf(dist, footerBits - i))
             direct == [i \in 1 .. footerBits - AlignBits |-> bit(i)]
             align == RcTree_ReverseEncode(<<"Align", 0, 0, 0>>, AlignBits, dist)
             footer == RcTree_ReverseEncode(<<"SpecPos", 0, 0, base>>, footerBits, dist)
  <1>1. posSlot \in Nat
    BY PosSlotType
  <1>2. footerBits \in Int
    <2> HIDE DEF posSlot
    <2> QED
      BY <1>1
  <1>3. PosSlotBits \in Int /\ AlignBits \in Int
    BY FormatAssumption
  <1>4. DistanceBits(dist, len) =
          slot \o (IF dist < kStartPosModelIndex THEN <<>>
                   ELSE IF dist < kNumFullDistances THEN footer ELSE direct \o align)
    BY DEF DistanceBits
  <1> HIDE DEF posSlot, base, bit
  <1>5. IsSeq(slot) /\ IsSeq(align)
    BY <1>3, TreeIsSeq
  <1> HIDE DEF footerBits
  <1>6. IsSeq(footer)
    BY <1>2, TreeIsSeq
  <1>7. IsSeq(direct)
    <2> DEFINE n == footerBits - AlignBits
    <2>1. n \in Int
      BY <1>2, <1>3
    <2>2. direct \in [1..n -> {bit(i) : i \in 1..n}]
      OBVIOUS
    <2> HIDE DEF n, direct
    <2> QED
      BY <2>1, <2>2, FunctionIsSeq
  <1> HIDE DEF slot, direct, align, footer
  <1>8. IsSeq(direct \o align) /\ IsSeq(<<>>)
    BY <1>5, <1>7, ShortIsSeq, ConcatIsSeq
  <1> DEFINE rest == IF dist < kStartPosModelIndex THEN <<>>
                     ELSE IF dist < kNumFullDistances THEN footer ELSE direct \o align
  <1>9. IsSeq(rest)
    BY <1>6, <1>8
  <1> HIDE DEF rest
  <1>10. IsSeq(slot \o rest)
    BY <1>5, <1>9, ConcatIsSeq
  <1> QED
    BY <1>4, <1>10 DEF rest

(* What a packet may be.                                                   *)
IsPacket(p) ==
    \/ p.dist = MARK_LIT
    \/ p.dist \in 0..3
    \/ p.dist \in Nat /\ kNumReps <= p.dist /\ p.dist - kNumReps \in Nat
       /\ p.dist - kNumReps < 2 ^ 32

LEMMA TrueIsPacket ==
    ASSUME NEW d, NEW pos, NEW reps, NEW p \in TruePackets(d, pos, reps)
    PROVE  IsPacket(p)
  <1>1. \/ p = Packet(MARK_LIT, 1)
        \/ p.dist \in {0}
        \/ p.dist \in 0 .. kNumReps - 1
        \/ p.dist \in kNumReps .. DictSize - 1 + kNumReps
    BY DEF TruePackets
  <1>2. CASE p = Packet(MARK_LIT, 1)
    BY <1>2 DEF Packet, IsPacket
  <1>3. CASE p.dist \in {0} \/ p.dist \in 0 .. kNumReps - 1
    <2>1. p.dist \in 0..3
      BY <1>3, SMT DEF kNumReps
    <2> QED
      BY <2>1, Zenon DEF IsPacket
  <1>4. CASE p.dist \in kNumReps .. DictSize - 1 + kNumReps
    <2> DEFINE all == 2 ^ 32
    <2>1. DictSize \in Nat /\ DictSize < all
      BY DistancesFit
    <2>2. all \in Nat
      BY SMT
    <2> HIDE DEF all
    <2>3. p.dist \in Nat /\ kNumReps <= p.dist /\ p.dist - kNumReps \in Nat
          /\ p.dist - kNumReps < all
      BY <1>4, <2>1, <2>2, SMT DEF kNumReps
    <2> QED
      BY <2>3, Zenon DEF IsPacket, all
  <1> QED
    BY <1>1, <1>2, <1>3, <1>4

LEMMA PacketIsSeq ==
    ASSUME NEW pos, NEW state, NEW reps, NEW p, IsPacket(p)
    PROVE  IsSeq(PacketBits(pos, state, reps, p))
  <1> DEFINE posState == PosState(Pb, pos)
             context == LitContext(Lc, Lp, pos, ByteAt(pos - 1))
             m(b) == BitAs(<<"IsMatch", state, posState, 0>>, b)
             r(b) == BitAs(<<"IsRep", state, 0, 0>>, b)
             len(rep) == LenEnc_Encode(rep, p.len - kMatchMinLen, posState)
             lit == IF state < kNumLitStates THEN LitEnc_Encode(context, ByteAt(pos))
                    ELSE LitEnc_EncodeMatched(context, ByteAt(pos), ByteAt(pos - reps[1]))
             rest == IF p.len = 1 THEN <<>> ELSE len(1)
             rep == RepBits(state, posState, p)
             far == DistanceBits(p.dist - kNumReps, p.len)
  <1>1. IsSeq(lit)
    BY LiteralIsSeq
  <1>2. IsSeq(len(1)) /\ IsSeq(len(0))
    BY LengthIsSeq
  <1>3. PacketBits(pos, state, reps, p) =
          IF p.dist = MARK_LIT THEN <<m(0)>> \o lit
          ELSE IF p.dist < kNumReps THEN <<m(1), r(1)>> \o rep \o rest
          ELSE <<m(1), r(0)>> \o len(0) \o far
    BY DEF PacketBits
  <1>4. p.dist \in 0..3 => IsSeq(rep)
    BY RepIsSeq
  <1>5. p.dist - kNumReps \in Nat /\ p.dist - kNumReps < 2 ^ 32 => IsSeq(far)
    BY DistanceIsSeq
  <1> HIDE DEF m, r, lit, rep, far, len
  <1>6. IsSeq(rest)
    BY <1>2, ShortIsSeq
  <1> HIDE DEF rest
  <1>7. IsSeq(<<m(0)>> \o lit) /\ IsSeq(<<m(1), r(1)>>) /\ IsSeq(<<m(1), r(0)>> \o len(0))
    BY <1>1, <1>2, ShortIsSeq, ConcatIsSeq
  <1>8. CASE p.dist = MARK_LIT
    BY <1>3, <1>7, <1>8
  <1>9. CASE p.dist \in 0..3
    <2>1. p.dist # MARK_LIT /\ p.dist < kNumReps
      BY <1>9, SMT DEF MARK_LIT, kNumReps
    <2>2. IsSeq(<<m(1), r(1)>> \o rep \o rest)
      BY <1>4, <1>6, <1>7, <1>9, ConcatIsSeq
    <2> QED
      BY <1>3, <2>1, <2>2
  <1>10. CASE p.dist \in Nat /\ kNumReps <= p.dist /\ p.dist - kNumReps \in Nat
              /\ p.dist - kNumReps < 2 ^ 32
    <2>1. p.dist # MARK_LIT /\ ~(p.dist < kNumReps)
      BY <1>10, SMT DEF MARK_LIT, kNumReps
    <2>2. IsSeq(<<m(1), r(0)>> \o len(0) \o far)
      BY <1>5, <1>7, <1>10, ConcatIsSeq
    <2> QED
      BY <1>3, <2>1, <2>2
  <1> QED
    BY <1>8, <1>9, <1>10 DEF IsPacket

(***************************************************************************)
(* The encoder, bit after bit.                                             *)
(***************************************************************************)
IsEnc(e) == e = [rc |-> e.rc, probs |-> e.probs, state |-> e.state, reps |-> e.reps,
                 nowPos |-> e.nowPos, finished |-> e.finished]

EncFits(e) == IsEnc(e) /\ RcFits(e.rc) /\ ProbsFit(e.probs)

\* One bit of Encoded.
BitSent(e, x) ==
    LET key == x.key
        b == x.bit
    IN  IF key = Direct THEN [e EXCEPT !.rc = RC_DIRECT(@, b)]
        ELSE [e EXCEPT !.rc = RC_BIT(@, Prob(e.probs, key), b), !.probs = Adapt(@, key, b)]

LEMMA BitSentFits ==
    ASSUME NEW e, EncFits(e), NEW x
    PROVE  EncFits(BitSent(e, x))
  <1> DEFINE key == x.key
             b == x.bit
             direct == RC_DIRECT(e.rc, b)
             coded == RC_BIT(e.rc, Prob(e.probs, key), b)
             probs == Adapt(e.probs, key, b)
             s == BitSent(e, x)
  <1>1. IsEnc(e) /\ RcFits(e.rc) /\ ProbsFit(e.probs)
    BY DEF EncFits
  <1>2. RcFits(direct)
    BY <1>1, DirectFits
  <1>3. RcFits(coded)
    <2>1. Prob(e.probs, key) \in Probable
      BY <1>1, ProbProbable
    <2> QED
      BY <1>1, <2>1, BitFits
  <1>4. ProbsFit(probs)
    BY <1>1, AdaptFits
  <1>5. s = IF key = Direct THEN [e EXCEPT !.rc = direct]
            ELSE [e EXCEPT !.rc = coded, !.probs = probs]
    BY DEF BitSent
  <1> HIDE DEF key, b, direct, coded, probs, s
  <1>6. CASE key = Direct
    <2>1. IsEnc(s) /\ s.rc = direct /\ s.probs = e.probs
      BY <1>1, <1>5, <1>6 DEF IsEnc
    <2> QED
      BY <1>1, <1>2, <2>1 DEF EncFits, s
  <1>7. CASE key # Direct
    <2>1. IsEnc(s) /\ s.rc = coded /\ s.probs = probs
      BY <1>1, <1>5, <1>7 DEF IsEnc
    <2> QED
      BY <1>3, <1>4, <2>1 DEF EncFits, s
  <1> QED
    BY <1>6, <1>7

\* f has the encoder after none to n of the bits.
AreSent(f, e, bits, n) ==
    f = [i \in 0..n |-> IF i = 0 THEN e ELSE BitSent(f[i - 1], bits[i])]

LEMMA SentExists ==
    ASSUME NEW e, NEW bits, NEW n \in Nat
    PROVE  \E f : AreSent(f, e, bits, n)
  <1> DEFINE S == {k \in Nat : \E f : AreSent(f, e, bits, k)}
  <1>1. 0 \in S
    <2> DEFINE f == [i \in 0..0 |-> e]
    <2>1. \A i \in 0..0 : i = 0 /\ f[i] = e
      OBVIOUS
    <2>2. f = [i \in 0..0 |-> IF i = 0 THEN e ELSE BitSent(f[i - 1], bits[i])]
      BY <2>1
    <2>3. AreSent(f, e, bits, 0)
      BY <2>2 DEF AreSent
    <2> QED
      BY <2>3
  <1>2. \A k \in Nat : k \in S => k + 1 \in S
    <2> SUFFICES ASSUME NEW k \in Nat, k \in S PROVE k + 1 \in S
      OBVIOUS
    <2>1. PICK f : AreSent(f, e, bits, k)
      OBVIOUS
    <2>2. \A i \in 0..k : f[i] = IF i = 0 THEN e ELSE BitSent(f[i - 1], bits[i])
      BY <2>1 DEF AreSent
    <2> DEFINE g == [i \in 0..(k + 1) |-> IF i = k + 1 THEN BitSent(f[k], bits[k + 1]) ELSE f[i]]
    <2>3. \A i \in 0..(k + 1) : g[i] = IF i = k + 1 THEN BitSent(f[k], bits[k + 1]) ELSE f[i]
      OBVIOUS
    <2>4. g = [i \in 0..(k + 1) |-> g[i]]
      OBVIOUS
    <2> HIDE DEF g
    <2>5. \A i \in 0..(k + 1) : g[i] = IF i = 0 THEN e ELSE BitSent(g[i - 1], bits[i])
      <3> TAKE i \in 0..(k + 1)
      <3>1. CASE i = k + 1
        <4>1. g[i] = BitSent(f[k], bits[i]) /\ i # 0 /\ i - 1 = k
          BY <2>3, <3>1
        <4>2. g[k] = f[k]
          BY <2>3
        <4> QED
          BY <4>1, <4>2
      <3>2. CASE i # k + 1
        <4>1. i \in 0..k /\ g[i] = f[i]
          BY <2>3, <3>2
        <4>2. i # 0 => i - 1 \in 0..k /\ g[i - 1] = f[i - 1]
          BY <2>3, <4>1
        <4> QED
          BY <2>2, <4>1, <4>2
      <3> QED
        BY <3>1, <3>2
    <2>6. AreSent(g, e, bits, k + 1)
      BY <2>4, <2>5 DEF AreSent
    <2> QED
      BY <2>6
  <1>3. \A k \in Nat : k \in S
    <2> HIDE DEF S
    <2> QED
      BY <1>1, <1>2, SetInduction
  <1> QED
    BY <1>3

LEMMA EncodedFits ==
    ASSUME NEW e, EncFits(e), NEW bits, IsSeq(bits)
    PROVE  EncFits(Encoded(e, bits))
  <1> DEFINE n == Len(bits)
             after == CHOOSE f : f = [i \in 0..n |-> IF i = 0 THEN e ELSE BitSent(f[i - 1], bits[i])]
             S == {k \in Nat : k \in 0..n => EncFits(after[k])}
  <1>1. n \in Nat
    BY DEF IsSeq
  <1>2. Encoded(e, bits) = after[n]
    BY DEF Encoded, BitSent
  <1> HIDE DEF n
  <1>3. \E f : f = [i \in 0..n |-> IF i = 0 THEN e ELSE BitSent(f[i - 1], bits[i])]
    <2>1. PICK f : AreSent(f, e, bits, n)
      BY <1>1, SentExists
    <2> QED
      BY <2>1 DEF AreSent
  <1>4. after = [i \in 0..n |-> IF i = 0 THEN e ELSE BitSent(after[i - 1], bits[i])]
    BY <1>3
  <1> HIDE DEF after
  <1>5. 0 \in S
    BY <1>1, <1>4
  <1>6. \A k \in Nat : k \in S => k + 1 \in S
    <2> SUFFICES ASSUME NEW k \in Nat, k \in S, k + 1 \in 0..n PROVE EncFits(after[k + 1])
      OBVIOUS
    <2>1. k \in 0..n /\ EncFits(after[k])
      BY <1>1
    <2>2. after[k + 1] = BitSent(after[k], bits[k + 1])
      <3>1. \A i \in 0..n : after[i] = IF i = 0 THEN e ELSE BitSent(after[i - 1], bits[i])
        BY <1>4
      <3>2. (k + 1) - 1 = k /\ k + 1 # 0
        OBVIOUS
      <3> QED
        BY <3>1, <3>2
    <2> QED
      BY <2>1, <2>2, BitSentFits
  <1>7. \A k \in Nat : k \in S
    <2> HIDE DEF S
    <2> QED
      BY <1>5, <1>6, SetInduction
  <1>8. EncFits(after[n])
    BY <1>1, <1>7
  <1> QED
    BY <1>2, <1>8

(***************************************************************************)
(* The encoder codes, or has been flushed.                                 *)
(***************************************************************************)
Coding == EncFits(enc) \/ (enc.finished /\ IsEnc(enc) /\ Flushed(enc.rc))

LEMMA CodingInit == Init => Coding
  <1> SUFFICES ASSUME Init PROVE EncFits(enc)
    BY DEF Coding
  <1>1. enc = LzmaEnc_Init
    BY DEF Init
  <1>2. IsEnc(enc) /\ enc.rc = RangeEnc_Init /\ enc.probs = <<>>
    BY <1>1 DEF LzmaEnc_Init, IsEnc
  <1> DEFINE rc == RangeEnc_Init
  <1>3. IsCoder(rc) /\ rc.range = Word - 1 /\ rc.low = 0 /\ rc.cache = 0
    BY DEF RangeEnc_Init, IsCoder
  <1> HIDE DEF rc
  <1>4. RcFits(rc)
    BY <1>3, Widths DEF RcFits, SumsFit
  <1>5. ProbsFit(<<>>)
    BY DEF ProbsFit
  <1> QED
    BY <1>2, <1>4, <1>5 DEF EncFits, rc

LEMMA CodingStep == Coding /\ [Next]_vars => Coding'
  <1> SUFFICES ASSUME Coding, [Next]_vars PROVE Coding'
    OBVIOUS
  <1>1. CASE CodeFirstByte
    <2> DEFINE bits == <<BitAs(<<"IsMatch", 0, 0, 0>>, 0)>> \o LitEnc_Encode(0, ByteAt(0))
               e == Encoded(enc, bits)
    <2>1. enc' = [e EXCEPT !.nowPos = 1] /\ EncFits(enc)
      BY <1>1 DEF CodeFirstByte, Coding
    <2>2. IsSeq(bits)
      BY LiteralIsSeq, ShortIsSeq, ConcatIsSeq
    <2> HIDE DEF bits
    <2>3. EncFits(e)
      BY <2>1, <2>2, EncodedFits
    <2> HIDE DEF e
    <2>4. IsEnc(enc') /\ enc'.rc = e.rc /\ enc'.probs = e.probs
      BY <2>1, <2>3 DEF EncFits, IsEnc
    <2> QED
      BY <2>3, <2>4 DEF EncFits, Coding
  <1>2. CASE CodePacket
    <2>1. PICK p \in TruePackets(data, enc.nowPos, enc.reps) :
            enc' = [Encoded(enc, PacketBits(enc.nowPos, enc.state, enc.reps, p))
                    EXCEPT !.state = NextState(@, p), !.reps = NextReps(@, p),
                           !.nowPos = @ + p.len]
      BY <1>2 DEF CodePacket
    <2> DEFINE bits == PacketBits(enc.nowPos, enc.state, enc.reps, p)
               e == Encoded(enc, bits)
    <2>2. IsSeq(bits)
      BY TrueIsPacket, PacketIsSeq
    <2>3. EncFits(enc)
      BY <1>2 DEF CodePacket, Coding
    <2>4. enc' = [e EXCEPT !.state = NextState(@, p), !.reps = NextReps(@, p), !.nowPos = @ + p.len]
      BY <2>1
    <2> HIDE DEF bits
    <2>5. EncFits(e)
      BY <2>2, <2>3, EncodedFits
    <2> HIDE DEF e
    <2>6. IsEnc(enc') /\ enc'.rc = e.rc /\ enc'.probs = e.probs
      BY <2>4, <2>5 DEF EncFits, IsEnc
    <2> QED
      BY <2>5, <2>6 DEF EncFits, Coding
  <1>3. CASE Flush
    <2> DEFINE rc == RangeEnc_FlushData(enc.rc)
    <2>1. enc' = [enc EXCEPT !.rc = rc, !.finished = TRUE] /\ EncFits(enc)
      BY <1>3 DEF Flush, Coding
    <2>2. Flushed(rc)
      BY <2>1, FlushFits DEF EncFits
    <2> HIDE DEF rc
    <2>3. IsEnc(enc') /\ enc'.rc = rc /\ enc'.finished
      BY <2>1 DEF EncFits, IsEnc
    <2> QED
      BY <2>2, <2>3 DEF Coding
  <1>4. CASE UNCHANGED enc
    BY <1>4 DEF Coding
  <1> QED
    BY <1>1, <1>2, <1>3, <1>4
       DEF Next, Compress, Uncompress, EncNext, ReceiveWhole, ReceiveCut, ReceiveChanged, vars

LEMMA CodingCarryFits == Coding => CarryFits
  <1> SUFFICES ASSUME Coding PROVE CarryFits
    OBVIOUS
  <1>1. CASE EncFits(enc)
    <2>1. RcFits(enc.rc)
      BY <1>1 DEF EncFits
    <2> QED
      BY <2>1, Widths DEF RcFits, SumsFit, CarryFits
  <1>2. CASE Flushed(enc.rc)
    BY <1>2, Widths DEF Flushed, CarryFits
  <1> QED
    BY <1>1, <1>2 DEF Coding

(* Whatever the chunk and the packets the encoder chooses, low and range   *)
(* never make more than two words, and low is never more than one while    *)
(* the byte kept back is full: a carry always has the byte to go to, and   *)
(* the range is wide enough for the next bit (RangeEnc_ShiftLow and RC_BIT *)
(* of LzmaEnc.c).                                                          *)
THEOREM CarryIsKept == Spec => []CarryFits
  <1>1. Init => Coding
    BY CodingInit
  <1>2. Coding /\ [Next]_vars => Coding'
    BY CodingStep
  <1>3. Coding => CarryFits
    BY CodingCarryFits
  <1> QED
    BY <1>1, <1>2, <1>3, PTL DEF Spec
(***************************************************************************)
(* The decoder reads.                                                      *)
(***************************************************************************)
DecFields ==
    {"pc", "res", "status", "src", "buf", "range", "code", "bit", "sym", "dry", "eof", "over",
     "stray", "break", "prop", "probs", "state", "reps", "processedPos", "checkDicSize",
     "dicSize", "remainLen", "dic", "dicLimit", "bufLimit", "dummyProcessed", "start"}
IsDec(d) == d = [f \in DecFields |-> d[f]]

\* Reading bits leaves alone all that is not about reading.
ReadFields == {"buf", "range", "code", "bit", "sym", "over", "probs"}
Kept(d, e) == IsDec(e) /\ \A f \in DecFields \ ReadFields : e[f] = d[f]

\* A decoder that is no dry run.
Real(d) == IsDec(d) /\ d.eof = FALSE /\ d.dry = FALSE

\* One bit has been read.
BitRead(d, e) == Kept(d, e) /\ e.sym = d.sym /\ e.bit \in {0, 1}

LEMMA KeptTwice ==
    ASSUME NEW d, NEW e, NEW f, Kept(d, e), Kept(e, f)
    PROVE  Kept(d, f)
  BY DEF Kept

LEMMA KeptReal ==
    ASSUME NEW d, NEW e, Real(d), Kept(d, e)
    PROVE  Real(e)
  BY DEF Kept, Real, DecFields, ReadFields

LEMMA KeptSame ==
    ASSUME NEW d, IsDec(d)
    PROVE  Kept(d, d)
  BY DEF Kept

LEMMA NormalizeKeeps ==
    ASSUME NEW d, IsDec(d)
    PROVE  Kept(d, NORMALIZE(d)) /\ NORMALIZE(d).sym = d.sym
  <1> DEFINE range == d.range * Base
             code == (d.code * Base + NextDigit(d)) % Word
             buf == d.buf + 1
             over == d.over \/ d.buf >= Len(d.src)
  <1>1. Take(d) = [d EXCEPT !.range = range, !.code = code, !.buf = buf, !.over = over]
    BY DEF Take
  <1> HIDE DEF range, code, buf, over
  <1> DEFINE e == Take(d)
  <1> HIDE DEF e
  <1>2. IsDec(e) /\ \A f \in DecFields \ {"range", "code", "buf", "over"} : e[f] = d[f]
    BY <1>1 DEF IsDec, DecFields, e
  <1>3. Kept(d, Take(d)) /\ Take(d).sym = d.sym
    <2>1. Kept(d, e) /\ e.sym = d.sym
      BY <1>2 DEF DecFields, ReadFields, Kept
    <2> QED
      BY <2>1 DEF e
  <1> QED
    BY <1>3, KeptSame DEF NORMALIZE

LEMMA NarrowKeeps ==
    ASSUME NEW d, Real(d), NEW t
    PROVE  BitRead(d, Narrow(d, t))
  <1> DEFINE bound == (d.range \div kBitModelTotal) * t
             less == d.range - bound
             code == d.code - bound
             e == Narrow(d, t)
  <1>1. e = IF d.code < bound THEN [d EXCEPT !.range = bound, !.bit = 0]
            ELSE [d EXCEPT !.range = less, !.code = code, !.bit = 1]
    BY DEF Narrow, Real
  <1>2. IsDec(d)
    BY DEF Real
  <1> HIDE DEF bound, less, code, e
  <1>3. CASE d.code < bound
    <2>1. e = [d EXCEPT !.range = bound, !.bit = 0]
      BY <1>1, <1>3
    <2>2. IsDec(e)
      BY <1>2, <2>1 DEF IsDec, DecFields
    <2>3. Kept(d, e)
      BY <1>2, <2>1, <2>2 DEF IsDec, DecFields, ReadFields, Kept
    <2>4. e.sym = d.sym /\ e.bit \in {0, 1}
      BY <1>2, <2>1 DEF IsDec, DecFields
    <2> QED
      BY <2>3, <2>4 DEF BitRead, e
  <1>4. CASE ~(d.code < bound)
    <2>1. e = [d EXCEPT !.range = less, !.code = code, !.bit = 1]
      BY <1>1, <1>4
    <2>2. IsDec(e)
      BY <1>2, <2>1 DEF IsDec, DecFields
    <2>3. Kept(d, e)
      BY <1>2, <2>1, <2>2 DEF IsDec, DecFields, ReadFields, Kept
    <2>4. e.sym = d.sym /\ e.bit \in {0, 1}
      BY <1>2, <2>1 DEF IsDec, DecFields
    <2> QED
      BY <2>3, <2>4 DEF BitRead, e
  <1> QED
    BY <1>3, <1>4

LEMMA UpdateKeeps ==
    ASSUME NEW d, IsDec(d), NEW key
    PROVE  Kept(d, Update(d, key)) /\ Update(d, key).sym = d.sym /\ Update(d, key).bit = d.bit
  <1> DEFINE probs == Adapt(d.probs, key, d.bit)
             e == Update(d, key)
  <1>1. e = [d EXCEPT !.probs = probs]
    BY DEF Update
  <1> HIDE DEF probs, e
  <1>2. IsDec(e)
    BY <1>1 DEF IsDec, DecFields
  <1> QED
    BY <1>1, <1>2 DEF IsDec, DecFields, ReadFields, Kept, e

LEMMA HalveKeeps ==
    ASSUME NEW d, Real(d)
    PROVE  BitRead(d, Halve(d))
  <1> DEFINE half == d.range \div 2
             code == d.code - half
             e == Halve(d)
  <1>1. e = IF d.code >= half THEN [d EXCEPT !.range = half, !.code = code, !.bit = 1]
            ELSE [d EXCEPT !.range = half, !.bit = 0]
    BY DEF Halve, Real
  <1>2. IsDec(d)
    BY DEF Real
  <1> HIDE DEF half, code, e
  <1>3. CASE d.code >= half
    <2>1. e = [d EXCEPT !.range = half, !.code = code, !.bit = 1]
      BY <1>1, <1>3
    <2>2. IsDec(e)
      BY <1>2, <2>1 DEF IsDec, DecFields
    <2>3. Kept(d, e)
      BY <1>2, <2>1, <2>2 DEF IsDec, DecFields, ReadFields, Kept
    <2>4. e.sym = d.sym /\ e.bit \in {0, 1}
      BY <1>2, <2>1 DEF IsDec, DecFields
    <2> QED
      BY <2>3, <2>4 DEF BitRead, e
  <1>4. CASE ~(d.code >= half)
    <2>1. e = [d EXCEPT !.range = half, !.bit = 0]
      BY <1>1, <1>4
    <2>2. IsDec(e)
      BY <1>2, <2>1 DEF IsDec, DecFields
    <2>3. Kept(d, e)
      BY <1>2, <2>1, <2>2 DEF IsDec, DecFields, ReadFields, Kept
    <2>4. e.sym = d.sym /\ e.bit \in {0, 1}
      BY <1>2, <2>1 DEF IsDec, DecFields
    <2> QED
      BY <2>3, <2>4 DEF BitRead, e
  <1> QED
    BY <1>3, <1>4

LEMMA GetBitReads ==
    ASSUME NEW d, Real(d), NEW key
    PROVE  BitRead(d, GET_BIT(d, key)) /\ ReadBit(d, key) = GET_BIT(d, key)
  <1> DEFINE n == NORMALIZE(d)
             t == Prob(d.probs, key)
             b == Narrow(n, t)
             e == Update(b, key)
  <1>1. IsDec(d) /\ d.dry = FALSE
    BY DEF Real
  <1>2. Kept(d, n) /\ n.sym = d.sym
    BY <1>1, NormalizeKeeps
  <1>3. GET_BIT(d, key) = e /\ ReadBit(d, key) = GET_BIT(d, key)
    BY <1>1 DEF GET_BIT, ReadBit
  <1> HIDE DEF n, t
  <1>4. BitRead(n, b)
    BY <1>2, KeptReal, NarrowKeeps
  <1> HIDE DEF b
  <1>5. Kept(b, e) /\ e.sym = b.sym /\ e.bit = b.bit
    BY <1>4, UpdateKeeps DEF BitRead, Kept
  <1> HIDE DEF e
  <1>6. Kept(d, e)
    BY <1>2, <1>4, <1>5, KeptTwice DEF BitRead
  <1>7. BitRead(d, e)
    BY <1>2, <1>4, <1>5, <1>6 DEF BitRead
  <1> QED
    BY <1>3, <1>7

LEMMA DirectBitReads ==
    ASSUME NEW d, Real(d)
    PROVE  BitRead(d, ReadDirect(d))
  <1> DEFINE n == NORMALIZE(d)
             e == Halve(n)
  <1>1. IsDec(d) /\ d.dry = FALSE
    BY DEF Real
  <1>2. Kept(d, n) /\ n.sym = d.sym
    BY <1>1, NormalizeKeeps
  <1>3. ReadDirect(d) = e
    BY <1>1 DEF GET_DIRECT, ReadDirect
  <1> HIDE DEF n
  <1>4. BitRead(n, e)
    BY <1>2, KeptReal, HalveKeeps
  <1> HIDE DEF e
  <1>5. Kept(d, e)
    BY <1>2, <1>4, KeptTwice DEF BitRead
  <1> QED
    BY <1>2, <1>3, <1>4, <1>5 DEF BitRead

(***************************************************************************)
(* The decoder reads fields.                                               *)
(***************************************************************************)
IsDouble(n) == 2 ^ (n + 1) = 2 * 2 ^ n

LEMMA Doubles ==
    ASSUME NEW n \in 0..32
    PROVE  IsDouble(n)
  <1>1. /\ 2 ^ (0 + 1) = 2 * 2 ^ 0 /\ 2 ^ (1 + 1) = 2 * 2 ^ 1 /\ 2 ^ (2 + 1) = 2 * 2 ^ 2
        /\ 2 ^ (3 + 1) = 2 * 2 ^ 3 /\ 2 ^ (4 + 1) = 2 * 2 ^ 4 /\ 2 ^ (5 + 1) = 2 * 2 ^ 5
        /\ 2 ^ (6 + 1) = 2 * 2 ^ 6 /\ 2 ^ (7 + 1) = 2 * 2 ^ 7 /\ 2 ^ (8 + 1) = 2 * 2 ^ 8
        /\ 2 ^ (9 + 1) = 2 * 2 ^ 9 /\ 2 ^ (10 + 1) = 2 * 2 ^ 10 /\ 2 ^ (11 + 1) = 2 * 2 ^ 11
        /\ 2 ^ (12 + 1) = 2 * 2 ^ 12 /\ 2 ^ (13 + 1) = 2 * 2 ^ 13 /\ 2 ^ (14 + 1) = 2 * 2 ^ 14
        /\ 2 ^ (15 + 1) = 2 * 2 ^ 15 /\ 2 ^ (16 + 1) = 2 * 2 ^ 16 /\ 2 ^ (17 + 1) = 2 * 2 ^ 17
        /\ 2 ^ (18 + 1) = 2 * 2 ^ 18 /\ 2 ^ (19 + 1) = 2 * 2 ^ 19 /\ 2 ^ (20 + 1) = 2 * 2 ^ 20
        /\ 2 ^ (21 + 1) = 2 * 2 ^ 21 /\ 2 ^ (22 + 1) = 2 * 2 ^ 22 /\ 2 ^ (23 + 1) = 2 * 2 ^ 23
        /\ 2 ^ (24 + 1) = 2 * 2 ^ 24 /\ 2 ^ (25 + 1) = 2 * 2 ^ 25 /\ 2 ^ (26 + 1) = 2 * 2 ^ 26
        /\ 2 ^ (27 + 1) = 2 * 2 ^ 27 /\ 2 ^ (28 + 1) = 2 * 2 ^ 28 /\ 2 ^ (29 + 1) = 2 * 2 ^ 29
        /\ 2 ^ (30 + 1) = 2 * 2 ^ 30 /\ 2 ^ (31 + 1) = 2 * 2 ^ 31 /\ 2 ^ (32 + 1) = 2 * 2 ^ 32
    BY SMT
  <1>2. /\ IsDouble(0) /\ IsDouble(1) /\ IsDouble(2) /\ IsDouble(3) /\ IsDouble(4) /\ IsDouble(5)
        /\ IsDouble(6) /\ IsDouble(7) /\ IsDouble(8) /\ IsDouble(9) /\ IsDouble(10) /\ IsDouble(11)
        /\ IsDouble(12) /\ IsDouble(13) /\ IsDouble(14) /\ IsDouble(15) /\ IsDouble(16) /\ IsDouble(17)
        /\ IsDouble(18) /\ IsDouble(19) /\ IsDouble(20) /\ IsDouble(21) /\ IsDouble(22) /\ IsDouble(23)
        /\ IsDouble(24) /\ IsDouble(25) /\ IsDouble(26) /\ IsDouble(27) /\ IsDouble(28) /\ IsDouble(29)
        /\ IsDouble(30) /\ IsDouble(31) /\ IsDouble(32)
    BY <1>1, Zenon DEF IsDouble
  <1> QED
    BY <1>2, SMT

\* A field has been read, its value is in sym.
FieldRead(d, e) == Kept(d, e) /\ e.sym \in Nat

LEMMA SymKept ==
    ASSUME NEW d, IsDec(d), NEW v
    PROVE  Kept(d, [d EXCEPT !.sym = v]) /\ [d EXCEPT !.sym = v].sym = v
  <1> DEFINE e == [d EXCEPT !.sym = v]
  <1>1. IsDec(e)
    BY DEF IsDec, DecFields
  <1> QED
    BY <1>1 DEF IsDec, DecFields, ReadFields, Kept

\* One turn of the loops that read a field bit by bit or copy byte by byte.
Turn(kind, p, x, i) ==
    CASE kind = "tree"    -> TREE_GET_BIT(x, p)
      [] kind = "rev"     -> REV_BIT(x, p, 2 ^ (i - 1))
      [] kind = "direct"  -> Shift(ReadDirect(x))
      [] kind = "copy"    -> CopyOne(x, p)
      [] kind = "matched" ->
           LET matchBit == (p[2] \div 2 ^ (LitBits - i)) % 2
               node == x.offs * (1 + matchBit) + x.d.sym
               b == Shift(ReadBit(x.d, Node(p[1], node)))
           IN  [d |-> b, offs |-> IF b.bit = matchBit THEN x.offs ELSE 0]

AreTurns(f, kind, p, x, n) ==
    f = [i \in 0..n |-> IF i = 0 THEN x ELSE Turn(kind, p, f[i - 1], i)]

LEMMA TurnsExist ==
    ASSUME NEW kind, NEW p, NEW x, NEW n \in Nat
    PROVE  \E f : AreTurns(f, kind, p, x, n)
  <1> DEFINE S == {k \in Nat : \E f : AreTurns(f, kind, p, x, k)}
  <1>1. 0 \in S
    <2> DEFINE f == [i \in 0..0 |-> x]
    <2>1. \A i \in 0..0 : i = 0 /\ f[i] = x
      OBVIOUS
    <2>2. f = [i \in 0..0 |-> IF i = 0 THEN x ELSE Turn(kind, p, f[i - 1], i)]
      BY <2>1
    <2>3. AreTurns(f, kind, p, x, 0)
      BY <2>2 DEF AreTurns
    <2> QED
      BY <2>3
  <1>2. \A k \in Nat : k \in S => k + 1 \in S
    <2> SUFFICES ASSUME NEW k \in Nat, k \in S PROVE k + 1 \in S
      OBVIOUS
    <2>1. PICK f : AreTurns(f, kind, p, x, k)
      OBVIOUS
    <2>2. \A i \in 0..k : f[i] = IF i = 0 THEN x ELSE Turn(kind, p, f[i - 1], i)
      BY <2>1 DEF AreTurns
    <2> DEFINE g == [i \in 0..(k + 1) |-> IF i = k + 1 THEN Turn(kind, p, f[k], k + 1) ELSE f[i]]
    <2>3. \A i \in 0..(k + 1) : g[i] = IF i = k + 1 THEN Turn(kind, p, f[k], k + 1) ELSE f[i]
      OBVIOUS
    <2>4. g = [i \in 0..(k + 1) |-> g[i]]
      OBVIOUS
    <2> HIDE DEF g
    <2>5. \A i \in 0..(k + 1) : g[i] = IF i = 0 THEN x ELSE Turn(kind, p, g[i - 1], i)
      <3> TAKE i \in 0..(k + 1)
      <3>1. CASE i = k + 1
        <4>1. g[i] = Turn(kind, p, f[k], i) /\ i # 0 /\ i - 1 = k
          BY <2>3, <3>1
        <4>2. g[k] = f[k]
          BY <2>3
        <4> QED
          BY <4>1, <4>2
      <3>2. CASE i # k + 1
        <4>1. i \in 0..k /\ g[i] = f[i]
          BY <2>3, <3>2
        <4>2. i # 0 => i - 1 \in 0..k /\ g[i - 1] = f[i - 1]
          BY <2>3, <4>1
        <4> QED
          BY <2>2, <4>1, <4>2
      <3> QED
        BY <3>1, <3>2
    <2>6. AreTurns(g, kind, p, x, k + 1)
      BY <2>4, <2>5 DEF AreTurns
    <2> QED
      BY <2>6
  <1>3. \A k \in Nat : k \in S
    <2> HIDE DEF S
    <2> QED
      BY <1>1, <1>2, SetInduction
  <1> QED
    BY <1>3

(* A tree gives a number of n bits.                                        *)
InTree(d, e, k) == Kept(d, e) /\ e.sym \in (2 ^ k)..(2 ^ (k + 1) - 1)

LEMMA ShiftReads ==
    ASSUME NEW d, NEW e, NEW k \in 0..31, InTree(d, e, k), NEW b, BitRead(e, b)
    PROVE  InTree(d, Shift(b), k + 1)
  <1> DEFINE low == 2 ^ k
             mid == 2 ^ (k + 1)
             high == 2 ^ (k + 1 + 1)
             v == 2 * b.sym + b.bit
             s == Shift(b)
  <1>1. s = [b EXCEPT !.sym = v]
    BY DEF Shift
  <1>2. Kept(d, b) /\ b.sym = e.sym /\ b.bit \in {0, 1} /\ e.sym \in low..(mid - 1)
    BY KeptTwice DEF InTree, BitRead
  <1> HIDE DEF v, s
  <1>3. Kept(d, s) /\ s.sym = v
    BY <1>1, <1>2, SymKept, KeptTwice DEF Kept
  <1>4. low \in Nat /\ mid = 2 * low
    <2>1. IsPower(k) /\ IsDouble(k)
      BY PowersOfTwo, Doubles, SMT
    <2> QED
      BY <2>1, Zenon DEF IsPower, IsDouble
  <1>5. high = 2 * mid
    <2>1. IsDouble(k + 1)
      BY Doubles, SMT
    <2> QED
      BY <2>1, Zenon DEF IsDouble
  <1>6. v \in Nat /\ 2 * low <= v /\ v <= 2 * (mid - 1) + 1
    <2> HIDE DEF low, mid, high
    <2> QED
      BY <1>2, <1>4 DEF v
  <1>7. v \in mid..(high - 1)
    <2> HIDE DEF low, mid, high
    <2> QED
      BY <1>4, <1>5, <1>6
  <1>8. Kept(d, s) /\ s.sym \in mid..(high - 1)
    BY <1>3, <1>7
  <1> QED
    BY <1>8, Zenon DEF InTree, s

LEMMA TreeReads ==
    ASSUME NEW d, Real(d), NEW probs, NEW n \in 0..32
    PROVE  /\ Kept(d, TREE_DECODE(d, probs, n))
           /\ TREE_DECODE(d, probs, n).sym \in 0..(2 ^ n - 1)
  <1> DEFINE x == [d EXCEPT !.sym = 1]
             at == CHOOSE f : f = [i \in 0 .. n |-> IF i = 0 THEN x
                                                    ELSE TREE_GET_BIT(f[i - 1], probs)]
  <1>1. TREE_DECODE(d, probs, n) = [at[n] EXCEPT !.sym = @ - 2 ^ n]
    BY DEF TREE_DECODE
  <1>2. Kept(d, x) /\ x.sym = 1
    BY SymKept DEF Real
  <1> HIDE DEF x
  <1>3. \E f : f = [i \in 0 .. n |-> IF i = 0 THEN x ELSE TREE_GET_BIT(f[i - 1], probs)]
    <2>1. PICK f : AreTurns(f, "tree", probs, x, n)
      BY TurnsExist
    <2> QED
      BY <2>1 DEF AreTurns, Turn
  <1>4. at = [i \in 0 .. n |-> IF i = 0 THEN x ELSE TREE_GET_BIT(at[i - 1], probs)]
    BY <1>3
  <1> HIDE DEF at
  <1>5. at[0] = x /\ \A k \in 0..(n - 1) : at[k + 1] = TREE_GET_BIT(at[k], probs)
    <2>1. \A i \in 0..n : at[i] = IF i = 0 THEN x ELSE TREE_GET_BIT(at[i - 1], probs)
      BY <1>4
    <2>2. \A k \in 0..(n - 1) : k + 1 \in 0..n /\ k + 1 # 0 /\ (k + 1) - 1 = k
      OBVIOUS
    <2> QED
      BY <2>1, <2>2
  <1> DEFINE S == {k \in Nat : k \in 0..n => InTree(d, at[k], k)}
  <1>6. 0 \in S
    <2>1. InTree(d, x, 0)
      BY <1>2 DEF InTree
    <2> QED
      BY <1>5, <2>1
  <1>7. \A k \in Nat : k \in S => k + 1 \in S
    <2> SUFFICES ASSUME NEW k \in Nat, k \in S, k + 1 \in 0..n PROVE InTree(d, at[k + 1], k + 1)
      OBVIOUS
    <2>1. k \in 0..31 /\ k \in 0..(n - 1) /\ InTree(d, at[k], k)
      OBVIOUS
    <2> HIDE DEF S
    <2> DEFINE b == ReadBit(at[k], Node(probs, at[k].sym))
    <2>2. Real(at[k])
      BY <2>1, KeptReal DEF InTree
    <2>3. BitRead(at[k], b)
      BY <2>2, GetBitReads
    <2>4. at[k + 1] = Shift(b)
      BY <1>5, <2>1 DEF TREE_GET_BIT
    <2> HIDE DEF b
    <2> QED
      BY <2>1, <2>3, <2>4, ShiftReads
  <1>8. \A k \in Nat : k \in S
    <2> HIDE DEF S
    <2> QED
      BY <1>6, <1>7, SetInduction
  <1>9. InTree(d, at[n], n)
    BY <1>8
  <1> HIDE DEF S
  <1> DEFINE e == at[n]
             low == 2 ^ n
             high == 2 ^ (n + 1)
             v == e.sym - low
  <1>10. low \in Nat /\ high = 2 * low
    <2>1. IsPower(n) /\ IsDouble(n)
      BY PowersOfTwo, Doubles, SMT
    <2> QED
      BY <2>1, Zenon DEF IsPower, IsDouble
  <1>11. Kept(d, e) /\ e.sym \in low..(high - 1)
    BY <1>9, Zenon DEF InTree
  <1>12. TREE_DECODE(d, probs, n) = [e EXCEPT !.sym = v]
    BY <1>1, Zenon
  <1> HIDE DEF low, high, e
  <1>13. v \in 0..(low - 1)
    BY <1>10, <1>11
  <1> HIDE DEF v
  <1>14. Kept(e, [e EXCEPT !.sym = v]) /\ [e EXCEPT !.sym = v].sym = v
    BY <1>11, SymKept DEF Kept
  <1>15. Kept(d, [e EXCEPT !.sym = v])
    BY <1>11, <1>14, KeptTwice
  <1>16. Kept(d, TREE_DECODE(d, probs, n)) /\ TREE_DECODE(d, probs, n).sym \in 0..(low - 1)
    BY <1>12, <1>13, <1>14, <1>15
  <1> QED
    BY <1>16, Zenon DEF low

LEMMA RevReads ==
    ASSUME NEW d, Real(d), NEW probs, NEW n \in 0..32
    PROVE  FieldRead(d, REV_DECODE(d, probs, n))
  <1> DEFINE x == [d EXCEPT !.sym = 0]
             at == CHOOSE f : f = [i \in 0 .. n |-> IF i = 0 THEN x
                                                    ELSE REV_BIT(f[i - 1], probs, 2 ^ (i - 1))]
  <1>1. REV_DECODE(d, probs, n) = at[n]
    BY DEF REV_DECODE
  <1>2. Kept(d, x) /\ x.sym = 0
    BY SymKept DEF Real
  <1> HIDE DEF x
  <1>3. \E f : f = [i \in 0 .. n |-> IF i = 0 THEN x ELSE REV_BIT(f[i - 1], probs, 2 ^ (i - 1))]
    <2>1. PICK f : AreTurns(f, "rev", probs, x, n)
      BY TurnsExist
    <2> QED
      BY <2>1 DEF AreTurns, Turn
  <1>4. at = [i \in 0 .. n |-> IF i = 0 THEN x ELSE REV_BIT(at[i - 1], probs, 2 ^ (i - 1))]
    BY <1>3
  <1> HIDE DEF at
  <1>5. at[0] = x /\ \A k \in 0..(n - 1) : at[k + 1] = REV_BIT(at[k], probs, 2 ^ k)
    <2>1. \A i \in 0..n : at[i] = IF i = 0 THEN x ELSE REV_BIT(at[i - 1], probs, 2 ^ (i - 1))
      BY <1>4
    <2>2. \A k \in 0..(n - 1) : k + 1 \in 0..n /\ k + 1 # 0 /\ (k + 1) - 1 = k
      OBVIOUS
    <2> QED
      BY <2>1, <2>2
  <1> DEFINE S == {k \in Nat : k \in 0..n => FieldRead(d, at[k])}
  <1>6. 0 \in S
    BY <1>2, <1>5 DEF FieldRead
  <1>7. \A k \in Nat : k \in S => k + 1 \in S
    <2> SUFFICES ASSUME NEW k \in Nat, k \in S, k + 1 \in 0..n PROVE FieldRead(d, at[k + 1])
      OBVIOUS
    <2>1. k \in 0..32 /\ k \in 0..(n - 1) /\ FieldRead(d, at[k])
      OBVIOUS
    <2> HIDE DEF S
    <2> DEFINE m == 2 ^ k
               b == ReadBit(at[k], Node(probs, m + at[k].sym))
               v == b.sym + m * b.bit
    <2>2. m \in Nat
      <3>1. IsPower(k)
        BY <2>1, PowersOfTwo, SMT
      <3> QED
        BY <3>1, SMT DEF IsPower
    <2>3. at[k + 1] = [b EXCEPT !.sym = v]
      BY <1>5, <2>1, Zenon DEF REV_BIT, AddBit
    <2> HIDE DEF m
    <2>4. BitRead(at[k], b)
      BY <2>1, KeptReal, GetBitReads DEF FieldRead
    <2> HIDE DEF b
    <2>5. v \in Nat
      BY <2>1, <2>2, <2>4 DEF BitRead, FieldRead
    <2> HIDE DEF v
    <2>6. Kept(at[k], b) /\ IsDec(b)
      BY <2>4 DEF BitRead, Kept
    <2> QED
      BY <2>1, <2>3, <2>5, <2>6, SymKept, KeptTwice DEF FieldRead
  <1>8. \A k \in Nat : k \in S
    <2> HIDE DEF S
    <2> QED
      BY <1>6, <1>7, SetInduction
  <1> QED
    BY <1>1, <1>8

LEMMA DirectReads ==
    ASSUME NEW d, Real(d), NEW n \in Nat
    PROVE  FieldRead(d, DIRECT_DECODE(d, n))
  <1> DEFINE x == [d EXCEPT !.sym = 0]
             at == CHOOSE f : f = [i \in 0 .. n |-> IF i = 0 THEN x
                                                    ELSE Shift(ReadDirect(f[i - 1]))]
  <1>1. DIRECT_DECODE(d, n) = at[n]
    BY DEF DIRECT_DECODE
  <1>2. Kept(d, x) /\ x.sym = 0
    BY SymKept DEF Real
  <1> HIDE DEF x
  <1>3. \E f : f = [i \in 0 .. n |-> IF i = 0 THEN x ELSE Shift(ReadDirect(f[i - 1]))]
    <2>1. PICK f : AreTurns(f, "direct", 0, x, n)
      BY TurnsExist
    <2> QED
      BY <2>1 DEF AreTurns, Turn
  <1>4. at = [i \in 0 .. n |-> IF i = 0 THEN x ELSE Shift(ReadDirect(at[i - 1]))]
    BY <1>3
  <1> HIDE DEF at
  <1>5. at[0] = x /\ \A k \in 0..(n - 1) : at[k + 1] = Shift(ReadDirect(at[k]))
    <2>1. \A i \in 0..n : at[i] = IF i = 0 THEN x ELSE Shift(ReadDirect(at[i - 1]))
      BY <1>4
    <2>2. \A k \in 0..(n - 1) : k + 1 \in 0..n /\ k + 1 # 0 /\ (k + 1) - 1 = k
      OBVIOUS
    <2> QED
      BY <2>1, <2>2
  <1> DEFINE S == {k \in Nat : k \in 0..n => FieldRead(d, at[k])}
  <1>6. 0 \in S
    BY <1>2, <1>5 DEF FieldRead
  <1>7. \A k \in Nat : k \in S => k + 1 \in S
    <2> SUFFICES ASSUME NEW k \in Nat, k \in S, k + 1 \in 0..n PROVE FieldRead(d, at[k + 1])
      OBVIOUS
    <2>1. k \in 0..(n - 1) /\ FieldRead(d, at[k])
      OBVIOUS
    <2> HIDE DEF S
    <2> DEFINE b == ReadDirect(at[k])
               v == 2 * b.sym + b.bit
    <2>3. at[k + 1] = [b EXCEPT !.sym = v]
      BY <1>5, <2>1 DEF Shift
    <2>4. BitRead(at[k], b)
      BY <2>1, KeptReal, DirectBitReads DEF FieldRead
    <2> HIDE DEF b
    <2>5. v \in Nat
      BY <2>1, <2>4 DEF BitRead, FieldRead
    <2> HIDE DEF v
    <2>6. Kept(at[k], b) /\ IsDec(b)
      BY <2>4 DEF BitRead, Kept
    <2> QED
      BY <2>1, <2>3, <2>5, <2>6, SymKept, KeptTwice DEF FieldRead
  <1>8. \A k \in Nat : k \in S
    <2> HIDE DEF S
    <2> QED
      BY <1>6, <1>7, SetInduction
  <1> QED
    BY <1>1, <1>8

LEMMA MatchedReads ==
    ASSUME NEW d, Real(d), NEW probs, NEW matchByte
    PROVE  FieldRead(d, MATCHED_DECODE(d, probs, matchByte))
  <1> DEFINE n == LitBits
             p == <<probs, matchByte>>
             x == [d |-> [d EXCEPT !.sym = 1], offs |-> LitSize]
             at == CHOOSE f : f = [i \in 0 .. LitBits |-> 
                IF i = 0 THEN x
                ELSE LET before == f[i - 1]
                         matchBit == (matchByte \div 2 ^ (LitBits - i)) % 2
                         node == before.offs * (1 + matchBit) + before.d.sym
                         b == Shift(ReadBit(before.d, Node(probs, node)))
                     IN  [d |-> b, offs |-> IF b.bit = matchBit THEN before.offs ELSE 0]]
  <1>0. n \in 1..32
    BY FormatAssumption
  <1>1. MATCHED_DECODE(d, probs, matchByte) = [at[n].d EXCEPT !.sym = @ - 2 ^ n]
    BY DEF MATCHED_DECODE, LitSize
  <1>2. Kept(d, x.d) /\ x.d.sym = 1
    BY SymKept DEF Real
  <1> HIDE DEF x
  <1>3. at = [i \in 0 .. n |-> IF i = 0 THEN x ELSE Turn("matched", p, at[i - 1], i)]
    <2>1. PICK f : AreTurns(f, "matched", p, x, n)
      BY <1>0, TurnsExist
    <2>2. f = [i \in 0 .. LitBits |-> 
                IF i = 0 THEN x
                ELSE LET before == f[i - 1]
                         matchBit == (matchByte \div 2 ^ (LitBits - i)) % 2
                         node == before.offs * (1 + matchBit) + before.d.sym
                         b == Shift(ReadBit(before.d, Node(probs, node)))
                     IN  [d |-> b, offs |-> IF b.bit = matchBit THEN before.offs ELSE 0]]
      BY <2>1 DEF AreTurns, Turn
    <2>3. at = [i \in 0 .. LitBits |-> 
                IF i = 0 THEN x
                ELSE LET before == at[i - 1]
                         matchBit == (matchByte \div 2 ^ (LitBits - i)) % 2
                         node == before.offs * (1 + matchBit) + before.d.sym
                         b == Shift(ReadBit(before.d, Node(probs, node)))
                     IN  [d |-> b, offs |-> IF b.bit = matchBit THEN before.offs ELSE 0]]
      BY <2>2
    <2> HIDE DEF at
    <2> QED
      BY <2>3 DEF Turn
  <1> HIDE DEF at, n
  <1>5. at[0] = x /\ \A k \in 0..(n - 1) : at[k + 1] = Turn("matched", p, at[k], k + 1)
    <2>1. \A i \in 0..n : at[i] = IF i = 0 THEN x ELSE Turn("matched", p, at[i - 1], i)
      BY <1>3
    <2>2. \A k \in 0..(n - 1) : k + 1 \in 0..n /\ k + 1 # 0 /\ (k + 1) - 1 = k
      BY <1>0
    <2> QED
      BY <1>0, <2>1, <2>2
  <1> DEFINE S == {k \in Nat : k \in 0..n => InTree(d, at[k].d, k)}
  <1>6. 0 \in S
    <2>1. InTree(d, x.d, 0)
      BY <1>2 DEF InTree
    <2> QED
      BY <1>5, <2>1
  <1>7. \A k \in Nat : k \in S => k + 1 \in S
    <2> SUFFICES ASSUME NEW k \in Nat, k \in S, k + 1 \in 0..n PROVE InTree(d, at[k + 1].d, k + 1)
      OBVIOUS
    <2>1. k \in 0..31 /\ k \in 0..(n - 1) /\ InTree(d, at[k].d, k)
      BY <1>0
    <2> HIDE DEF S
    <2> DEFINE e == at[k].d
               matchBit == (matchByte \div 2 ^ (LitBits - (k + 1))) % 2
               node == at[k].offs * (1 + matchBit) + at[k].d.sym
               b == ReadBit(e, Node(probs, node))
    <2>2. Real(e)
      BY <2>1, KeptReal DEF InTree
    <2>3. BitRead(e, b)
      BY <2>2, GetBitReads
    <2>4. at[k + 1].d = Shift(b)
      <3>1. at[k + 1] = Turn("matched", p, at[k], k + 1)
        BY <1>5, <2>1
      <3>2. p[1] = probs /\ p[2] = matchByte
        OBVIOUS
      <3> DEFINE new == IF Shift(b).bit = matchBit THEN at[k].offs ELSE 0
      <3>3. Turn("matched", p, at[k], k + 1) = [d |-> Shift(b), offs |-> new]
        BY <3>2 DEF Turn
      <3> HIDE DEF new, b, e
      <3> QED
        BY <3>1, <3>3
    <2> HIDE DEF b, e
    <2> QED
      BY <2>1, <2>3, <2>4, ShiftReads DEF e
  <1>8. \A k \in Nat : k \in S
    <2> HIDE DEF S
    <2> QED
      BY <1>6, <1>7, SetInduction
  <1>9. InTree(d, at[n].d, n)
    BY <1>0, <1>8
  <1> HIDE DEF S
  <1> DEFINE e == at[n].d
             low == 2 ^ n
             high == 2 ^ (n + 1)
             v == e.sym - low
  <1>10. low \in Nat
    <2>1. IsPower(n)
      BY <1>0, PowersOfTwo, SMT
    <2> QED
      BY <2>1, SMT DEF IsPower
  <1>11. Kept(d, e) /\ e.sym \in low..(high - 1)
    BY <1>9, Zenon DEF InTree
  <1>12. MATCHED_DECODE(d, probs, matchByte) = [e EXCEPT !.sym = v]
    BY <1>1, Zenon
  <1> HIDE DEF low, high, e
  <1>13. v \in Nat
    BY <1>10, <1>11
  <1> HIDE DEF v
  <1>14. Kept(e, [e EXCEPT !.sym = v]) /\ [e EXCEPT !.sym = v].sym = v
    BY <1>11, SymKept DEF Kept
  <1> QED
    BY <1>11, <1>12, <1>13, <1>14, KeptTwice DEF FieldRead

LEMMA KeptFields ==
    ASSUME NEW d, NEW e, Kept(d, e)
    PROVE  /\ IsDec(e) /\ e.pc = d.pc /\ e.dry = d.dry /\ e.eof = d.eof /\ e.stray = d.stray
           /\ e.break = d.break /\ e.state = d.state /\ e.reps = d.reps /\ e.prop = d.prop
           /\ e.processedPos = d.processedPos /\ e.checkDicSize = d.checkDicSize
           /\ e.dicSize = d.dicSize /\ e.remainLen = d.remainLen /\ e.dic = d.dic
           /\ e.dicLimit = d.dicLimit
  BY DEF Kept, DecFields, ReadFields

LEMMA FieldKept ==
    ASSUME NEW d, NEW e, FieldRead(d, e), NEW n \in Nat
    PROVE  FieldRead(d, [e EXCEPT !.sym = @ + n])
  <1> DEFINE v == e.sym + n
  <1>1. Kept(d, e) /\ IsDec(e) /\ v \in Nat
    BY DEF FieldRead, Kept
  <1> HIDE DEF v
  <1>2. Kept(e, [e EXCEPT !.sym = v]) /\ [e EXCEPT !.sym = v].sym = v
    BY <1>1, SymKept
  <1>3. FieldRead(d, [e EXCEPT !.sym = v])
    BY <1>1, <1>2, KeptTwice DEF FieldRead
  <1> QED
    BY <1>3 DEF v

LEMMA TreeIsField ==
    ASSUME NEW d, NEW e, Real(e), Kept(d, e), NEW probs, NEW n \in 0..32
    PROVE  FieldRead(d, TREE_DECODE(e, probs, n))
  <1> DEFINE f == TREE_DECODE(e, probs, n)
             high == 2 ^ n
  <1>1. Kept(e, f) /\ f.sym \in 0..(high - 1)
    BY TreeReads
  <1> HIDE DEF f, high
  <1> QED
    BY <1>1, KeptTwice DEF FieldRead, f

LEMMA LengthBits ==
    /\ LitBits \in 0..32 /\ LenLowBits \in 0..32 /\ LenHighBits \in 0..32 /\ PosSlotBits \in 1..6
    /\ kLenNumLowSymbols \in Nat \ {0} /\ kLenNumHighSymbols \in Nat \ {0}
  <1>1. /\ LitBits \in 0..32 /\ LenLowBits \in 0..32 /\ LenHighBits \in 0..32 /\ PosSlotBits \in 1..6
    BY FormatAssumption, SMT
  <1>2. IsPower(LenLowBits) /\ IsPower(LenHighBits)
    BY <1>1, PowersOfTwo, SMT
  <1>3. kLenNumLowSymbols \in Nat \ {0} /\ kLenNumHighSymbols \in Nat \ {0}
    BY <1>2, Zenon DEF IsPower, kLenNumLowSymbols, kLenNumHighSymbols
  <1> QED
    BY <1>1, <1>3, Zenon

LEMMA LiteralIsRead ==
    ASSUME NEW d, Real(d)
    PROVE  FieldRead(d, LiteralValue(d))
  <1> DEFINE probs == LiteralProbs(d)
             before == Behind(d, d.reps[1])
  <1>1. LiteralValue(d) = IF d.state < kNumLitStates THEN TREE_DECODE(d, probs, LitBits)
                          ELSE MATCHED_DECODE(d, probs, before)
    BY DEF LiteralValue
  <1> HIDE DEF probs, before
  <1>2. Kept(d, d)
    BY KeptSame DEF Real
  <1> QED
    BY <1>1, <1>2, TreeIsField, MatchedReads, LengthBits

LEMMA LengthIsRead ==
    ASSUME NEW d, Real(d), NEW rep
    PROVE  FieldRead(d, LenValue(d, rep))
  <1> DEFINE c == ReadBit(d, <<"LenChoice", rep, 0, 0>>)
             c2 == ReadBit(c, <<"LenChoice2", rep, 0, 0>>)
             low == TREE_DECODE(c, <<"LenLow", rep, PosState(c.prop.pb, c.processedPos), 0>>, LenLowBits)
             mid == TREE_DECODE(c2, <<"LenMid", rep, PosState(c2.prop.pb, c2.processedPos), 0>>, LenLowBits)
             high == TREE_DECODE(c2, <<"LenHigh", rep, 0, 0>>, LenHighBits)
  <1>1. LenValue(d, rep) =
          IF c.bit = 0 THEN low
          ELSE IF c2.bit = 0 THEN [mid EXCEPT !.sym = @ + kLenNumLowSymbols]
          ELSE [high EXCEPT !.sym = @ + 2 * kLenNumLowSymbols]
    BY DEF LenValue, LenChosen, LenLong
  <1>2. Kept(d, c)
    BY GetBitReads DEF BitRead
  <1>3. Real(c)
    BY <1>2, KeptReal
  <1>4. Kept(c, c2)
    BY <1>3, GetBitReads DEF BitRead
  <1>5. Kept(d, c2) /\ Real(c2)
    BY <1>2, <1>3, <1>4, KeptReal, KeptTwice
  <1>6. FieldRead(d, low)
    BY <1>2, <1>3, TreeIsField, LengthBits
  <1>7. FieldRead(d, mid) /\ FieldRead(d, high)
    BY <1>5, TreeIsField, LengthBits
  <1>8. 2 * kLenNumLowSymbols \in Nat /\ kLenNumLowSymbols \in Nat
    BY LengthBits
  <1> HIDE DEF low, mid, high
  <1>9. FieldRead(d, [mid EXCEPT !.sym = @ + kLenNumLowSymbols])
    BY <1>7, <1>8, FieldKept
  <1>10. FieldRead(d, [high EXCEPT !.sym = @ + 2 * kLenNumLowSymbols])
    BY <1>7, <1>8, FieldKept
  <1> HIDE DEF c, c2
  <1> QED
    BY <1>1, <1>6, <1>9, <1>10

LEMMA SlotBound ==
    ASSUME NEW v, v \in 0..(2 ^ PosSlotBits - 1)
    PROVE  v \in 0..63
  <1>1. /\ 2 ^ 1 <= 64 /\ 2 ^ 2 <= 64 /\ 2 ^ 3 <= 64 /\ 2 ^ 4 <= 64 /\ 2 ^ 5 <= 64 /\ 2 ^ 6 <= 64
    BY SMT
  <1> DEFINE Below(n) == 2 ^ n <= 64
  <1>2. Below(1) /\ Below(2) /\ Below(3) /\ Below(4) /\ Below(5) /\ Below(6)
    BY <1>1
  <1> HIDE DEF Below
  <1>3. Below(PosSlotBits)
    BY <1>2, LengthBits
  <1> DEFINE high == 2 ^ PosSlotBits
  <1>4. high <= 64
    BY <1>3 DEF Below
  <1>5. high \in Nat
    <2>1. IsPower(PosSlotBits)
      BY LengthBits, PowersOfTwo, SMT
    <2> QED
      BY <2>1, SMT DEF IsPower
  <1> HIDE DEF high
  <1>6. v \in 0..(high - 1)
    BY DEF high
  <1> QED
    BY <1>4, <1>5, <1>6

LEMMA DistanceIsRead ==
    ASSUME NEW d, Real(d), NEW len
    PROVE  FieldRead(d, DistanceValue(d, len))
  <1> DEFINE lenState == IF len < kNumLenToPosStates THEN len ELSE kNumLenToPosStates - 1
             s == TREE_DECODE(d, <<"PosSlot", 0, lenState, 0>>, PosSlotBits)
             posSlot == s.sym
             numDirectBits == posSlot \div 2 - 1
             high == (2 + (posSlot % 2)) * 2 ^ numDirectBits
             near == REV_DECODE(s, <<"SpecPos", 0, 0, high>>, numDirectBits)
             mid == DIRECT_DECODE(s, numDirectBits - AlignBits)
             far == REV_DECODE(mid, <<"Align", 0, 0, 0>>, AlignBits)
             rest == mid.sym * 2 ^ AlignBits + high
  <1>1. DistanceValue(d, len) =
          IF posSlot < kStartPosModelIndex THEN s
          ELSE IF posSlot < EndPosModelIndex THEN [near EXCEPT !.sym = @ + high]
          ELSE [far EXCEPT !.sym = @ + mid.sym * 2 ^ AlignBits + high]
    BY DEF DistanceValue, SlotDistance, AlignedDistance
  <1>2. Kept(d, s) /\ posSlot \in 0..63
    <2>1. Kept(d, s) /\ s.sym \in 0..(2 ^ PosSlotBits - 1)
      <3>1. PosSlotBits \in 0..32
        BY LengthBits, SMT
      <3> QED
        BY <3>1, TreeReads, Zenon
    <2> HIDE DEF s
    <2> QED
      BY <2>1, SlotBound
  <1>3. Real(s)
    BY <1>2, KeptReal
  <1>4. FieldRead(d, s)
    BY <1>2 DEF FieldRead
  <1> HIDE DEF s, lenState
  <1>5. ASSUME kStartPosModelIndex <= posSlot
        PROVE  numDirectBits \in 1..30 /\ high \in Nat
    <2>1. numDirectBits \in 1..30
      BY <1>2, <1>5 DEF kStartPosModelIndex
    <2> DEFINE power == 2 ^ numDirectBits
    <2>2. power \in Nat
      <3> HIDE DEF numDirectBits
      <3>1. IsPower(numDirectBits)
        BY <2>1, PowersOfTwo, SMT
      <3> QED
        BY <3>1, SMT DEF IsPower
    <2>3. posSlot % 2 \in 0..1
      BY <1>2
    <2>4. (2 + (posSlot % 2)) * power \in Nat
      <3> HIDE DEF power, posSlot
      <3> QED
        BY <2>2, <2>3
    <2> QED
      BY <2>1, <2>4
  <1> HIDE DEF high
  <1>6. CASE posSlot < kStartPosModelIndex
    BY <1>1, <1>4, <1>6
  <1>7. CASE ~(posSlot < kStartPosModelIndex) /\ posSlot < EndPosModelIndex
    <2>1. numDirectBits \in 1..30 /\ high \in Nat
      BY <1>2, <1>5, <1>7 DEF kStartPosModelIndex
    <2> HIDE DEF numDirectBits
    <2>2. FieldRead(s, near)
      BY <1>3, <2>1, RevReads
    <2> HIDE DEF near
    <2>3. FieldRead(d, near)
      BY <1>2, <2>2, KeptTwice DEF FieldRead
    <2>4. FieldRead(d, [near EXCEPT !.sym = @ + high])
      BY <2>1, <2>3, FieldKept
    <2> QED
      BY <1>1, <1>7, <2>4
  <1>8. CASE ~(posSlot < kStartPosModelIndex) /\ ~(posSlot < EndPosModelIndex)
    <2>1. numDirectBits \in 1..30 /\ high \in Nat
      BY <1>2, <1>5, <1>8 DEF kStartPosModelIndex
    <2>2. numDirectBits - AlignBits \in Nat /\ AlignBits \in 0..32
      <3>1. /\ EndPosModelIndex \in Int /\ AlignBits \in Nat /\ AlignBits < EndPosModelIndex \div 2 - 1
        BY <1>2, <1>8, FormatAssumption
      <3>2. posSlot \div 2 >= EndPosModelIndex \div 2
        BY <1>2, <1>8, <3>1
      <3> QED
        BY <1>2, <2>1, <3>1, <3>2
    <2> HIDE DEF numDirectBits
    <2>3. FieldRead(s, mid)
      BY <1>3, <2>2, DirectReads
    <2>4. Real(mid) /\ Kept(d, mid) /\ mid.sym \in Nat
      BY <1>2, <1>3, <2>3, KeptReal, KeptTwice DEF FieldRead
    <2> HIDE DEF mid
    <2>5. FieldRead(mid, far)
      BY <2>2, <2>4, RevReads
    <2>6. FieldRead(d, far)
      BY <2>4, <2>5, KeptTwice DEF FieldRead
    <2> HIDE DEF far
    <2> DEFINE power == 2 ^ AlignBits
    <2>7. power \in Nat
      <3>1. IsPower(AlignBits)
        BY <2>2, PowersOfTwo, SMT
      <3> QED
        BY <3>1, SMT DEF IsPower
    <2>8. FieldRead(d, [far EXCEPT !.sym = @ + (mid.sym * power + high)])
      <3> HIDE DEF power
      <3>1. mid.sym * power + high \in Nat
        BY <2>1, <2>4, <2>7
      <3> QED
        BY <2>6, <3>1, FieldKept
    <2>9. [far EXCEPT !.sym = @ + mid.sym * power + high]
            = [far EXCEPT !.sym = @ + (mid.sym * power + high)]
      <3> HIDE DEF power
      <3>1. far.sym \in Nat
        BY <2>6 DEF FieldRead
      <3>2. far.sym + mid.sym * power + high = far.sym + (mid.sym * power + high)
        <4> DEFINE m == mid.sym * power
        <4>1. m \in Nat
          BY <2>4, <2>7
        <4> HIDE DEF m
        <4>2. far.sym + m + high = far.sym + (m + high)
          BY <2>1, <3>1, <4>1
        <4> QED
          BY <4>2 DEF m
      <3> QED
        BY <3>2
    <2>10. DistanceValue(d, len) = [far EXCEPT !.sym = @ + mid.sym * power + high]
      BY <1>1, <1>8
    <2> HIDE DEF power
    <2> QED
      BY <2>8, <2>9, <2>10
  <1> QED
    BY <1>6, <1>7, <1>8

(***************************************************************************)
(* The decoder writes.                                                     *)
(***************************************************************************)
\* What holds of the output, at every step.
Sound(d) ==
    /\ Real(d) /\ d.stray = FALSE
    /\ d.dic \in Seq(Nat) /\ d.processedPos = Len(d.dic)
    /\ d.dicLimit \in Nat /\ d.dicSize \in Nat \ {0}
    /\ d.checkDicSize = 0 \/ (d.checkDicSize = d.dicSize /\ d.dicSize <= Len(d.dic))

\* The last distances reach back no further than n bytes.
Reaching(reps, n) == reps \in Seq(1..n) /\ Len(reps) = kNumReps

\* Of what holds of the output, only the output has changed, from d to e.
Grown(d, e) ==
    /\ Sound(e) /\ e.pc = d.pc /\ e.dicLimit = d.dicLimit /\ e.dicSize = d.dicSize
    /\ e.checkDicSize = d.checkDicSize /\ Len(d.dic) <= Len(e.dic)

LEMMA SoundKept ==
    ASSUME NEW d, NEW e, Sound(d), Kept(d, e)
    PROVE  Sound(e)
  BY KeptFields DEF Sound, Real

LEMMA ReachingMore ==
    ASSUME NEW m \in Nat, NEW n \in Nat, m <= n, NEW reps, Reaching(reps, m)
    PROVE  Reaching(reps, n)
  BY DEF Reaching

LEMMA GrownTwice ==
    ASSUME NEW d, NEW e, NEW f, Grown(d, e), Grown(e, f), Sound(d)
    PROVE  Grown(d, f)
  <1>1. Len(d.dic) \in Nat /\ Len(e.dic) \in Nat /\ Len(f.dic) \in Nat
    BY DEF Grown, Sound
  <1> QED
    BY <1>1 DEF Grown

LEMMA KeptGrown ==
    ASSUME NEW d, NEW e, Sound(d), Kept(d, e)
    PROVE  Grown(d, e)
  <1>1. Len(d.dic) \in Nat
    BY DEF Sound
  <1> QED
    BY <1>1, SoundKept, KeptFields DEF Grown

\* n more bytes have been written.
Written(d, e, n) ==
    /\ Grown(d, e) /\ Len(e.dic) = Len(d.dic) + n
    /\ e.reps = d.reps /\ e.state = d.state /\ e.remainLen = d.remainLen /\ e.break = d.break

LEMMA CopiesOne ==
    ASSUME NEW d, Sound(d), NEW dist \in 1..Len(d.dic)
    PROVE  Written(d, CopyOne(d, dist), 1)
  <1> DEFINE e == CopyOne(d, dist)
             byte == Behind(d, dist)
             dic == Append(d.dic, byte)
             pos == d.processedPos + 1
  <1>1. d.dic \in Seq(Nat) /\ Len(d.dic) \in Nat /\ IsDec(d) /\ d.stray = FALSE
    BY DEF Sound, Real
  <1>2. byte \in Nat
    BY <1>1 DEF Behind
  <1>3. dic \in Seq(Nat) /\ Len(dic) = Len(d.dic) + 1
    BY <1>1, <1>2
  <1>4. Reached(d, dist) = [d EXCEPT !.stray = FALSE]
    BY <1>1 DEF Reached
  <1>5. [d EXCEPT !.stray = FALSE] = d
    BY <1>1 DEF IsDec, DecFields
  <1>6. e = [d EXCEPT !.dic = dic, !.processedPos = pos]
    BY <1>1, <1>4, <1>5 DEF CopyOne, IsDec, DecFields
  <1> HIDE DEF e, byte, dic
  <1>7. IsDec(e) /\ \A f \in DecFields \ {"dic", "processedPos"} : e[f] = d[f]
    BY <1>1, <1>6 DEF IsDec, DecFields
  <1>8. e.dic = dic /\ e.processedPos = pos
    BY <1>1, <1>6 DEF IsDec, DecFields
  <1>9. /\ e.pc = d.pc /\ e.dry = d.dry /\ e.eof = d.eof /\ e.stray = d.stray
        /\ e.break = d.break /\ e.state = d.state /\ e.reps = d.reps
        /\ e.checkDicSize = d.checkDicSize /\ e.dicSize = d.dicSize
        /\ e.remainLen = d.remainLen /\ e.dicLimit = d.dicLimit
    BY <1>7 DEF DecFields
  <1>10. Sound(e)
    BY <1>1, <1>3, <1>7, <1>8, <1>9 DEF Sound, Real
  <1>11. Written(d, e, 1)
    BY <1>1, <1>3, <1>8, <1>9, <1>10 DEF Written, Grown
  <1> QED
    BY <1>11 DEF e

LEMMA CopiesMatch ==
    ASSUME NEW d, Sound(d), NEW dist \in 1..Len(d.dic), NEW n \in Nat
    PROVE  Written(d, CopyMatch(d, dist, n), n)
  <1> DEFINE copied == CHOOSE f : f = [i \in 0 .. n |-> IF i = 0 THEN d ELSE CopyOne(f[i - 1], dist)]
             S == {k \in Nat : k \in 0..n => Written(d, copied[k], k)}
  <1>1. CopyMatch(d, dist, n) = copied[n]
    BY DEF CopyMatch
  <1>2. Len(d.dic) \in Nat
    BY DEF Sound
  <1>3. \E f : f = [i \in 0 .. n |-> IF i = 0 THEN d ELSE CopyOne(f[i - 1], dist)]
    <2>1. PICK f : AreTurns(f, "copy", dist, d, n)
      BY TurnsExist
    <2> QED
      BY <2>1 DEF AreTurns, Turn
  <1>4. copied = [i \in 0 .. n |-> IF i = 0 THEN d ELSE CopyOne(copied[i - 1], dist)]
    BY <1>3
  <1> HIDE DEF copied
  <1>5. copied[0] = d /\ \A k \in 0..(n - 1) : copied[k + 1] = CopyOne(copied[k], dist)
    <2>1. \A i \in 0..n : copied[i] = IF i = 0 THEN d ELSE CopyOne(copied[i - 1], dist)
      BY <1>4
    <2>2. \A k \in 0..(n - 1) : k + 1 \in 0..n /\ k + 1 # 0 /\ (k + 1) - 1 = k
      OBVIOUS
    <2> QED
      BY <2>1, <2>2
  <1>6. 0 \in S
    BY <1>2, <1>5 DEF Written, Grown
  <1>7. \A k \in Nat : k \in S => k + 1 \in S
    <2> SUFFICES ASSUME NEW k \in Nat, k \in S, k + 1 \in 0..n PROVE Written(d, copied[k + 1], k + 1)
      OBVIOUS
    <2>1. k \in 0..(n - 1) /\ Written(d, copied[k], k)
      OBVIOUS
    <2> HIDE DEF S
    <2> DEFINE e == copied[k]
               f == copied[k + 1]
    <2>2. Sound(e) /\ dist \in 1..Len(e.dic)
      BY <1>2, <2>1 DEF Written, Grown
    <2>3. f = CopyOne(e, dist)
      BY <1>5, <2>1
    <2>0. Written(d, e, k) /\ k \in Nat
      BY <2>1
    <2> HIDE DEF e, f
    <2>4. Written(e, f, 1)
      BY <2>2, <2>3, CopiesOne
    <2>5. Grown(d, f)
      BY <2>0, <2>4, GrownTwice DEF Written
    <2>6. Len(f.dic) = Len(d.dic) + (k + 1)
      <3>1. Len(e.dic) = Len(d.dic) + k /\ Len(f.dic) = Len(e.dic) + 1
        BY <2>0, <2>4, Zenon DEF Written
      <3> DEFINE a == Len(d.dic)
                 b == Len(e.dic)
                 c == Len(f.dic)
      <3>2. a \in Nat /\ b = a + k /\ c = b + 1
        BY <1>2, <3>1
      <3> HIDE DEF a, b, c
      <3>3. c = a + (k + 1)
        BY <3>2
      <3> QED
        BY <3>3 DEF a, c
    <2>7. Written(d, f, k + 1)
      BY <2>0, <2>4, <2>5, <2>6 DEF Written
    <2> QED
      BY <2>7 DEF f
  <1>8. \A k \in Nat : k \in S
    <2> HIDE DEF S
    <2> QED
      BY <1>6, <1>7, SetInduction
  <1> QED
    BY <1>1, <1>8

(***************************************************************************)
(* One symbol.                                                             *)
(***************************************************************************)
Reach(d) == IF Len(d.dic) = 0 THEN 1 ELSE Len(d.dic)

LEMMA ErrorIsLater ==
    kMatchSpecLenStart \in Nat \ {0} /\ kMatchSpecLen_Error_Data = 2 * kMatchSpecLenStart
  <1>1. LZMA_MATCH_LEN_MAX \in Nat
    BY LengthBits DEF LZMA_MATCH_LEN_MAX, kMatchMinLen
  <1> QED
    BY <1>1 DEF kMatchSpecLenStart, kMatchSpecLen_Error_Data

\* A symbol has been decoded: the output is within the limit, and unless the
\* data is bad, or ends here, there are bytes for all of the last distances.
IsAnError(e) == e.break = TRUE /\ e.remainLen >= kMatchSpecLen_Error_Data
IsTheEnd(d, e) == e.break = TRUE /\ e.remainLen = kMatchSpecLenStart /\ Reaching(e.reps, Reach(e))
Decoded(d, e, limit) ==
    /\ Grown(d, e) /\ Len(e.dic) <= limit /\ e.remainLen \in Nat
    /\ Reaching(e.reps, Len(e.dic)) \/ IsAnError(e) \/ IsTheEnd(d, e)

LEMMA KeptDecoded ==
    ASSUME NEW d, NEW m, NEW e, NEW limit, Sound(d), Kept(d, m), Decoded(m, e, limit)
    PROVE  Decoded(d, e, limit)
  BY KeptGrown, GrownTwice DEF Decoded, IsTheEnd

LEMMA Cited ==
    ASSUME NEW d, Sound(d)
    PROVE  IsDec(d) /\ d.dic \in Seq(Nat) /\ Len(d.dic) \in Nat /\ d.dicLimit \in Nat
  BY DEF Sound, Real

(* A literal.                                                              *)
LEMMA PutsLiteral ==
    ASSUME NEW d, Sound(d), d.sym \in Nat, Reaching(d.reps, Reach(d)),
           NEW limit \in Nat, Len(d.dic) < limit
    PROVE  Decoded(d, PutLiteral(d), limit)
  <1> DEFINE e == PutLiteral(d)
             dic == Append(d.dic, d.sym)
             pos == d.processedPos + 1
             state == StateAfterLiteral(d.state)
  <1>1. IsDec(d) /\ d.dic \in Seq(Nat) /\ Len(d.dic) \in Nat
    BY Cited
  <1>2. dic \in Seq(Nat) /\ Len(dic) = Len(d.dic) + 1
    BY <1>1
  <1>3. e = [d EXCEPT !.dic = dic, !.processedPos = pos, !.remainLen = 0, !.state = state]
    BY DEF PutLiteral
  <1> HIDE DEF e, dic, state
  <1>4. IsDec(e) /\ \A f \in DecFields \ {"dic", "processedPos", "remainLen", "state"} : e[f] = d[f]
    BY <1>1, <1>3 DEF IsDec, DecFields
  <1>5. e.dic = dic /\ e.processedPos = pos /\ e.remainLen = 0
    BY <1>1, <1>3 DEF IsDec, DecFields
  <1>6. /\ e.pc = d.pc /\ e.dry = d.dry /\ e.eof = d.eof /\ e.stray = d.stray
        /\ e.reps = d.reps /\ e.checkDicSize = d.checkDicSize /\ e.dicSize = d.dicSize
        /\ e.dicLimit = d.dicLimit
    BY <1>4 DEF DecFields
  <1>7. Sound(e)
    BY <1>1, <1>2, <1>4, <1>5, <1>6 DEF Sound, Real
  <1>8. Grown(d, e) /\ Len(e.dic) <= limit /\ e.remainLen \in Nat
    <2>1. Len(e.dic) = Len(d.dic) + 1
      BY <1>2, <1>5
    <2>2. Len(d.dic) <= Len(e.dic) /\ Len(e.dic) <= limit
      BY <1>1, <2>1
    <2> QED
      BY <1>5, <1>6, <1>7, <2>2 DEF Grown
  <1>9. Reaching(e.reps, Len(e.dic))
    <2>1. Len(e.dic) = Len(d.dic) + 1 /\ e.reps = d.reps
      BY <1>2, <1>5, <1>6
    <2>2. Reach(d) \in Nat /\ Len(e.dic) \in Nat /\ Reach(d) <= Len(e.dic)
      BY <1>1, <2>1 DEF Reach
    <2> QED
      BY <2>1, <2>2, ReachingMore
  <1>10. Decoded(d, e, limit)
    BY <1>8, <1>9 DEF Decoded
  <1> QED
    BY <1>10 DEF e

LEMMA DecodesLiteral ==
    ASSUME NEW d, Sound(d), Reaching(d.reps, Reach(d)), NEW limit \in Nat, Len(d.dic) < limit,
           Len(d.dic) > 0 \/ d.state = 0
    PROVE  Decoded(d, DecodeLiteral(d), limit)
  <1> DEFINE m == IF d.state < kNumLitStates THEN d ELSE Reached(d, d.reps[1])
             l == LiteralValue(m)
  <1>1. DecodeLiteral(d) = PutLiteral(l)
    BY DEF DecodeLiteral
  <1>2. m = d
    <2>1. CASE d.state < kNumLitStates
      BY <2>1
    <2>2. CASE ~(d.state < kNumLitStates)
      <3>1. Len(d.dic) > 0
        BY <2>2 DEF kNumLitStates
      <3>2. Reach(d) = Len(d.dic) /\ Len(d.dic) \in Nat
        BY <3>1, Cited DEF Reach
      <3>3. d.reps[1] \in 1..Len(d.dic)
        BY <3>2 DEF Reaching, kNumReps
      <3>4. d.stray = FALSE /\ IsDec(d)
        BY DEF Sound, Real
      <3>5. Reached(d, d.reps[1]) = [d EXCEPT !.stray = FALSE]
        BY <3>3, <3>4 DEF Reached
      <3>6. [d EXCEPT !.stray = FALSE] = d
        BY <3>4 DEF IsDec, DecFields
      <3> QED
        BY <2>2, <3>5, <3>6
    <2> QED
      BY <2>1, <2>2
  <1> HIDE DEF m
  <1>3. Kept(d, l) /\ l.sym \in Nat
    BY <1>2, LiteralIsRead DEF FieldRead, Sound
  <1> HIDE DEF l
  <1>4. Sound(l) /\ l.dic = d.dic /\ l.reps = d.reps
    BY <1>3, SoundKept, KeptFields
  <1>5. Decoded(l, PutLiteral(l), limit)
    BY <1>3, <1>4, PutsLiteral DEF Reach
  <1> QED
    BY <1>1, <1>3, <1>5, KeptDecoded

(* A match.  Where nothing is written yet there is nothing to copy.        *)
LEMMA CopiesUpTo ==
    ASSUME NEW d, Sound(d), Reaching(d.reps, Len(d.dic)), NEW limit \in Nat,
           Len(d.dic) <= limit, NEW len \in Nat
    PROVE  Decoded(d, CopyUpTo(d, limit, len), limit)
  <1> DEFINE room == limit - dicPos(d)
             n == IF room < len THEN room ELSE len
             rest == len - n
             c == CopyMatch(d, d.reps[1], n)
             e == CopyUpTo(d, limit, len)
  <1>1. IsDec(d) /\ Len(d.dic) \in Nat /\ d.reps[1] \in 1..Len(d.dic)
    BY Cited DEF Reaching, kNumReps
  <1>2. room \in Nat /\ n \in Nat /\ rest \in Nat /\ Len(d.dic) + n <= limit
    <2> DEFINE p == Len(d.dic)
    <2>1. room = limit - p /\ p \in Nat /\ p <= limit
      BY <1>1 DEF dicPos
    <2> HIDE DEF p, room
    <2>2. room \in Nat /\ p + room = limit
      BY <2>1
    <2>3. n \in Nat /\ rest \in Nat /\ n <= room
      BY <2>2
    <2> HIDE DEF n, rest
    <2>4. p + n <= limit
      BY <2>1, <2>2, <2>3
    <2> QED
      BY <2>2, <2>3, <2>4 DEF p
  <1>3. e = IF room = 0 THEN [d EXCEPT !.remainLen = len, !.break = TRUE]
            ELSE [c EXCEPT !.remainLen = rest]
    BY DEF CopyUpTo
  <1> HIDE DEF room, rest, n, e
  <1>4. Written(d, c, n)
    BY <1>1, <1>2, CopiesMatch
  <1> HIDE DEF c
  <1>5. CASE room = 0
    <2>1. e = [d EXCEPT !.remainLen = len, !.break = TRUE]
      BY <1>3, <1>5
    <2>2. IsDec(e) /\ \A f \in DecFields \ {"remainLen", "break"} : e[f] = d[f]
      BY <1>1, <2>1 DEF IsDec, DecFields
    <2>3. e.remainLen = len
      BY <1>1, <2>1 DEF IsDec, DecFields
    <2>4. /\ e.pc = d.pc /\ e.dry = d.dry /\ e.eof = d.eof /\ e.stray = d.stray
          /\ e.reps = d.reps /\ e.checkDicSize = d.checkDicSize /\ e.dicSize = d.dicSize
          /\ e.dicLimit = d.dicLimit /\ e.dic = d.dic /\ e.processedPos = d.processedPos
      BY <2>2 DEF DecFields
    <2>5. Sound(e)
      BY <2>2, <2>4 DEF Sound, Real
    <2>6. Grown(d, e)
      BY <1>1, <2>4, <2>5 DEF Grown
    <2>7. Reaching(e.reps, Len(e.dic)) /\ Len(e.dic) <= limit
      BY <2>4
    <2>8. Decoded(d, e, limit)
      BY <2>3, <2>6, <2>7 DEF Decoded
    <2> QED
      BY <2>8 DEF e
  <1>6. CASE room # 0
    <2>1. e = [c EXCEPT !.remainLen = rest]
      BY <1>3, <1>6
    <2>2. Sound(c) /\ IsDec(c) /\ Len(c.dic) = Len(d.dic) + n /\ c.reps = d.reps /\ Grown(d, c)
      BY <1>4, Cited DEF Written, Grown
    <2>3. IsDec(e) /\ \A f \in DecFields \ {"remainLen"} : e[f] = c[f]
      BY <2>1, <2>2 DEF IsDec, DecFields
    <2>4. e.remainLen = rest
      BY <2>1, <2>2 DEF IsDec, DecFields
    <2>5. /\ e.pc = c.pc /\ e.dry = c.dry /\ e.eof = c.eof /\ e.stray = c.stray
          /\ e.reps = c.reps /\ e.checkDicSize = c.checkDicSize /\ e.dicSize = c.dicSize
          /\ e.dicLimit = c.dicLimit /\ e.dic = c.dic /\ e.processedPos = c.processedPos
      BY <2>3 DEF DecFields
    <2>6. Sound(e)
      BY <2>2, <2>3, <2>5 DEF Sound, Real
    <2>7. Len(c.dic) \in Nat
      BY <2>2, Cited
    <2>8. Grown(d, e)
      BY <2>2, <2>5, <2>6, <2>7 DEF Grown
    <2>9. Reaching(e.reps, Len(e.dic))
      <3>1. Len(d.dic) <= Len(c.dic)
        BY <2>2 DEF Grown
      <3>2. Reaching(c.reps, Len(c.dic))
        BY <1>1, <2>2, <2>7, <3>1, ReachingMore
      <3> QED
        BY <2>5, <3>2
    <2>10. Len(e.dic) <= limit
      BY <1>2, <2>2, <2>5
    <2>11. Decoded(d, e, limit)
      BY <1>2, <2>4, <2>8, <2>9, <2>10 DEF Decoded
    <2> QED
      BY <2>11 DEF e
  <1> QED
    BY <1>5, <1>6

\* The distances and the state change, then the match is copied.
LEMMA CopiesWith ==
    ASSUME NEW d, Sound(d), NEW reps, Reaching(reps, Len(d.dic)), NEW state, NEW limit \in Nat,
           Len(d.dic) <= limit, NEW len \in Nat
    PROVE  Decoded(d, CopyUpTo([d EXCEPT !.reps = reps, !.state = state], limit, len), limit)
  <1> DEFINE m == [d EXCEPT !.reps = reps, !.state = state]
             e == CopyUpTo(m, limit, len)
  <1>1. IsDec(d) /\ Len(d.dic) \in Nat
    BY Cited
  <1>2. IsDec(m) /\ \A f \in DecFields \ {"reps", "state"} : m[f] = d[f]
    BY <1>1 DEF IsDec, DecFields
  <1>3. m.reps = reps
    BY <1>1 DEF IsDec, DecFields
  <1> HIDE DEF m
  <1>4. /\ m.pc = d.pc /\ m.dry = d.dry /\ m.eof = d.eof /\ m.stray = d.stray
        /\ m.checkDicSize = d.checkDicSize /\ m.dicSize = d.dicSize
        /\ m.dicLimit = d.dicLimit /\ m.dic = d.dic /\ m.processedPos = d.processedPos
    BY <1>2 DEF DecFields
  <1>5. Sound(m)
    BY <1>2, <1>4 DEF Sound, Real
  <1>6. Decoded(m, e, limit)
    BY <1>3, <1>4, <1>5, CopiesUpTo
  <1> HIDE DEF e
  <1>7. Grown(d, m)
    BY <1>1, <1>4, <1>5 DEF Grown
  <1>8. Decoded(d, e, limit)
    BY <1>6, <1>7, GrownTwice DEF Decoded, IsTheEnd
  <1> QED
    BY <1>8 DEF e, m

LEMMA DecodesShortRep ==
    ASSUME NEW d, Sound(d), Reaching(d.reps, Len(d.dic)), NEW limit \in Nat, Len(d.dic) < limit
    PROVE  Decoded(d, ShortRep(d), limit)
  <1> DEFINE c == CopyOne(d, d.reps[1])
             state == IF c.state < kNumLitStates THEN 9 ELSE 11
             e == ShortRep(d)
  <1>1. Len(d.dic) \in Nat /\ d.reps[1] \in 1..Len(d.dic)
    BY Cited DEF Reaching, kNumReps
  <1>2. Written(d, c, 1)
    BY <1>1, CopiesOne
  <1>3. e = [c EXCEPT !.state = state, !.remainLen = 0]
    BY DEF ShortRep
  <1> HIDE DEF c, state, e
  <1>4. Sound(c) /\ IsDec(c) /\ Len(c.dic) = Len(d.dic) + 1 /\ c.reps = d.reps /\ Grown(d, c)
    BY <1>2, Cited DEF Written, Grown
  <1>5. IsDec(e) /\ \A f \in DecFields \ {"state", "remainLen"} : e[f] = c[f]
    BY <1>3, <1>4 DEF IsDec, DecFields
  <1>6. e.remainLen = 0
    BY <1>3, <1>4 DEF IsDec, DecFields
  <1>7. /\ e.pc = c.pc /\ e.dry = c.dry /\ e.eof = c.eof /\ e.stray = c.stray
        /\ e.reps = c.reps /\ e.checkDicSize = c.checkDicSize /\ e.dicSize = c.dicSize
        /\ e.dicLimit = c.dicLimit /\ e.dic = c.dic /\ e.processedPos = c.processedPos
    BY <1>5 DEF DecFields
  <1>8. Sound(e)
    BY <1>4, <1>5, <1>7 DEF Sound, Real
  <1>9. Len(c.dic) \in Nat
    BY <1>4, Cited
  <1>10. Grown(d, e)
    BY <1>4, <1>7, <1>8, <1>9 DEF Grown
  <1>11. Reaching(e.reps, Len(e.dic))
    <2>1. Len(d.dic) <= Len(c.dic)
      BY <1>4 DEF Grown
    <2>2. Reaching(c.reps, Len(c.dic))
      BY <1>1, <1>4, <1>9, <2>1, ReachingMore
    <2> QED
      BY <1>7, <2>2
  <1>12. Len(e.dic) <= limit
    BY <1>1, <1>4, <1>7
  <1>13. Decoded(d, e, limit)
    BY <1>6, <1>10, <1>11, <1>12 DEF Decoded
  <1> QED
    BY <1>13 DEF e

LEMMA DecodesLongRep ==
    ASSUME NEW d, Sound(d), NEW reps, Reaching(reps, Len(d.dic)), NEW limit \in Nat,
           Len(d.dic) <= limit
    PROVE  Decoded(d, LongRep(d, reps, limit), limit)
  <1> DEFINE l == LenValue(d, 1)
             state == IF l.state < kNumLitStates THEN 8 ELSE 11
             len == l.sym + kMatchMinLen
             e == CopyUpTo([l EXCEPT !.reps = reps, !.state = state], limit, len)
  <1>1. LongRep(d, reps, limit) = e
    BY DEF LongRep, CopyRep
  <1>2. Kept(d, l) /\ l.sym \in Nat
    BY LengthIsRead DEF FieldRead, Sound
  <1> HIDE DEF l
  <1>3. len \in Nat
    BY <1>2 DEF kMatchMinLen
  <1> HIDE DEF len, state
  <1>4. Sound(l) /\ l.dic = d.dic
    BY <1>2, SoundKept, KeptFields
  <1>5. Decoded(l, e, limit)
    BY <1>3, <1>4, CopiesWith
  <1> HIDE DEF e
  <1> QED
    BY <1>1, <1>2, <1>5, KeptDecoded

LEMMA RepsSwapped ==
    ASSUME NEW n \in Nat, NEW rep, Reaching(rep, n)
    PROVE  /\ Reaching(<<rep[2], rep[1], rep[3], rep[4]>>, n)
           /\ Reaching(<<rep[3], rep[1], rep[2], rep[4]>>, n)
           /\ Reaching(<<rep[4], rep[1], rep[2], rep[3]>>, n)
  <1>1. rep[1] \in 1..n /\ rep[2] \in 1..n /\ rep[3] \in 1..n /\ rep[4] \in 1..n
    <2> DEFINE S == 1..n
    <2>1. rep \in Seq(S) /\ Len(rep) = 4
      BY DEF Reaching, kNumReps
    <2> HIDE DEF S
    <2>2. \A i \in 1..4 : rep[i] \in S
      BY <2>1, ElementOfSeq
    <2> QED
      BY <2>2 DEF S
  <1>2. ASSUME NEW a \in 1..n, NEW b \in 1..n, NEW c \in 1..n, NEW d \in 1..n
        PROVE  Reaching(<<a, b, c, d>>, n)
    BY DEF Reaching, kNumReps
  <1> QED
    BY <1>1, <1>2

LEMMA DecodesRep ==
    ASSUME NEW d, Sound(d), Reaching(d.reps, Len(d.dic)), NEW limit \in Nat, Len(d.dic) < limit
    PROVE  Decoded(d, DecodeRep(d, limit), limit)
  <1> DEFINE g0 == GET_BIT(d, IsRepG0(d))
             long == GET_BIT(g0, IsRep0Long(d))
             g1 == GET_BIT(g0, IsRepG1(d))
             g2 == GET_BIT(g1, IsRepG2(d))
             rep == d.reps
             r1 == <<rep[2], rep[1], rep[3], rep[4]>>
             r2 == <<rep[3], rep[1], rep[2], rep[4]>>
             r3 == <<rep[4], rep[1], rep[2], rep[3]>>
  <1>1. DecodeRep(d, limit) =
          IF g0.bit = 0
          THEN IF long.bit = 0 THEN ShortRep(long) ELSE LongRep(long, rep, limit)
          ELSE IF g1.bit = 0 THEN LongRep(g1, r1, limit)
          ELSE LongRep(g2, IF g2.bit = 0 THEN r2 ELSE r3, limit)
    BY DEF DecodeRep
  <1>2. Reaching(r1, Len(d.dic)) /\ Reaching(r2, Len(d.dic)) /\ Reaching(r3, Len(d.dic))
    BY Cited, RepsSwapped
  <1> HIDE DEF r1, r2, r3
  <1>3. Real(d)
    BY DEF Sound
  <1>4. Kept(d, g0) /\ Real(g0)
    BY <1>3, GetBitReads, KeptReal DEF BitRead
  <1> HIDE DEF g0
  <1>5. Kept(d, long) /\ Kept(d, g1) /\ Real(g1)
    BY <1>4, GetBitReads, KeptReal, KeptTwice DEF BitRead
  <1> HIDE DEF g1, long
  <1>6. Kept(d, g2)
    BY <1>5, GetBitReads, KeptTwice DEF BitRead
  <1> HIDE DEF g2
  <1>7. /\ Sound(long) /\ long.dic = d.dic /\ long.reps = rep
        /\ Sound(g1) /\ g1.dic = d.dic /\ Sound(g2) /\ g2.dic = d.dic
    BY <1>5, <1>6, SoundKept, KeptFields
  <1>8. Len(d.dic) <= limit
    BY Cited
  <1>9. Decoded(long, ShortRep(long), limit) /\ Decoded(long, LongRep(long, rep, limit), limit)
    BY <1>7, <1>8, DecodesShortRep, DecodesLongRep
  <1>10. Decoded(g1, LongRep(g1, r1, limit), limit)
    BY <1>2, <1>7, <1>8, DecodesLongRep
  <1>11. Decoded(g2, LongRep(g2, r2, limit), limit) /\ Decoded(g2, LongRep(g2, r3, limit), limit)
    BY <1>2, <1>7, <1>8, DecodesLongRep
  <1>12. /\ Decoded(d, ShortRep(long), limit) /\ Decoded(d, LongRep(long, rep, limit), limit)
         /\ Decoded(d, LongRep(g1, r1, limit), limit)
         /\ Decoded(d, LongRep(g2, r2, limit), limit) /\ Decoded(d, LongRep(g2, r3, limit), limit)
    BY <1>5, <1>6, <1>9, <1>10, <1>11, KeptDecoded
  <1> HIDE DEF rep
  <1> QED
    BY <1>1, <1>12

\* A match whose distance is d.sym.
LEMMA CopiesFrom ==
    ASSUME NEW d, Sound(d), Reaching(d.reps, Reach(d)), d.sym \in Nat, NEW len \in Nat,
           NEW limit \in Nat, Len(d.dic) < limit
    PROVE  Decoded(d, CopyFrom(d, len, limit), limit)
  <1> DEFINE reps == <<d.sym + 1>> \o SubSeq(d.reps, 1, kNumReps - 1)
             state == IF d.state < kNumLitStates THEN 7 ELSE 10
             m == [d EXCEPT !.reps = reps, !.state = state]
             e == CopyFrom(d, len, limit)
             bad == len + kMatchSpecLen_Error_Data + kMatchMinLen
  <1>1. e = IF d.sym = EndMarkDistance
            THEN [d EXCEPT !.remainLen = kMatchSpecLenStart, !.break = TRUE]
            ELSE IF TooFar(d, d.sym)
            THEN [m EXCEPT !.remainLen = bad, !.break = TRUE]
            ELSE CopyUpTo(m, limit, len + kMatchMinLen)
    BY DEF CopyFrom
  <1>2. IsDec(d) /\ Len(d.dic) \in Nat
    BY Cited
  <1>3. bad \in Nat /\ bad >= kMatchSpecLen_Error_Data /\ kMatchSpecLenStart \in Nat
    BY ErrorIsLater DEF kMatchMinLen
  <1> HIDE DEF reps, state, bad, e
  <1>4. CASE d.sym = EndMarkDistance
    <2>1. e = [d EXCEPT !.remainLen = kMatchSpecLenStart, !.break = TRUE]
      BY <1>1, <1>4
    <2>2. IsDec(e) /\ \A f \in DecFields \ {"remainLen", "break"} : e[f] = d[f]
      BY <1>2, <2>1 DEF IsDec, DecFields
    <2>3. e.remainLen = kMatchSpecLenStart /\ e.break = TRUE
      BY <1>2, <2>1 DEF IsDec, DecFields
    <2>4. /\ e.pc = d.pc /\ e.dry = d.dry /\ e.eof = d.eof /\ e.stray = d.stray
          /\ e.reps = d.reps /\ e.checkDicSize = d.checkDicSize /\ e.dicSize = d.dicSize
          /\ e.dicLimit = d.dicLimit /\ e.dic = d.dic /\ e.processedPos = d.processedPos
      BY <2>2 DEF DecFields
    <2>5. Sound(e)
      BY <2>2, <2>4 DEF Sound, Real
    <2>6. Grown(d, e) /\ Len(e.dic) <= limit
      BY <1>2, <2>4, <2>5 DEF Grown
    <2>7. IsTheEnd(d, e)
      BY <2>3, <2>4 DEF IsTheEnd, Reach
    <2>8. Decoded(d, e, limit)
      BY <1>3, <2>3, <2>6, <2>7 DEF Decoded
    <2> QED
      BY <2>8 DEF e
  <1>5. CASE d.sym # EndMarkDistance /\ TooFar(d, d.sym)
    <2>1. e = [d EXCEPT !.reps = reps, !.state = state, !.remainLen = bad, !.break = TRUE]
      BY <1>1, <1>2, <1>5 DEF IsDec, DecFields
    <2>2. IsDec(e) /\ \A f \in DecFields \ {"reps", "state", "remainLen", "break"} : e[f] = d[f]
      BY <1>2, <2>1 DEF IsDec, DecFields
    <2>3. e.remainLen = bad /\ e.break = TRUE
      BY <1>2, <2>1 DEF IsDec, DecFields
    <2>4. /\ e.pc = d.pc /\ e.dry = d.dry /\ e.eof = d.eof /\ e.stray = d.stray
          /\ e.checkDicSize = d.checkDicSize /\ e.dicSize = d.dicSize
          /\ e.dicLimit = d.dicLimit /\ e.dic = d.dic /\ e.processedPos = d.processedPos
      BY <2>2 DEF DecFields
    <2>5. Sound(e)
      BY <2>2, <2>4 DEF Sound, Real
    <2>6. Grown(d, e) /\ Len(e.dic) <= limit
      BY <1>2, <2>4, <2>5 DEF Grown
    <2>7. IsAnError(e)
      BY <1>3, <2>3 DEF IsAnError
    <2>8. Decoded(d, e, limit)
      BY <1>3, <2>3, <2>6, <2>7 DEF Decoded
    <2> QED
      BY <2>8 DEF e
  <1>6. CASE d.sym # EndMarkDistance /\ ~TooFar(d, d.sym)
    <2>1. d.sym + 1 \in 1..Len(d.dic)
      <3> DEFINE n == Len(d.dic)
                 check == d.checkDicSize
                 pos == d.processedPos
                 size == d.dicSize
                 v == d.sym
      <3>1. /\ n \in Nat /\ pos = n /\ size \in Nat /\ v \in Nat
            /\ check = 0 \/ (check = size /\ size <= n)
        BY <1>2 DEF Sound
      <3>2. ~(v >= (IF check = 0 THEN pos ELSE check))
        BY <1>6 DEF TooFar
      <3> HIDE DEF n, check, pos, size, v
      <3>3. v + 1 \in 1..n
        BY <3>1, <3>2
      <3> QED
        BY <3>3 DEF n, v
    <2>2. Reaching(reps, Len(d.dic))
      <3>1. Reach(d) = Len(d.dic)
        BY <1>2, <2>1 DEF Reach
      <3> DEFINE S == 1..Len(d.dic)
                 three == SubSeq(d.reps, 1, 3)
                 one == <<d.sym + 1>>
      <3>2. d.reps \in Seq(S) /\ Len(d.reps) = 4 /\ d.sym + 1 \in S
        BY <2>1, <3>1 DEF Reaching, kNumReps
      <3> HIDE DEF S
      <3>3. three \in Seq(S)
        BY <3>2
      <3>4. Len(three) = 3
        BY <3>2
      <3>5. one \in Seq(S) /\ Len(one) = 1
        BY <3>2
      <3>6. reps = one \o three
        BY DEF reps, kNumReps
      <3> HIDE DEF one, three
      <3>7. reps \in Seq(S)
        BY <3>3, <3>5, <3>6
      <3>8. Len(reps) = 1 + 3
        <4>1. Len(one \o three) = Len(one) + Len(three)
          BY <3>3, <3>5, ConcatProperties, Zenon
        <4> QED
          BY <3>4, <3>5, <3>6, <4>1, Zenon
      <3>9. Len(reps) = kNumReps
        BY <3>8 DEF kNumReps
      <3> QED
        BY <3>7, <3>9, Zenon DEF Reaching, S
    <2>3. e = CopyUpTo(m, limit, len + kMatchMinLen)
      BY <1>1, <1>6
    <2>4. len + kMatchMinLen \in Nat /\ Len(d.dic) <= limit
      BY <1>2 DEF kMatchMinLen
    <2>5. Decoded(d, e, limit)
      BY <2>2, <2>3, <2>4, CopiesWith
    <2> QED
      BY <2>5 DEF e
  <1> QED
    BY <1>4, <1>5, <1>6

LEMMA DecodesMatch ==
    ASSUME NEW d, Sound(d), Reaching(d.reps, Reach(d)), NEW limit \in Nat, Len(d.dic) < limit
    PROVE  Decoded(d, DecodeMatch(d, limit), limit)
  <1> DEFINE l == LenValue(d, 0)
             v == DistanceValue(l, l.sym)
             e == CopyFrom(v, l.sym, limit)
  <1>1. DecodeMatch(d, limit) = e
    BY DEF DecodeMatch, MatchOf
  <1>2. Kept(d, l) /\ l.sym \in Nat /\ Real(l)
    BY LengthIsRead, KeptReal DEF FieldRead, Sound
  <1> HIDE DEF l
  <1>3. Kept(d, v) /\ v.sym \in Nat
    BY <1>2, DistanceIsRead, KeptTwice DEF FieldRead
  <1> HIDE DEF v
  <1>4. Sound(v) /\ v.dic = d.dic /\ v.reps = d.reps
    BY <1>3, SoundKept, KeptFields
  <1>5. Decoded(v, e, limit)
    BY <1>2, <1>3, <1>4, CopiesFrom DEF Reach
  <1> HIDE DEF e
  <1> QED
    BY <1>1, <1>3, <1>5, KeptDecoded

(***************************************************************************)
(* The first symbol.  Where nothing is written yet the code is below       *)
(* kBadRepCode, so a match is not one of the last distances.               *)
(***************************************************************************)
First(d) ==
    /\ d.remainLen = 0 /\ d.probs = <<>> /\ d.state = 0 /\ d.range = kRange0
    /\ d.code \in Nat /\ d.code < kBadRepCode

LEMMA FirstBounds ==
    /\ kRange0 \in Nat /\ kTopValue <= kRange0 /\ kBound0 \in Nat /\ kProbInitValue \in Nat
    /\ kTopValue <= kRange0 - kBound0
    /\ kBadRepCode = kBound0 + ((kRange0 - kBound0) \div kBitModelTotal) * kProbInitValue
    /\ kBound0 = (kRange0 \div kBitModelTotal) * kProbInitValue
  <1>1. /\ kRange0 \in Nat /\ kTopValue <= kRange0 /\ kTopValue \in Nat
        /\ kBitModelTotal \in Nat \ {0}
    BY Widths DEF kRange0
  <1> DEFINE q == kRange0 \div kBitModelTotal
             h == kBitModelTotal \div 2
             T == kBitModelTotal
  <1>2. q \in Nat /\ h \in Nat /\ 2 * h <= T /\ T * q <= kRange0 /\ T \in Nat
    <2>1. h \in Nat /\ 2 * h <= T /\ T \in Nat
      BY <1>1
    <2>2. q \in Nat /\ T * q <= kRange0
      <3> DEFINE r == kRange0 % kBitModelTotal
                 tq == T * q
      <3>1. q \in Nat /\ r \in Nat /\ kRange0 = tq + r
        BY <1>1, Remainder
      <3>2. tq \in Nat
        BY <2>1, <3>1
      <3> HIDE DEF r, tq
      <3>3. tq <= kRange0
        BY <3>1, <3>2
      <3> QED
        BY <3>1, <3>3 DEF tq
    <2> QED
      BY <2>1, <2>2
  <1>3. kBound0 = q * h
    BY DEF kBound0
  <1>4. kBadRepCode = kBound0 + ((kRange0 - kBound0) \div kBitModelTotal) * h
    BY DEF kBadRepCode
  <1>5. kProbInitValue = h
    BY DEF kProbInitValue
  <1> HIDE DEF q, h, T
  <1>6. kBound0 \in Nat /\ 2 * kBound0 <= kRange0
    <2>1. (2 * h) * q <= T * q /\ 2 * h \in Nat
      BY <1>2, TimesLess
    <2>2. (2 * h) * q = 2 * (q * h) /\ q * h \in Nat /\ T * q \in Nat
      BY <1>2
    <2> DEFINE x == q * h
               y == T * q
               z == (2 * h) * q
    <2>3. z <= y /\ z = 2 * x /\ x \in Nat /\ y \in Nat /\ y <= kRange0 /\ kBound0 = x
      BY <1>2, <1>3, <2>1, <2>2
    <2> HIDE DEF x, y, z
    <2> QED
      BY <1>1, <2>3
  <1>7. 2 * kTopValue <= kRange0 + 1
    <2>1. kTopValue * 2 <= kTopValue * Base
      BY Widths, TimesLess
    <2>2. Word \in Nat /\ Word = kTopValue * Base /\ kTopValue \in Nat
      BY Widths
    <2> DEFINE x == kTopValue * Base
    <2>3. kTopValue * 2 <= x /\ Word = x /\ x \in Nat
      BY <2>1, <2>2
    <2> HIDE DEF x
    <2> QED
      BY <2>2, <2>3 DEF kRange0
  <1>8. kTopValue <= kRange0 - kBound0
    BY <1>1, <1>6, <1>7
  <1> QED
    BY <1>1, <1>2, <1>3, <1>4, <1>5, <1>6, <1>8 DEF q

LEMMA FirstIsNoRep ==
    ASSUME NEW d, Real(d), First(d),
           GET_BIT(d, IsMatch(d)).bit # 0
    PROVE  GET_BIT(GET_BIT(d, IsMatch(d)), IsRep(d)).bit = 0
  <1> DEFINE key == IsMatch(d)
             key2 == IsRep(d)
             probs == Adapt(d.probs, key, 1)
             range == kRange0 - kBound0
             code == d.code - kBound0
             b == [d EXCEPT !.range = range, !.code = code, !.bit = 1]
             m == GET_BIT(d, key)
             m2 == [b EXCEPT !.probs = probs]
             bound == (range \div kBitModelTotal) * kProbInitValue
  <1>1. IsDec(d) /\ d.eof = FALSE /\ d.code \in Nat /\ d.range = kRange0
    BY DEF Real, First
  <1>2. NORMALIZE(d) = d
    <2>1. ~(d.range < kTopValue)
      BY <1>1, FirstBounds, Widths
    <2> QED
      BY <2>1 DEF NORMALIZE
  <1>3. Prob(d.probs, key) = kProbInitValue
    BY DEF Prob, First
  <1>4. Narrow(d, kProbInitValue) = IF d.code < kBound0 THEN [d EXCEPT !.range = kBound0, !.bit = 0]
                                    ELSE b
    BY <1>1, FirstBounds DEF Narrow
  <1>5. m = Update(IF d.code < kBound0 THEN [d EXCEPT !.range = kBound0, !.bit = 0] ELSE b, key)
    BY <1>2, <1>3, <1>4 DEF GET_BIT
  <1> HIDE DEF range, code
  <1>6. ~(d.code < kBound0)
    <2>1. SUFFICES ASSUME d.code < kBound0 PROVE m.bit = 0
      OBVIOUS
    <2> DEFINE a == [d EXCEPT !.range = kBound0, !.bit = 0]
    <2>2. IsDec(a) /\ a.bit = 0
      BY <1>1 DEF IsDec, DecFields
    <2>3. m = Update(a, key)
      BY <1>5, <2>1
    <2> HIDE DEF a, key
    <2> QED
      BY <2>2, <2>3, UpdateKeeps
  <1>7. IsDec(b) /\ b.bit = 1 /\ b.range = range /\ b.code = code /\ b.eof = FALSE /\ b.probs = d.probs
    BY <1>1 DEF IsDec, DecFields
  <1>8. m = m2
    BY <1>5, <1>6, <1>7 DEF Update
  <1> HIDE DEF b, probs, m
  <1>9. /\ IsDec(m2) /\ m2.range = range /\ m2.code = code /\ m2.eof = FALSE
        /\ m2.probs = probs
    BY <1>7 DEF IsDec, DecFields
  <1> HIDE DEF m2
  <1>10. NORMALIZE(m) = m
    <2>1. m.range = kRange0 - kBound0
      BY <1>8, <1>9 DEF range
    <2>2. kTopValue \in Nat /\ kRange0 \in Nat /\ kBound0 \in Nat
      BY FirstBounds, Widths
    <2>3. ~(m.range < kTopValue)
      BY <2>1, <2>2, FirstBounds
    <2> QED
      BY <2>3 DEF NORMALIZE
  <1>11. Prob(m.probs, key2) = kProbInitValue
    <2>1. DOMAIN probs = {key}
      BY DEF probs, Adapt, First
    <2>2. key # key2
      BY DEF IsMatch, IsRep
    <2> QED
      BY <1>8, <1>9, <2>1, <2>2 DEF Prob
  <1>12. m.code < bound
    <2>1. m.code = d.code - kBound0 /\ kBadRepCode = kBound0 + bound /\ d.code < kBadRepCode
      BY <1>8, <1>9, FirstBounds DEF First, code, range
    <2>2. bound \in Int
      <3>1. range \in Nat /\ kBitModelTotal \in Nat \ {0} /\ kProbInitValue \in Nat
        <4>1. kRange0 \in Nat /\ kBound0 \in Nat /\ kTopValue \in Nat /\ kTopValue <= kRange0 - kBound0
          BY FirstBounds, Widths
        <4>2. range \in Nat
          BY <4>1 DEF range
        <4> QED
          BY <4>2, FirstBounds, Widths
      <3>2. range \div kBitModelTotal \in Nat
        BY <3>1
      <3> QED
        BY <3>1, <3>2
    <2> HIDE DEF bound
    <2> QED
      BY <1>1, <2>1, <2>2, FirstBounds
  <1>13. GET_BIT(m, key2) = Update([m EXCEPT !.range = bound, !.bit = 0], key2)
    <2>1. m.range = range /\ m.eof = FALSE
      BY <1>8, <1>9
    <2>2. Narrow(m, kProbInitValue) = [m EXCEPT !.range = bound, !.bit = 0]
      BY <1>12, <2>1 DEF Narrow
    <2> HIDE DEF key2
    <2> QED
      BY <1>10, <1>11, <2>2 DEF GET_BIT
  <1> DEFINE a == [m EXCEPT !.range = bound, !.bit = 0]
  <1>14. IsDec(a) /\ a.bit = 0
    <2> HIDE DEF bound
    <2> QED
      BY <1>8, <1>9 DEF IsDec, DecFields
  <1>15. GET_BIT(m, key2) = Update(a, key2)
    BY <1>13
  <1> HIDE DEF a, key2
  <1>16. GET_BIT(m, key2).bit = 0
    BY <1>14, <1>15, UpdateKeeps
  <1> QED
    BY <1>16 DEF m, key2

LEMMA DecodesOne ==
    ASSUME NEW d, Sound(d), Reaching(d.reps, Reach(d)), NEW limit \in Nat, Len(d.dic) < limit,
           Len(d.dic) > 0 \/ First(d)
    PROVE  Decoded(d, DecodeOne(d, limit), limit)
  <1> DEFINE m == GET_BIT(d, IsMatch(d))
             r == GET_BIT(m, IsRep(d))
  <1>1. DecodeOne(d, limit) = IF m.bit = 0 THEN DecodeLiteral(m)
                              ELSE IF r.bit = 0 THEN DecodeMatch(r, limit) ELSE DecodeRep(r, limit)
    BY DEF DecodeOne
  <1>2. Real(d) /\ Len(d.dic) \in Nat
    BY Cited DEF Sound
  <1>3. m.bit # 0 /\ r.bit # 0 => Len(d.dic) > 0
    BY <1>2, FirstIsNoRep
  <1>4. Kept(d, m) /\ Real(m)
    BY <1>2, GetBitReads, KeptReal DEF BitRead
  <1>5. d.state = 0 \/ Len(d.dic) > 0
    BY DEF First
  <1> HIDE DEF m
  <1>6. Kept(d, r)
    BY <1>4, GetBitReads, KeptTwice DEF BitRead
  <1> HIDE DEF r
  <1>7. /\ Sound(m) /\ m.dic = d.dic /\ m.reps = d.reps /\ m.state = d.state /\ Reach(m) = Reach(d)
        /\ Sound(r) /\ r.dic = d.dic /\ r.reps = d.reps /\ Reach(r) = Reach(d)
    BY <1>4, <1>6, SoundKept, KeptFields DEF Reach
  <1>8. Decoded(m, DecodeLiteral(m), limit)
    BY <1>5, <1>7, DecodesLiteral
  <1>9. Decoded(r, DecodeMatch(r, limit), limit)
    BY <1>7, DecodesMatch
  <1>10. m.bit # 0 /\ r.bit # 0 => Decoded(r, DecodeRep(r, limit), limit)
    <2> SUFFICES ASSUME m.bit # 0 /\ r.bit # 0 PROVE Decoded(r, DecodeRep(r, limit), limit)
      OBVIOUS
    <2>1. Reach(d) = Len(d.dic)
      BY <1>2, <1>3 DEF Reach
    <2> QED
      BY <1>7, <2>1, DecodesRep
  <1> QED
    BY <1>1, <1>4, <1>6, <1>8, <1>9, <1>10, KeptDecoded

(***************************************************************************)
(* The size of the dictionary.                                             *)
(***************************************************************************)
LEMMA RoundedIsNat ==
    ASSUME NEW i \in 0..64
    PROVE  RoundedSize(i) \in Nat
  <1> DEFINE h == i \div 2
             power == 2 ^ h
             odd == i % 2
  <1>1. h \in 0..32 /\ odd \in Nat
    BY SMT
  <1>2. RoundedSize(i) = (2 + odd) * power
    BY DEF RoundedSize
  <1> HIDE DEF h, odd
  <1>3. power \in Nat
    <2>1. IsPower(h)
      BY <1>1, PowersOfTwo
    <2> QED
      BY <2>1, SMT DEF IsPower
  <1> HIDE DEF power
  <1> QED
    BY <1>1, <1>2, <1>3, SMT

LEMMA RoundedReaches == RoundedSize(64) >= DictSize
  <1> DEFINE all == 2 ^ 32
  <1>1. all \in Nat
    BY SMT
  <1>2. 64 \div 2 = 32 /\ 64 % 2 = 0
    BY SMT
  <1>3. RoundedSize(64) = (2 + 0) * all
    BY <1>2, Zenon DEF RoundedSize
  <1>4. DictSize \in Nat /\ DictSize < all
    BY DistancesFit, Zenon
  <1> HIDE DEF all
  <1> QED
    BY <1>1, <1>3, <1>4, SMT

LEMMA DictIsNat == WriteProperties.dict \in Nat
  <1> DEFINE n == DicMinBits + 8
             unit == 2 ^ n
             low == 2 * DicMinBits - 2
             Least(i) == /\ RoundedSize(i) >= DictSize
                         /\ \A j \in low .. i - 1 : RoundedSize(j) < DictSize
             least == CHOOSE i \in low .. 64 : Least(i)
  <1>1. /\ n \in 0..32 /\ low \in 0..64 /\ DictSize \in Nat
    <2>1. DictSize \in Nat
      BY DistancesFit, Zenon
    <2> QED
      BY <2>1, FormatAssumption, SMT
  <1>2. WriteProperties.dict = IF DictSize >= 2 * unit THEN ((DictSize + unit - 1) \div unit) * unit
                               ELSE RoundedSize(least)
    BY Zenon DEF WriteProperties
  <1> HIDE DEF n, low
  <1>3. unit \in Nat \ {0}
    <2>1. IsPower(n)
      BY <1>1, PowersOfTwo
    <2> QED
      BY <2>1, Zenon DEF IsPower
  <1> HIDE DEF unit
  <1>4. ((DictSize + unit - 1) \div unit) * unit \in Nat
    <2> DEFINE x == DictSize + unit - 1
               q == x \div unit
    <2>1. x \in Nat
      BY <1>1, <1>3, SMT
    <2> HIDE DEF x
    <2>2. q \in Nat
      BY <1>3, <2>1, Remainder
    <2> HIDE DEF q
    <2>3. q * unit \in Nat
      BY <1>3, <2>2, SMT
    <2> QED
      BY <2>3 DEF q, x
  <1>5. \E i \in low .. 64 : Least(i)
    <2> DEFINE T == {i \in Nat : i \in low .. 64 /\ RoundedSize(i) >= DictSize}
    <2>1. 64 \in T
      BY <1>1, RoundedReaches
    <2>2. IsWellFoundedOn(OpToRel(<, Nat), Nat)
      BY NatLessThanWellFounded
    <2>3. PICK i \in T : \A j \in T : ~ (<<j, i>> \in OpToRel(<, Nat))
      BY <2>1, <2>2, WFMin
    <2>4. ASSUME NEW j \in low .. i - 1
          PROVE  RoundedSize(j) < DictSize
      <3>1. j \in Nat /\ j < i /\ j \in low .. 64 /\ j \in 0..64 /\ i \in Nat
        BY <1>1
      <3>2. <<j, i>> \in OpToRel(<, Nat)
        BY <3>1 DEF OpToRel
      <3>3. ~(RoundedSize(j) >= DictSize)
        BY <2>3, <3>1, <3>2
      <3> QED
        BY <1>1, <3>1, <3>3, RoundedIsNat
    <2>5. Least(i) /\ i \in low .. 64
      BY <2>4
    <2> QED
      BY <2>5
  <1>6. least \in low .. 64
    <2> HIDE DEF Least
    <2> QED
      BY <1>5
  <1>7. RoundedSize(least) \in Nat
    <2> HIDE DEF least
    <2>1. least \in 0..64
      BY <1>1, <1>6
    <2> QED
      BY <2>1, RoundedIsNat
  <1> HIDE DEF least
  <1> QED
    BY <1>2, <1>4, <1>7

LEMMA DicSizeIsNat == PropsDecode(WriteProperties).dicSize \in Nat \ {0}
  <1> DEFINE min == 2 ^ DicMinBits
             dict == WriteProperties.dict
  <1>1. PropsDecode(WriteProperties).dicSize = IF dict < min THEN min ELSE dict
    BY DEF PropsDecode
  <1>2. min \in Nat \ {0}
    <2>1. DicMinBits \in 0..32
      BY FormatAssumption, SMT
    <2>2. IsPower(DicMinBits)
      BY <2>1, PowersOfTwo
    <2> QED
      BY <2>2, Zenon DEF IsPower
  <1>3. dict \in Nat
    BY DictIsNat
  <1> HIDE DEF min, dict
  <1> QED
    BY <1>1, <1>2, <1>3

(***************************************************************************)
(* The main loop.                                                          *)
(***************************************************************************)
\* What holds between two symbols.
Ready(d) ==
    /\ Sound(d) /\ d.remainLen \in Nat /\ Len(d.dic) <= d.dicLimit
    /\ Reaching(d.reps, Reach(d))
    /\ d.checkDicSize = 0 => Len(d.dic) < d.dicSize

AtTop(d) ==
    /\ Ready(d) /\ d.pc = "top"
    /\ Len(d.dic) > 0 \/ First(d) \/ d.remainLen = kMatchSpecLenStart

AtSymbol(d) ==
    /\ Ready(d) /\ d.pc = "real" /\ Len(d.dic) < d.dicLimit
    /\ Len(d.dic) > 0 \/ First(d)

AtEnd(d) ==
    /\ d.pc = "done" /\ d.stray = FALSE
    /\ d.dic \in Seq(Nat) /\ d.dicLimit \in Nat /\ Len(d.dic) <= d.dicLimit

DecFits(d) == d = DecIdle \/ AtTop(d) \/ AtSymbol(d) \/ AtEnd(d)

LEMMA ReturnedEnds ==
    ASSUME NEW d, Sound(d), Len(d.dic) <= d.dicLimit, NEW res, NEW status
    PROVE  DecFits(Returned(d, res, status))
  <1> DEFINE e == Returned(d, res, status)
  <1>1. IsDec(d) /\ d.stray = FALSE /\ d.dic \in Seq(Nat) /\ d.dicLimit \in Nat
    BY Cited DEF Sound
  <1>2. e.pc = "done" /\ e.stray = d.stray /\ e.dic = d.dic /\ e.dicLimit = d.dicLimit
    BY <1>1 DEF Returned, IsDec, DecFields
  <1> HIDE DEF e
  <1>3. AtEnd(e)
    BY <1>1, <1>2 DEF AtEnd
  <1> QED
    BY <1>3 DEF DecFits, e

\* A change of the fields that the output does not depend on.
Aside(d, e) ==
    /\ IsDec(e)
    /\ e.dry = d.dry /\ e.eof = d.eof /\ e.stray = d.stray /\ e.state = d.state /\ e.reps = d.reps
    /\ e.range = d.range /\ e.code = d.code /\ e.probs = d.probs
    /\ e.processedPos = d.processedPos /\ e.checkDicSize = d.checkDicSize
    /\ e.dicSize = d.dicSize /\ e.remainLen = d.remainLen /\ e.dic = d.dic
    /\ e.dicLimit = d.dicLimit

LEMMA AsideReady ==
    ASSUME NEW d, NEW e, Ready(d), Aside(d, e)
    PROVE  Ready(e) /\ (First(d) => First(e))
  BY DEF Aside, Ready, Sound, Real, Reach, First

LEMMA ChooseReadFits ==
    ASSUME NEW d, Ready(d), Len(d.dic) < d.dicLimit, Len(d.dic) > 0 \/ First(d), NEW dummy
    PROVE  DecFits(ChooseRead(d, dummy))
  <1> DEFINE taken == dummy.buf - d.buf
             limit == Len(d.src) - LZMA_REQUIRED_INPUT_MAX
             bulk == [d EXCEPT !.pc = "real", !.dummyProcessed = -1, !.start = d.buf,
                               !.bufLimit = limit]
             one == [d EXCEPT !.pc = "real", !.dummyProcessed = taken, !.start = d.buf,
                              !.bufLimit = d.buf]
  <1>1. ChooseRead(d, dummy) =
          IF InSize(d) >= LZMA_REQUIRED_INPUT_MAX THEN bulk
          ELSE IF dummy.eof THEN Returned(d, "INPUT_EOF", "NEEDS_MORE_INPUT")
          ELSE IF taken > LZMA_REQUIRED_INPUT_MAX THEN Returned(d, "FAIL", "none") ELSE one
    BY DEF ChooseRead
  <1> HIDE DEF taken, limit
  <1>2. Sound(d) /\ Len(d.dic) <= d.dicLimit /\ IsDec(d) /\ Len(d.dic) \in Nat /\ d.dicLimit \in Nat
    BY Cited DEF Ready
  <1>3. /\ DecFits(Returned(d, "INPUT_EOF", "NEEDS_MORE_INPUT"))
        /\ DecFits(Returned(d, "FAIL", "none"))
    BY <1>2, ReturnedEnds
  <1>4. bulk.pc = "real" /\ Aside(d, bulk)
    BY <1>2 DEF Aside, IsDec, DecFields
  <1>5. one.pc = "real" /\ Aside(d, one)
    BY <1>2 DEF Aside, IsDec, DecFields
  <1> HIDE DEF bulk, one
  <1>6. ASSUME NEW e, e.pc = "real", Aside(d, e)
        PROVE  DecFits(e)
    <2>1. Ready(e) /\ (First(d) => First(e)) /\ e.dic = d.dic /\ e.dicLimit = d.dicLimit
      BY <1>6, AsideReady DEF Aside
    <2>2. AtSymbol(e)
      BY <1>6, <2>1 DEF AtSymbol
    <2> QED
      BY <2>2 DEF DecFits
  <1>7. DecFits(bulk) /\ DecFits(one)
    BY <1>4, <1>5, <1>6
  <1> QED
    BY <1>1, <1>3, <1>7

(* What is left of a match is copied on.                                   *)
LEMMA WritesRem ==
    ASSUME NEW d, AtTop(d), d.remainLen # kMatchSpecLenStart
    PROVE  /\ Ready(LzmaDec_WriteRem(d))
           /\ Len(LzmaDec_WriteRem(d).dic) > 0 \/ First(LzmaDec_WriteRem(d))
  <1> DEFINE room == d.dicLimit - dicPos(d)
             n == IF room < d.remainLen THEN room ELSE d.remainLen
             full == d.checkDicSize = 0 /\ d.dicSize - d.processedPos <= n
             c == CopyMatch(d, d.reps[1], n)
             rest == d.remainLen - n
             check == IF full THEN d.dicSize ELSE d.checkDicSize
             e == LzmaDec_WriteRem(d)
  <1>1. /\ Ready(d) /\ Sound(d) /\ IsDec(d) /\ Len(d.dic) \in Nat /\ d.dicLimit \in Nat
        /\ d.remainLen \in Nat /\ Len(d.dic) <= d.dicLimit
        /\ Len(d.dic) > 0 \/ First(d)
    BY Cited DEF AtTop, Ready
  <1>2. n \in Nat /\ rest \in Nat /\ n <= room /\ n <= d.remainLen /\ room \in Nat
        /\ Len(d.dic) + n <= d.dicLimit
    <2> DEFINE p == Len(d.dic)
               len == d.remainLen
               limit == d.dicLimit
    <2>1. room = limit - p /\ p \in Nat /\ p <= limit /\ limit \in Nat /\ len \in Nat
      BY <1>1 DEF dicPos
    <2>2. n = (IF room < len THEN room ELSE len) /\ rest = len - n
      OBVIOUS
    <2> HIDE DEF p, room, len, limit, n, rest
    <2>3. room \in Nat /\ p + room = limit
      BY <2>1
    <2>4. n \in Nat /\ rest \in Nat /\ n <= room /\ n <= len
      BY <2>1, <2>2, <2>3
    <2>5. p + n <= limit
      BY <2>1, <2>3, <2>4
    <2> QED
      BY <2>3, <2>4, <2>5 DEF p, len, limit
  <1>3. e = IF n = 0 THEN d ELSE [c EXCEPT !.remainLen = @ - n, !.checkDicSize = IF full THEN d.dicSize ELSE @]
    BY DEF LzmaDec_WriteRem
  <1>4. CASE n = 0
    BY <1>1, <1>3, <1>4
  <1>5. CASE n # 0
    <2>1. Len(d.dic) > 0
      BY <1>1, <1>2, <1>5 DEF First
    <2>2. Reaching(d.reps, Len(d.dic)) /\ d.reps[1] \in 1..Len(d.dic)
      <3>1. Reaching(d.reps, Len(d.dic))
        BY <1>1, <2>1 DEF Ready, Reach
      <3> QED
        BY <1>1, <3>1 DEF Reaching, kNumReps
    <2> HIDE DEF n
    <2>3. Written(d, c, n)
      BY <1>1, <1>2, <2>2, CopiesMatch
    <2>4. /\ Sound(c) /\ IsDec(c) /\ Len(c.dic) = Len(d.dic) + n /\ c.reps = d.reps
          /\ c.remainLen = d.remainLen /\ c.dicLimit = d.dicLimit /\ c.dicSize = d.dicSize
          /\ c.checkDicSize = d.checkDicSize
      BY <2>3, Cited DEF Written, Grown
    <2>5. e = [c EXCEPT !.remainLen = rest, !.checkDicSize = check]
      <3>1. e = [c EXCEPT !.remainLen = @ - n, !.checkDicSize = IF full THEN d.dicSize ELSE @]
        BY <1>3, <1>5
      <3> HIDE DEF c, full, e
      <3> QED
        BY <2>4, <3>1 DEF IsDec, DecFields
    <2> HIDE DEF c, rest, check, e, room
    <2>6. IsDec(e) /\ \A f \in DecFields \ {"remainLen", "checkDicSize"} : e[f] = c[f]
      BY <2>4, <2>5 DEF IsDec, DecFields
    <2>7. e.remainLen = rest /\ e.checkDicSize = check
      BY <2>4, <2>5 DEF IsDec, DecFields
    <2>8. /\ e.dry = c.dry /\ e.eof = c.eof /\ e.stray = c.stray /\ e.reps = c.reps
          /\ e.dicSize = c.dicSize /\ e.dicLimit = c.dicLimit /\ e.dic = c.dic
          /\ e.processedPos = c.processedPos
      BY <2>6 DEF DecFields
    <2>9. /\ d.processedPos = Len(d.dic) /\ d.dicSize \in Nat \ {0}
          /\ d.checkDicSize = 0 \/ (d.checkDicSize = d.dicSize /\ d.dicSize <= Len(d.dic))
      BY <1>1 DEF Sound
    <2>10. /\ check = 0 \/ (check = d.dicSize /\ d.dicSize <= Len(d.dic) + n)
           /\ check = 0 => Len(d.dic) + n < d.dicSize
      BY <1>1, <1>2, <2>9 DEF check
    <2>11. Sound(e)
      BY <2>4, <2>6, <2>7, <2>8, <2>10 DEF Sound, Real
    <2>12. Reaching(e.reps, Len(e.dic)) /\ Len(e.dic) > 0
      <3>1. Len(e.dic) = Len(d.dic) + n /\ e.reps = d.reps
        BY <2>4, <2>8
      <3>2. Len(d.dic) <= Len(e.dic) /\ Len(e.dic) \in Nat /\ Len(e.dic) > 0
        BY <1>1, <1>2, <2>1, <3>1
      <3> QED
        BY <1>1, <2>2, <3>1, <3>2, ReachingMore
    <2>13. Ready(e)
      BY <1>2, <2>4, <2>7, <2>8, <2>10, <2>11, <2>12 DEF Ready, Reach
    <2> QED
      BY <2>12, <2>13 DEF e
  <1> QED
    BY <1>4, <1>5

LEMMA TopFits ==
    ASSUME DecFits(dec), DecTop
    PROVE  DecFits(dec')
  <1> DEFINE d == LzmaDec_WriteRem(dec)
             status == IF d.remainLen = 0 /\ d.code = 0 THEN "MAYBE_FINISHED_WITHOUT_MARK"
                       ELSE "NOT_FINISHED"
  <1>1. /\ dec.pc = "top"
        /\ dec' = IF dec.remainLen = kMatchSpecLenStart
                  THEN IF dec.code # 0 THEN Returned(dec, "DATA", "none")
                       ELSE Returned(dec, "OK", "FINISHED_WITH_MARK")
                  ELSE IF dicPos(d) >= d.dicLimit THEN Returned(d, "OK", status)
                  ELSE ChooseRead(d, LzmaDec_TryDummy(d))
    BY DEF DecTop
  <1>2. AtTop(dec)
    BY <1>1 DEF DecFits, DecIdle, AtSymbol, AtEnd
  <1>3. Sound(dec) /\ Len(dec.dic) <= dec.dicLimit
    BY <1>2 DEF AtTop, Ready
  <1>4. CASE dec.remainLen = kMatchSpecLenStart
    BY <1>1, <1>3, <1>4, ReturnedEnds
  <1>5. CASE dec.remainLen # kMatchSpecLenStart
    <2>1. Ready(d) /\ (Len(d.dic) > 0 \/ First(d))
      BY <1>2, <1>5, WritesRem
    <2> HIDE DEF d, status
    <2>2. Sound(d) /\ Len(d.dic) <= d.dicLimit /\ Len(d.dic) \in Nat /\ d.dicLimit \in Nat
      BY <2>1, Cited DEF Ready
    <2>3. CASE dicPos(d) >= d.dicLimit
      BY <1>1, <1>5, <2>2, <2>3, ReturnedEnds
    <2>4. CASE ~(dicPos(d) >= d.dicLimit)
      <3>1. Len(d.dic) < d.dicLimit
        BY <2>2, <2>4 DEF dicPos
      <3>2. DecFits(ChooseRead(d, LzmaDec_TryDummy(d)))
        BY <2>1, <3>1, ChooseReadFits
      <3> QED
        BY <1>1, <1>5, <2>4, <3>2
    <2> QED
      BY <2>3, <2>4
  <1> QED
    BY <1>4, <1>5

LEMMA RealLimitFits ==
    ASSUME NEW d, AtSymbol(d)
    PROVE  /\ RealLimit(d) \in Nat /\ Len(d.dic) < RealLimit(d) /\ RealLimit(d) <= d.dicLimit
           /\ d.checkDicSize = 0 => RealLimit(d) <= d.dicSize
  <1> DEFINE p == Len(d.dic)
             limit == d.dicLimit
             size == d.dicSize
             check == d.checkDicSize
             pos == d.processedPos
             r == RealLimit(d)
  <1>1. /\ p \in Nat /\ limit \in Nat /\ p < limit /\ size \in Nat /\ pos = p
        /\ check = 0 => p < size
    BY Cited DEF AtSymbol, Ready, Sound
  <1>2. r = IF check = 0 /\ limit - p > size - pos THEN p + (size - pos) ELSE limit
    BY DEF RealLimit, dicPos
  <1> HIDE DEF p, limit, size, check, pos, r
  <1>3. /\ r \in Nat /\ p < r /\ r <= limit
        /\ check = 0 => r <= size
    BY <1>1, <1>2
  <1> QED
    BY <1>3 DEF p, limit, size, check, r

LEMMA ReachingSome ==
    ASSUME NEW n \in Nat, NEW reps, Reaching(reps, n)
    PROVE  n > 0
  <1>1. reps[1] \in 1..n
    BY DEF Reaching, kNumReps
  <1> QED
    BY <1>1

(* After the symbols of one call.                                          *)
LEMMA RealEnds ==
    ASSUME NEW d, NEW e, AtSymbol(d), Decoded(d, e, RealLimit(d))
    PROVE  DecFits(RealEnd(e))
  <1> DEFINE n == NORMALIZE(e)
             check == IF n.checkDicSize = 0 /\ n.processedPos >= n.dicSize THEN n.dicSize
                      ELSE n.checkDicSize
             u == [n EXCEPT !.break = FALSE, !.checkDicSize = check]
             processed == u.buf - u.start
             wrong == IF u.dummyProcessed < 0 THEN processed > Len(u.src) - u.start
                      ELSE processed # u.dummyProcessed
             cut == [u EXCEPT !.remainLen = kMatchSpecLen_Error_Data]
             top == [u EXCEPT !.pc = "top"]
  <1>1. RealEnd(e) = IF wrong THEN Returned(u, "FAIL", "none")
                     ELSE IF u.remainLen >= kMatchSpecLen_Error_Data THEN Returned(cut, "DATA", "none")
                     ELSE top
    BY DEF RealEnd
  <1> HIDE DEF wrong
  <1>2. Sound(e) /\ IsDec(e) /\ Len(e.dic) \in Nat /\ e.remainLen \in Nat
    BY Cited DEF Decoded, Grown
  <1>3. Kept(e, n)
    BY <1>2, NormalizeKeeps
  <1> HIDE DEF n
  <1>4. /\ Sound(n) /\ IsDec(n) /\ n.dic = e.dic /\ n.reps = e.reps /\ n.remainLen = e.remainLen
        /\ n.checkDicSize = e.checkDicSize /\ n.dicLimit = e.dicLimit
    BY <1>2, <1>3, SoundKept, KeptFields
  <1> HIDE DEF check
  <1>5. IsDec(u) /\ \A f \in DecFields \ {"break", "checkDicSize"} : u[f] = n[f]
    BY <1>4 DEF IsDec, DecFields
  <1>6. u.checkDicSize = check
    BY <1>4 DEF IsDec, DecFields
  <1> HIDE DEF u
  <1>7. /\ u.dry = n.dry /\ u.eof = n.eof /\ u.stray = n.stray /\ u.reps = n.reps
        /\ u.dicSize = n.dicSize /\ u.dicLimit = n.dicLimit /\ u.dic = n.dic
        /\ u.processedPos = n.processedPos /\ u.remainLen = n.remainLen
    BY <1>5 DEF DecFields
  <1>8. /\ n.processedPos = Len(n.dic) /\ n.dicSize \in Nat \ {0} /\ Len(n.dic) \in Nat
        /\ n.checkDicSize = 0 \/ (n.checkDicSize = n.dicSize /\ n.dicSize <= Len(n.dic))
    BY <1>4, Cited DEF Sound
  <1>9. /\ check = 0 \/ (check = n.dicSize /\ n.dicSize <= Len(n.dic))
        /\ check = 0 => Len(n.dic) < n.dicSize
    BY <1>8 DEF check
  <1>10. Sound(u)
    BY <1>4, <1>5, <1>6, <1>7, <1>9 DEF Sound, Real
  <1>11. Len(u.dic) <= u.dicLimit
    <2>1. Len(e.dic) <= RealLimit(d) /\ e.dicLimit = d.dicLimit /\ d.dicLimit \in Nat
      BY Cited DEF Decoded, Grown, AtSymbol, Ready
    <2>2. Len(e.dic) <= d.dicLimit
      BY <1>2, <2>1, RealLimitFits
    <2> QED
      BY <1>4, <1>7, <2>1, <2>2
  <1>12. DecFits(Returned(u, "FAIL", "none"))
    BY <1>10, <1>11, ReturnedEnds
  <1>13. DecFits(Returned(cut, "DATA", "none"))
    <2>1. IsDec(u) /\ Sound(u)
      BY <1>5, <1>10
    <2>2. IsDec(cut) /\ \A f \in DecFields \ {"remainLen"} : cut[f] = u[f]
      BY <2>1 DEF IsDec, DecFields
    <2> HIDE DEF cut
    <2>3. /\ cut.dry = u.dry /\ cut.eof = u.eof /\ cut.stray = u.stray
          /\ cut.dicSize = u.dicSize /\ cut.dicLimit = u.dicLimit /\ cut.dic = u.dic
          /\ cut.processedPos = u.processedPos /\ cut.checkDicSize = u.checkDicSize
      BY <2>2 DEF DecFields
    <2>4. Sound(cut)
      BY <2>1, <2>2, <2>3 DEF Sound, Real
    <2> QED
      BY <1>11, <2>3, <2>4, ReturnedEnds
  <1>14. ASSUME ~(u.remainLen >= kMatchSpecLen_Error_Data)
         PROVE  DecFits(top)
    <2>1. ~IsAnError(e)
      BY <1>4, <1>7, <1>14 DEF IsAnError
    <2>2. Reaching(e.reps, Len(e.dic)) \/ IsTheEnd(d, e)
      BY <2>1 DEF Decoded
    <2>3. IsDec(top) /\ \A f \in DecFields \ {"pc"} : top[f] = u[f]
      BY <1>5 DEF IsDec, DecFields
    <2>4. top.pc = "top"
      BY <1>5 DEF IsDec, DecFields
    <2> HIDE DEF top
    <2>5. /\ top.dry = u.dry /\ top.eof = u.eof /\ top.stray = u.stray /\ top.reps = u.reps
          /\ top.dicSize = u.dicSize /\ top.dicLimit = u.dicLimit /\ top.dic = u.dic
          /\ top.processedPos = u.processedPos /\ top.checkDicSize = u.checkDicSize
          /\ top.remainLen = u.remainLen
      BY <2>3 DEF DecFields
    <2>6. Sound(top)
      BY <1>10, <2>3, <2>5 DEF Sound, Real
    <2>7. Reaching(e.reps, Len(e.dic)) => Len(e.dic) > 0
      BY <1>2, ReachingSome
    <2>8. /\ Reaching(top.reps, Reach(top))
          /\ Len(top.dic) > 0 \/ top.remainLen = kMatchSpecLenStart
      <3>1. top.reps = e.reps /\ top.dic = e.dic /\ top.remainLen = e.remainLen
        BY <1>4, <1>7, <2>5
      <3>2. Reach(top) = Reach(e)
        BY <3>1 DEF Reach
      <3>3. CASE Reaching(e.reps, Len(e.dic))
        BY <1>2, <2>7, <3>1, <3>2, <3>3 DEF Reach
      <3>4. CASE IsTheEnd(d, e)
        BY <3>1, <3>2, <3>4 DEF IsTheEnd
      <3> QED
        BY <2>2, <3>3, <3>4
    <2>9. Ready(top)
      BY <1>2, <1>4, <1>6, <1>7, <1>9, <1>11, <2>5, <2>6, <2>8 DEF Ready
    <2>10. AtTop(top)
      BY <2>4, <2>8, <2>9 DEF AtTop
    <2> QED
      BY <2>10 DEF DecFits
  <1> QED
    BY <1>1, <1>12, <1>13, <1>14

LEMMA SymbolFits ==
    ASSUME DecFits(dec), DecSymbol
    PROVE  DecFits(dec')
  <1> DEFINE limit == RealLimit(dec)
             e == DecodeOne(dec, limit)
  <1>1. dec.pc = "real" /\ dec' = IF ~e.break /\ dicPos(e) < limit /\ e.buf < e.bufLimit THEN e
                                  ELSE RealEnd(e)
    BY DEF DecSymbol, AfterSymbol
  <1>2. AtSymbol(dec)
    BY <1>1 DEF DecFits, DecIdle, AtTop, AtEnd
  <1>3. /\ limit \in Nat /\ Len(dec.dic) < limit /\ limit <= dec.dicLimit
        /\ dec.checkDicSize = 0 => limit <= dec.dicSize
    BY <1>2, RealLimitFits
  <1>4. /\ Sound(dec) /\ Reaching(dec.reps, Reach(dec)) /\ Len(dec.dic) \in Nat
        /\ dec.dicLimit \in Nat /\ dec.dicSize \in Nat
        /\ Len(dec.dic) > 0 \/ First(dec)
    BY <1>2, Cited DEF AtSymbol, Ready, Sound
  <1>5. Decoded(dec, e, limit)
    <2> HIDE DEF limit
    <2> QED
      BY <1>3, <1>4, DecodesOne
  <1>6. DecFits(RealEnd(e))
    BY <1>2, <1>5, RealEnds
  <1>7. CASE ~e.break /\ dicPos(e) < limit /\ e.buf < e.bufLimit
    <2> HIDE DEF e, limit
    <2>0. ~IsAnError(e) /\ ~IsTheEnd(dec, e)
      BY <1>7, Zenon DEF IsAnError, IsTheEnd
    <2>1. Reaching(e.reps, Len(e.dic))
      BY <1>5, <2>0, Zenon DEF Decoded
    <2>2. /\ Sound(e) /\ e.pc = dec.pc /\ e.dicLimit = dec.dicLimit /\ e.dicSize = dec.dicSize
          /\ e.checkDicSize = dec.checkDicSize /\ e.remainLen \in Nat /\ Len(e.dic) \in Nat
      BY <1>5, Cited DEF Decoded, Grown
    <2>3. Len(e.dic) > 0
      BY <2>1, <2>2, ReachingSome
    <2>4. Len(e.dic) < limit /\ Len(e.dic) < e.dicLimit
      BY <1>3, <1>4, <1>7, <2>2 DEF dicPos
    <2>5. Ready(e)
      <3>1. Reach(e) = Len(e.dic)
        BY <2>2, <2>3 DEF Reach
      <3>2. e.checkDicSize = 0 => Len(e.dic) < e.dicSize
        BY <1>3, <1>4, <2>2, <2>4
      <3> QED
        BY <1>4, <2>1, <2>2, <2>4, <3>1, <3>2 DEF Ready
    <2>6. AtSymbol(e)
      BY <1>1, <2>2, <2>3, <2>4, <2>5 DEF AtSymbol
    <2> QED
      BY <1>1, <1>7, <2>6 DEF DecFits
  <1>8. CASE ~(~e.break /\ dicPos(e) < limit /\ e.buf < e.bufLimit)
    BY <1>1, <1>6, <1>8
  <1> QED
    BY <1>7, <1>8

(* The decoder of any source starts so.                                    *)
LEMMA StartFits ==
    ASSUME NEW src \in Seq(0..(Base - 1)), NEW outSize \in Nat
    PROVE  DecFits(LzmaDecode(src, outSize, WriteProperties))
  <1> DEFINE size == PropsDecode(WriteProperties).dicSize
             prop == [lc |-> PropsDecode(WriteProperties).lc, lp |-> PropsDecode(WriteProperties).lp,
                      pb |-> PropsDecode(WriteProperties).pb]
             reps == [i \in 1 .. kNumReps |-> 1]
             d == [pc |-> "top", res |-> "none", status |-> "none",
                   src |-> src, buf |-> RC_INIT_SIZE, range |-> Word - 1, code |-> 0, bit |-> 0,
                   sym |-> 0, dry |-> FALSE, eof |-> FALSE, over |-> FALSE, stray |-> FALSE,
                   break |-> FALSE, prop |-> prop,
                   probs |-> <<>>, state |-> 0, reps |-> reps,
                   processedPos |-> 0, checkDicSize |-> 0, dicSize |-> size,
                   remainLen |-> 0, dic |-> <<>>, dicLimit |-> outSize,
                   bufLimit |-> 0, dummyProcessed |-> -1, start |-> 0]
             e == [d EXCEPT !.code = InitialCode(src)]
  <1>1. LzmaDecode(src, outSize, WriteProperties) =
          IF Len(src) < RC_INIT_SIZE THEN Returned(d, "INPUT_EOF", "none")
          ELSE IF ~PropsSupported(WriteProperties) THEN Returned(d, "UNSUPPORTED", "none")
          ELSE IF src[1] # 0 \/ InitialCode(src) >= kBadRepCode THEN Returned(d, "DATA", "none")
          ELSE e
    BY DEF LzmaDecode
  <1>2. size \in Nat \ {0}
    BY DicSizeIsNat
  <1>3. Reaching(reps, 1)
    BY DEF Reaching, kNumReps
  <1> HIDE DEF size, prop, reps
  <1>4. IsDec(d)
    BY DEF IsDec, DecFields
  <1>5. /\ d.pc = "top" /\ d.dry = FALSE /\ d.eof = FALSE /\ d.stray = FALSE /\ d.probs = <<>>
        /\ d.state = 0 /\ d.reps = reps /\ d.processedPos = 0 /\ d.checkDicSize = 0
        /\ d.dicSize = size /\ d.remainLen = 0 /\ d.dic = <<>> /\ d.dicLimit = outSize
        /\ d.range = Word - 1
    OBVIOUS
  <1> HIDE DEF d
  <1>6. Sound(d) /\ Len(d.dic) = 0
    BY <1>2, <1>4, <1>5 DEF Sound, Real
  <1>7. Ready(d)
    BY <1>2, <1>3, <1>5, <1>6 DEF Ready, Reach
  <1>8. \A res, status : DecFits(Returned(d, res, status))
    BY <1>5, <1>6, ReturnedEnds
  <1>9. ASSUME ~(Len(src) < RC_INIT_SIZE), ~(InitialCode(src) >= kBadRepCode)
        PROVE  DecFits(e)
    <2> DEFINE code == InitialCode(src)
    <2>1. code \in Nat
      <3> DEFINE S == 0..(Base - 1)
      <3>1. src[2] \in S /\ src[3] \in S /\ src[4] \in S /\ src[5] \in S
        <4>1. src \in Seq(S) /\ Len(src) \in Nat /\ Len(src) >= 5
          BY <1>9 DEF RC_INIT_SIZE
        <4> HIDE DEF S
        <4> QED
          BY <4>1, ElementOfSeq
      <3>2. src[2] \in Nat /\ src[3] \in Nat /\ src[4] \in Nat /\ src[5] \in Nat
        BY <3>1, Widths
      <3> DEFINE a == src[2] * kTopValue
                 b == src[3] * Base * Base
                 c == src[4] * Base
      <3>3. a \in Nat /\ b \in Nat /\ c \in Nat
        BY <3>2, Widths, Products
      <3>4. code = a + b + c + src[5]
        BY DEF InitialCode
      <3> HIDE DEF a, b, c, code
      <3> QED
        BY <3>2, <3>3, <3>4
    <2>2. code < kBadRepCode
      <3>1. kBadRepCode \in Int
        BY FirstBounds, Widths
      <3> HIDE DEF code
      <3> QED
        BY <1>9, <2>1, <3>1 DEF code
    <2>3. e = [d EXCEPT !.code = code]
      OBVIOUS
    <2> HIDE DEF code, e
    <2>4. IsDec(e) /\ \A f \in DecFields \ {"code"} : e[f] = d[f]
      BY <1>4, <2>3 DEF IsDec, DecFields
    <2>5. e.code = code
      BY <1>4, <2>3 DEF IsDec, DecFields
    <2>6. /\ e.pc = "top" /\ e.dry = d.dry /\ e.eof = d.eof /\ e.stray = d.stray
          /\ e.probs = <<>> /\ e.state = 0 /\ e.reps = d.reps
          /\ e.processedPos = d.processedPos /\ e.checkDicSize = d.checkDicSize
          /\ e.dicSize = d.dicSize /\ e.remainLen = 0 /\ e.dic = d.dic
          /\ e.dicLimit = d.dicLimit /\ e.range = Word - 1
      BY <1>5, <2>4 DEF DecFields
    <2>7. Sound(e)
      BY <1>6, <2>4, <2>6 DEF Sound, Real
    <2>8. Ready(e)
      BY <1>5, <1>7, <2>6, <2>7 DEF Ready, Reach
    <2>9. First(e)
      BY <2>1, <2>2, <2>5, <2>6 DEF First, kRange0
    <2>10. AtTop(e)
      BY <2>6, <2>8, <2>9 DEF AtTop
    <2> QED
      BY <2>10 DEF DecFits
  <1> HIDE DEF e
  <1> QED
    BY <1>1, <1>8, <1>9

(***************************************************************************)
(* The encoder, the chunk on its way and the decoder.                      *)
(***************************************************************************)
CodecFits == Coding /\ DecFits(dec) /\ data \in DataSet

LEMMA CodecInit == Init => CodecFits
  BY CodingInit DEF Init, CodecFits, DecFits

(* What the encoder has put out are bytes.                                 *)
LEMMA StreamOfBytes ==
    ASSUME Coding
    PROVE  Stream \in Seq(0..(Base - 1))
  BY DEF Coding, EncFits, RcFits, SumsFit, Flushed, IsCoder, Stream

LEMMA ReceivedFits ==
    ASSUME CodecFits, NEW src \in Seq(0..(Base - 1)), Start(src)
    PROVE  DecFits(dec')
  <1>1. Len(data) \in Nat
    BY DataAssumption DEF CodecFits
  <1> QED
    BY <1>1, StartFits DEF Start

LEMMA CodecStep == CodecFits /\ [Next]_vars => CodecFits'
  <1> SUFFICES ASSUME CodecFits, [Next]_vars PROVE CodecFits'
    OBVIOUS
  <1>1. Coding'
    BY CodingStep DEF CodecFits
  <1>2. data' \in DataSet
    BY DEF CodecFits, Next, Compress, Uncompress, EncNext, CodeFirstByte, CodePacket, Flush,
           ReceiveWhole, ReceiveCut, ReceiveChanged, vars
  <1>3. DecFits(dec')
    <2> DEFINE S == 0..(Base - 1)
    <2>1. Stream \in Seq(S)
      BY StreamOfBytes DEF CodecFits
    <2>2. CASE ReceiveWhole
      BY <2>1, <2>2, ReceivedFits DEF ReceiveWhole
    <2>3. CASE ReceiveCut
      <3>1. PICK n \in 0 .. Len(Stream) - 1 : Start(SubSeq(Stream, 1, n))
        BY <2>3 DEF ReceiveCut
      <3>2. SubSeq(Stream, 1, n) \in Seq(S)
        <4> HIDE DEF S
        <4>1. n <= Len(Stream)
          BY <2>1
        <4> QED
          BY <2>1, <4>1
      <3> QED
        BY <3>1, <3>2, ReceivedFits
    <2>4. CASE ReceiveChanged
      <3>1. PICK i \in 1 .. Len(Stream) : \E step \in Changes :
              Start([Stream EXCEPT ![i] = (@ + step) % Base])
        BY <2>4 DEF ReceiveChanged
      <3>2. PICK step \in Changes : Start([Stream EXCEPT ![i] = (@ + step) % Base])
        BY <3>1
      <3> DEFINE byte == (Stream[i] + step) % Base
                 src == [Stream EXCEPT ![i] = byte]
      <3>3. byte \in S
        <4>1. Stream[i] \in S
          <5> HIDE DEF S
          <5> QED
            BY <2>1, ElementOfSeq
        <4>2. step \in Nat /\ Base \in Nat \ {0}
          BY Widths, ChangesAssumption
        <4>3. Stream[i] + step \in Nat
          BY <4>1, <4>2
        <4> QED
          BY <4>2, <4>3, Remainder
      <3>4. Start(src)
        BY <3>2
      <3> HIDE DEF byte
      <3>5. src \in Seq(S)
        <4> HIDE DEF S
        <4> QED
          BY <2>1, <3>3
      <3> HIDE DEF src
      <3> QED
        BY <3>4, <3>5, ReceivedFits
    <2>5. CASE Uncompress
      BY <2>5, TopFits, SymbolFits DEF Uncompress, DecNext, CodecFits
    <2>6. CASE UNCHANGED dec
      BY <2>6 DEF CodecFits
    <2> QED
      BY <2>2, <2>3, <2>4, <2>5, <2>6 DEF Next, Compress, vars
  <1> QED
    BY <1>1, <1>2, <1>3 DEF CodecFits

LEMMA CodecStays == CodecFits => StaysInOutput
  <1> SUFFICES ASSUME DecFits(dec), dec.pc # "idle"
               PROVE  dec.stray = FALSE /\ Len(dec.dic) <= dec.dicLimit
    BY DEF CodecFits, StaysInOutput, dicPos
  <1>1. AtTop(dec) \/ AtSymbol(dec) \/ AtEnd(dec)
    BY DEF DecFits, DecIdle
  <1> QED
    BY <1>1 DEF AtTop, AtSymbol, AtEnd, Ready, Sound

(* Whatever arrives in the place of a chunk, whole, cut short or changed,  *)
(* and whatever it makes the decoder do, a copy begins in the output       *)
(* already written and the output never outgrows its buffer                *)
(* (LZMA_DECODE_REAL and LzmaDec_WriteRem of LzmaDec.c).                   *)
THEOREM OutputIsKept == Spec => []StaysInOutput
  <1>1. Init => CodecFits
    BY CodecInit
  <1>2. CodecFits /\ [Next]_vars => CodecFits'
    BY CodecStep
  <1>3. CodecFits => StaysInOutput
    BY CodecStays
  <1> QED
    BY <1>1, <1>2, <1>3, PTL DEF Spec
=============================================================================
