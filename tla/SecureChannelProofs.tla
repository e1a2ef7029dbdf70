------------------------ MODULE SecureChannelProofs ------------------------
(***************************************************************************)
(* Proofs about the key exchange.  Every number it computes with stays     *)
(* below the modulus, so no product leaves the 64 bits of sq_mp; and the   *)
(* two ends compute one key, because sq_mp computes powers and powers      *)
(* commute.  The channel around it leaves all of that as it is.            *)
(***************************************************************************)
EXTENDS SecureChannel, FiniteSetTheorems, TLAPS

LEMMA Residue ==
    ASSUME NEW n \in Nat
    PROVE  n % dh_p \in 0..(dh_p - 1)
  BY DHAssumption

LEMMA TimesNat ==
    ASSUME NEW m \in Nat, NEW n \in Nat
    PROVE  Times(m, n) \in Nat
  <1>1. IntSize \in Nat \ {0}
    <2>1. WordSize \in Nat \ {0}
      BY DHAssumption
    <2>2. WordSize * WordSize > 0
      BY <2>1
    <2> QED
      BY <2>1, <2>2, DHAssumption
  <1>2. m * n \in Nat
    OBVIOUS
  <1> HIDE DEF Times
  <1>3. \A k \in Nat : k % IntSize \in Nat
    BY <1>1
  <1> QED
    BY <1>2, <1>3 DEF Times

(* A product of two numbers below the modulus fits the integers of sq_mp.  *)
LEMMA ProductFits ==
    ASSUME NEW m \in 0..(dh_p - 1), NEW n \in 0..(dh_p - 1)
    PROVE  m * n < IntSize
  <1> DEFINE W == WordSize
  <1>1. W \in Nat /\ m \in Nat /\ n \in Nat /\ m < W /\ n < W
    BY DHAssumption
  <1>2. m * n < W * W
    <2> HIDE DEF W
    <2>1. m * n <= m * W
      BY <1>1
    <2>2. m * W < W * W
      BY <1>1
    <2> QED
      BY <1>1, <2>1, <2>2
  <1> QED
    BY <1>1, <1>2, DHAssumption

LEMMA Exponent ==
    ASSUME Reduced, NEW e \in Ends, NEW k \in 1..Words
    PROVE  draw[e][k] \in Nat
  BY ZenonT(60) DEF Reduced

(* Below the modulus at first: the base is, and so is 1.                   *)
LEMMA ReducedInit == DHInit => Reduced
  <1> SUFFICES ASSUME DHInit PROVE Reduced
    OBVIOUS
  <1> USE DHAssumption
  <1>1. draw \in [Ends -> [1..Words -> Nat]]
    BY DEF DHInit
  <1>2. dh_g \in 0..(dh_p - 1) /\ 1 \in 0..(dh_p - 1) /\ 0 \in 0..(dh_p - 1) /\ 1 \in 1..Words
    OBVIOUS
  <1>3. b \in [Ends -> Nat]
    <2>1. \A e \in Ends : draw[e][1] \in Nat
      BY <1>1, <1>2
    <2> QED
      BY <2>1 DEF DHInit
  <1>4. fd \in [Ends -> Seq(0..(dh_p - 1))]
    BY DEF DHInit
  <1>5. /\ pc \in [Ends -> {"half", "write", "read", "key", "done"}]
        /\ i \in [Ends -> 1..Words]
        /\ a \in [Ends -> 0..(dh_p - 1)] /\ y \in [Ends -> 0..(dh_p - 1)]
        /\ half \in [Ends -> 0..(dh_p - 1)]
    BY <1>2 DEF DHInit
  <1> QED
    BY <1>1, <1>3, <1>4, <1>5 DEF Reduced

(* ... and after every step: each product is reduced before it is kept,    *)
(* and what is received was reduced by the other end.                      *)
LEMMA ReducedNext == Reduced /\ [DHNext]_dhVars => Reduced'
  <1> SUFFICES ASSUME Reduced, [DHNext]_dhVars PROVE Reduced'
    OBVIOUS
  <1> DEFINE R == 0..(dh_p - 1)
  <1>0. \A s \in Seq(R) : s # <<>> => Head(s) \in R /\ Tail(s) \in Seq(R)
    <2> HIDE DEF R
    <2> QED
      OBVIOUS
  <1>7. dh_g \in R /\ 1 \in R
    BY DHAssumption
  <1>1. ASSUME NEW e \in Ends, Square(e) PROVE Reduced'
    <2>1. a[e] \in Nat /\ y[e] \in Nat /\ y[e] \in R /\ b[e] \in Nat
      BY DHAssumption DEF Reduced
    <2>2. Times(y[e], a[e]) % dh_p \in R /\ Times(a[e], a[e]) % dh_p \in R
      BY <2>1, TimesNat, Residue
    <2>3. y' \in [Ends -> R] /\ a' \in [Ends -> R]
      BY <1>1, <2>1, <2>2 DEF Square, Reduced
    <2>4. b[e] \div 2 \in Nat
      BY <2>1
    <2>5. b' \in [Ends -> Nat]
      BY <1>1, <2>4 DEF Square, Reduced
    <2> QED
      BY <1>1, <2>3, <2>5 DEF Square, Reduced
  <1>2. ASSUME NEW e \in Ends, HalfDone(e) PROVE Reduced'
    BY <1>2 DEF HalfDone, Reduced
  <1>3. ASSUME NEW e \in Ends, WriteHalf(e) PROVE Reduced'
    <2>1. fd' \in [Ends -> Seq(R)]
      <3>1. \A o \in Ends : Append(fd[o], half[e]) \in Seq(R)
        BY DEF Reduced
      <3> QED
        BY <1>3, <3>1 DEF WriteHalf, Reduced
    <2>2. pc' \in [Ends -> {"half", "write", "read", "key", "done"}]
      BY <1>3 DEF WriteHalf, Reduced
    <2> QED
      BY <1>3, <2>1, <2>2 DEF WriteHalf, Reduced
  <1>4. ASSUME NEW e \in Ends, ReadHalf(e) PROVE Reduced'
    <2>1. fd[e] \in Seq(R) /\ fd[e] # <<>>
      BY <1>4 DEF ReadHalf, Reduced
    <2>2. Head(fd[e]) \in R /\ Tail(fd[e]) \in Seq(R)
      BY <1>0, <2>1
    <2>3. fd' \in [Ends -> Seq(R)] /\ a' \in [Ends -> R]
      BY <1>4, <2>2 DEF ReadHalf, Reduced
    <2>4. y' \in [Ends -> R]
      BY <1>4, DHAssumption DEF ReadHalf, Reduced
    <2>5. b' \in [Ends -> Nat]
      <3>1. draw[e][i[e]] \in Nat
        BY Exponent DEF Reduced
      <3> QED
        BY <1>4, <3>1 DEF ReadHalf, Reduced
    <2>6. pc' \in [Ends -> {"half", "write", "read", "key", "done"}]
      BY <1>4 DEF ReadHalf, Reduced
    <2> QED
      BY <1>4, <2>3, <2>4, <2>5, <2>6 DEF ReadHalf, Reduced
  <1>5. ASSUME NEW e \in Ends, KeyDone(e) PROVE Reduced'
    <2>1. CASE i[e] < Words
      <3>1. i[e] + 1 \in 1..Words
        BY <2>1, DHAssumption DEF Reduced
      <3>2. i' \in [Ends -> 1..Words]
        BY <1>5, <2>1, <3>1 DEF KeyDone, Reduced
      <3>3. b' \in [Ends -> Nat]
        <4>1. draw[e][i[e] + 1] \in Nat
          BY <3>1, Exponent
        <4> QED
          BY <1>5, <2>1, <4>1 DEF KeyDone, Reduced
      <3>4. a' \in [Ends -> R] /\ y' \in [Ends -> R]
        BY <1>5, <2>1, <1>7, ZenonT(60) DEF KeyDone, Reduced
      <3>5. pc' \in [Ends -> {"half", "write", "read", "key", "done"}]
        BY <1>5, <2>1 DEF KeyDone, Reduced
      <3> QED
        BY <1>5, <3>2, <3>3, <3>4, <3>5 DEF KeyDone, Reduced
    <2>2. CASE ~(i[e] < Words)
      BY <1>5, <2>2 DEF KeyDone, Reduced
    <2> QED
      BY <2>1, <2>2
  <1>6. CASE UNCHANGED dhVars
    BY <1>6 DEF dhVars, Reduced
  <1> QED
    BY <1>1, <1>2, <1>3, <1>4, <1>5, <1>6 DEF DHNext, DHStep

(* All numbers of the exchange stay below the modulus: the inductive       *)
(* invariant of sq_mp's callers (src/src/ecftp.c:316-372).                 *)
THEOREM Below == DHSpec => []Reduced
  BY ReducedInit, ReducedNext, PTL DEF DHSpec

(* No product of sq_mp exceeds 64 bits, for every modulus of 32 bits,      *)
(* every base below it and all secrets (src/src/enc.c:64, 67).             *)
THEOREM ProductsFit == DHSpec => []NoOverflow
  <1>1. Reduced => NoOverflow
    BY ProductFits DEF Reduced, NoOverflow
  <1> QED
    BY <1>1, Below, PTL

-----------------------------------------------------------------------------
(* Induction over the natural numbers, on a set instead of a predicate: a  *)
(* number that is missing would leave finitely many below it, and n + 1    *)
(* would map those into themselves without reaching 0.                     *)
LEMMA SetInduction ==
    ASSUME NEW S, 0 \in S, \A n \in Nat : n \in S => n + 1 \in S
    PROVE  \A n \in Nat : n \in S
  <1> SUFFICES ASSUME NEW m \in Nat, m \notin S PROVE FALSE
    OBVIOUS
  <1> DEFINE D == {k \in 0..m : k \in S}
             f == [k \in D |-> k + 1]
  <1>1. IsFiniteSet(0..m)
    BY FS_Interval
  <1>2. IsFiniteSet(D) /\ Cardinality(D) \in Nat
    <2>1. D \in SUBSET (0..m)
      OBVIOUS
    <2> QED
      BY <1>1, <2>1, FS_Subset, FS_CardinalityType
  <1>3. 0 \in D
    OBVIOUS
  <1>4. IsFiniteSet(D \ {0}) /\ Cardinality(D \ {0}) < Cardinality(D)
    <2> HIDE DEF D
    <2>1. IsFiniteSet(D \ {0}) /\ Cardinality(D \ {0}) = Cardinality(D) - 1
      BY <1>2, <1>3, FS_RemoveElement
    <2> QED
      BY <1>2, <2>1
  <1>5. f \in [D -> D \ {0}]
    <2>1. \A k \in D : k + 1 \in D \ {0}
      OBVIOUS
    <2> QED
      BY <2>1
  <1>6. \A j, k \in D : j # k => f[j] # f[k]
    OBVIOUS
  <1> HIDE DEF D, f
  <1> QED
    BY <1>2, <1>4, <1>5, <1>6, FS_PigeonHole

LEMMA Division ==
    ASSUME NEW n \in Nat, NEW d \in Nat \ {0}
    PROVE  n = d * (n \div d) + (n % d)
  OBVIOUS

LEMMA Remainder ==
    ASSUME NEW n \in Nat, NEW d \in Nat \ {0}
    PROVE  /\ n \div d \in Nat /\ n % d \in 0..(d - 1)
           /\ n = d * (n \div d) + (n % d)
  <1>1. n \div d \in Nat
    OBVIOUS
  <1>2. n % d \in Nat /\ n % d < d
    OBVIOUS
  <1>3. n = d * (n \div d) + (n % d)
    BY Division
  <1> QED
    BY <1>1, <1>2, <1>3

(* A remainder is the only one.                                            *)
LEMMA OnlyRemainder ==
    ASSUME NEW d \in Nat \ {0}, NEW q \in Nat, NEW r \in 0..(d - 1),
           NEW u \in Nat, NEW v \in 0..(d - 1), d * q + r = d * u + v
    PROVE  r = v
  <1>1. q = u
    <2>1. CASE q + 1 <= u
      <3>1. d * (q + 1) <= d * u
        BY <2>1
      <3>2. d * (q + 1) = d * q + d
        OBVIOUS
      <3> QED
        BY <3>1, <3>2
    <2>2. CASE u + 1 <= q
      <3>1. d * (u + 1) <= d * q
        BY <2>2
      <3>2. d * (u + 1) = d * u + d
        OBVIOUS
      <3> QED
        BY <3>1, <3>2
    <2> QED
      BY <2>1, <2>2
  <1> QED
    BY <1>1

LEMMA ModTimes ==
    ASSUME NEW d \in Nat \ {0}, NEW m \in Nat, NEW n \in Nat
    PROVE  (m * (n % d)) % d = (m * n) % d
  <1> DEFINE q == n \div d
             r == n % d
             u == (m * r) \div d
             v == (m * r) % d
             w == (m * n) \div d
             z == (m * n) % d
  <1>1. q \in Nat /\ r \in 0..(d - 1) /\ n = d * q + r
    BY Remainder
  <1>2. m * r \in Nat /\ m * n \in Nat
    BY <1>1
  <1>3. u \in Nat /\ v \in 0..(d - 1) /\ m * r = d * u + v
    BY <1>2, Remainder
  <1>4. w \in Nat /\ z \in 0..(d - 1) /\ m * n = d * w + z
    BY <1>2, Remainder
  <1>5. m * n = d * (m * q + u) + v
    <2> HIDE DEF q, r, u, v
    <2>1. m * n = m * (d * q) + m * r
      BY <1>1
    <2>2. m * (d * q) = d * (m * q)
      BY <1>1
    <2>3. d * (m * q + u) = d * (m * q) + d * u
      BY <1>1, <1>3
    <2> QED
      BY <1>1, <1>3, <2>1, <2>2, <2>3
  <1>6. m * q + u \in Nat
    BY <1>1, <1>3
  <1> HIDE DEF q, r, u, v, w, z
  <1>7. v = z
    BY <1>3, <1>4, <1>5, <1>6, OnlyRemainder
  <1> QED
    BY <1>7 DEF v, z, r

-----------------------------------------------------------------------------
(* Powers modulo dh_p, by the table of the powers up to the n-th.          *)
IsPowers(x, f, n) ==
    /\ f \in [0..n -> 0..(dh_p - 1)] /\ f[0] = 1
    /\ \A k \in 0..(n - 1) : f[k + 1] = (x * f[k]) % dh_p

Power(x, n) == (CHOOSE f : IsPowers(x, f, n))[n]

LEMMA Modulus == dh_p \in Nat \ {0} /\ 1 \in 0..(dh_p - 1)
  BY DHAssumption

LEMMA PowersExist ==
    ASSUME NEW x \in Nat
    PROVE  \A n \in Nat : \E f : IsPowers(x, f, n)
  <1> DEFINE S == {n \in Nat : \E f : IsPowers(x, f, n)}
  <1>1. 0 \in S
    <2>1. IsPowers(x, [k \in 0..0 |-> 1], 0)
      BY Modulus DEF IsPowers
    <2> QED
      BY <2>1
  <1>2. ASSUME NEW n \in Nat, n \in S PROVE n + 1 \in S
    <2>1. PICK f : IsPowers(x, f, n)
      BY <1>2
    <2> DEFINE next == (x * f[n]) % dh_p
                  h == [k \in 0..(n + 1) |-> IF k <= n THEN f[k] ELSE next]
    <2>2. f \in [0..n -> 0..(dh_p - 1)] /\ f[n] \in Nat /\ x * f[n] \in Nat
      BY <2>1 DEF IsPowers
    <2>3. next \in 0..(dh_p - 1)
      BY <2>2, Modulus, Remainder
    <2>4. h \in [0..(n + 1) -> 0..(dh_p - 1)]
      <3> HIDE DEF next
      <3> QED
        BY <2>2, <2>3
    <2>5. h[0] = 1
      BY <2>1 DEF IsPowers
    <2>6. \A k \in 0..n : h[k + 1] = (x * h[k]) % dh_p
      <3> SUFFICES ASSUME NEW k \in 0..n PROVE h[k + 1] = (x * h[k]) % dh_p
        OBVIOUS
      <3>1. h[k] = f[k]
        OBVIOUS
      <3>2. CASE k = n
        <4>1. h[k + 1] = next
          BY <3>2
        <4> QED
          BY <3>1, <3>2, <4>1
      <3>3. CASE k < n
        <4>1. h[k + 1] = f[k + 1] /\ k \in 0..(n - 1)
          BY <3>3
        <4> QED
          BY <2>1, <3>1, <4>1 DEF IsPowers
      <3> QED
        BY <3>2, <3>3
    <2> HIDE DEF h, next
    <2>7. IsPowers(x, h, n + 1)
      BY <2>4, <2>5, <2>6 DEF IsPowers
    <2> QED
      BY <2>7
  <1> HIDE DEF S
  <1>3. \A n \in Nat : n \in S
    BY <1>1, <1>2, SetInduction
  <1> QED
    BY <1>3 DEF S

LEMMA PowersUnique ==
    ASSUME NEW x \in Nat, NEW m \in Nat, NEW n \in Nat, m <= n,
           NEW f, IsPowers(x, f, m), NEW g, IsPowers(x, g, n)
    PROVE  f[m] = g[m]
  <1> DEFINE S == {k \in Nat : k <= m => f[k] = g[k]}
  <1>1. 0 \in S
    BY DEF IsPowers
  <1>2. ASSUME NEW k \in Nat, k \in S PROVE k + 1 \in S
    <2>1. SUFFICES ASSUME k + 1 <= m PROVE f[k + 1] = g[k + 1]
      OBVIOUS
    <2>2. k \in 0..(m - 1) /\ k \in 0..(n - 1) /\ f[k] = g[k]
      BY <1>2, <2>1
    <2> QED
      BY <2>2 DEF IsPowers
  <1> HIDE DEF S
  <1>3. m \in S
    BY <1>1, <1>2, SetInduction
  <1> QED
    BY <1>3 DEF S

LEMMA PowerDef ==
    ASSUME NEW x \in Nat, NEW n \in Nat
    PROVE  /\ Power(x, n) \in 0..(dh_p - 1) /\ Power(x, 0) = 1
           /\ Power(x, n + 1) = (x * Power(x, n)) % dh_p
  <1> DEFINE F(k) == CHOOSE f : IsPowers(x, f, k)
  <1>1. \A k \in Nat : IsPowers(x, F(k), k)
    BY PowersExist
  <1>2. \A k \in Nat : Power(x, k) = F(k)[k]
    BY DEF Power
  <1> HIDE DEF F
  <1>3. IsPowers(x, F(n), n) /\ IsPowers(x, F(n + 1), n + 1) /\ IsPowers(x, F(0), 0)
    BY <1>1
  <1>4. F(n)[n] = F(n + 1)[n]
    BY <1>3, PowersUnique
  <1>5. F(n)[n] \in 0..(dh_p - 1) /\ F(0)[0] = 1
    BY <1>3 DEF IsPowers
  <1>6. F(n + 1)[n + 1] = (x * F(n + 1)[n]) % dh_p
    <2>1. n \in 0..((n + 1) - 1)
      OBVIOUS
    <2> QED
      BY <1>3, <2>1 DEF IsPowers
  <1> QED
    BY <1>2, <1>4, <1>5, <1>6

(* The product of two numbers modulo dh_p, and its laws.                   *)
Mult(m, n) == (m * n) % dh_p

LEMMA MultLaws ==
    ASSUME NEW m \in Nat, NEW n \in Nat, NEW k \in Nat
    PROVE  /\ Mult(m, n) \in Nat /\ Mult(m, n) \in 0..(dh_p - 1) /\ Mult(m, n) = Mult(n, m)
           /\ Mult(m, Mult(n, k)) = Mult(Mult(m, n), k)
           /\ m \in 0..(dh_p - 1) => Mult(m, 1) = m
  <1>1. \A u, v \in Nat : u * v \in Nat /\ u * v = v * u
    OBVIOUS
  <1>2. \A u, v \in Nat : Mult(u, v) \in 0..(dh_p - 1) /\ Mult(u, v) = Mult(v, u)
    BY <1>1, Modulus, Remainder DEF Mult
  <1>3. \A u, v \in Nat : Mult(u, v % dh_p) = Mult(u, v)
    BY Modulus, ModTimes DEF Mult
  <1>4. Mult(m, Mult(n, k)) = Mult(m, n * k)
    BY <1>1, <1>3 DEF Mult
  <1>5. Mult(k, Mult(m, n)) = Mult(k, m * n)
    BY <1>1, <1>3 DEF Mult
  <1>6. m * (n * k) = k * (m * n)
    OBVIOUS
  <1>7. Mult(m, n * k) = Mult(k, m * n)
    BY <1>6 DEF Mult
  <1>8. Mult(m, n) \in Nat /\ Mult(k, Mult(m, n)) = Mult(Mult(m, n), k)
    BY <1>2
  <1>9. ASSUME m \in 0..(dh_p - 1) PROVE Mult(m, 1) = m
    BY <1>9, Modulus DEF Mult
  <1> QED
    BY <1>2, <1>4, <1>5, <1>7, <1>8, <1>9

(* Of a sum, and of a product, of exponents.                               *)
LEMMA PowerPlus ==
    ASSUME NEW x \in Nat, NEW m \in Nat, NEW n \in Nat
    PROVE  Power(x, m + n) = Mult(Power(x, m), Power(x, n))
  <1> DEFINE S == {k \in Nat : Power(x, m + k) = Mult(Power(x, m), Power(x, k))}
  <1>1. \A k \in Nat : Power(x, k) \in Nat /\ Power(x, k) \in 0..(dh_p - 1)
    BY PowerDef
  <1>2. \A k \in Nat : Power(x, k + 1) = Mult(x, Power(x, k))
    BY PowerDef DEF Mult
  <1>3. 0 \in S
    <2>1. Mult(Power(x, m), 1) = Power(x, m)
      BY <1>1, MultLaws
    <2>2. Power(x, 0) = 1 /\ m + 0 = m
      BY PowerDef
    <2> QED
      BY <2>1, <2>2
  <1>4. ASSUME NEW k \in Nat, k \in S PROVE k + 1 \in S
    <2> DEFINE p == Power(x, m)
               q == Power(x, k)
    <2>0. p \in Nat /\ q \in Nat /\ m + k \in Nat /\ m + (k + 1) = (m + k) + 1
      BY <1>1
    <2>1. Power(x, m + (k + 1)) = Mult(x, Mult(p, q))
      BY <1>2, <1>4, <2>0
    <2>2. Power(x, k + 1) = Mult(x, q)
      BY <1>2
    <2> HIDE DEF p, q
    <2>3. /\ Mult(x, Mult(p, q)) = Mult(Mult(x, p), q)
          /\ Mult(p, Mult(x, q)) = Mult(Mult(p, x), q)
          /\ Mult(x, p) = Mult(p, x)
      BY <2>0, MultLaws
    <2>4. Power(x, m + (k + 1)) = Mult(p, Power(x, k + 1))
      BY <2>1, <2>2, <2>3
    <2> QED
      BY <2>4 DEF p
  <1> HIDE DEF S
  <1>5. n \in S
    BY <1>3, <1>4, SetInduction
  <1> QED
    BY <1>5 DEF S

LEMMA PowerTimes ==
    ASSUME NEW x \in Nat, NEW m \in Nat, NEW n \in Nat
    PROVE  Power(x, m * n) = Power(Power(x, m), n)
  <1> DEFINE p == Power(x, m)
             S == {k \in Nat : Power(x, m * k) = Power(p, k)}
  <1>1. p \in Nat
    BY PowerDef
  <1> HIDE DEF p
  <1>2. 0 \in S
    <2>1. m * 0 = 0
      OBVIOUS
    <2> QED
      BY <1>1, <2>1, PowerDef
  <1>3. ASSUME NEW k \in Nat, k \in S PROVE k + 1 \in S
    <2>1. m * k \in Nat /\ m * (k + 1) = m + m * k
      OBVIOUS
    <2>2. Power(x, m * (k + 1)) = Mult(p, Power(p, k))
      BY <1>3, <2>1, PowerPlus DEF p
    <2>3. Power(p, k + 1) = Mult(p, Power(p, k))
      BY <1>1, PowerDef DEF Mult
    <2> QED
      BY <2>2, <2>3
  <1> HIDE DEF S
  <1>4. n \in S
    BY <1>2, <1>3, SetInduction
  <1> QED
    BY <1>4 DEF S, p

(* Powers commute: why the two ends compute one word.                      *)
LEMMA PowersCommute ==
    ASSUME NEW x \in Nat, NEW m \in Nat, NEW n \in Nat
    PROVE  Power(Power(x, m), n) = Power(Power(x, n), m)
  <1>1. m * n = n * m
    OBVIOUS
  <1> QED
    BY <1>1, PowerTimes

(* One turn of sq_mp's loop changes y and a and b, but not y times the     *)
(* b-th power of a.                                                        *)
LEMMA TurnKeeps ==
    ASSUME NEW x \in 0..(dh_p - 1), NEW z \in 0..(dh_p - 1), NEW n \in Nat \ {0}
    PROVE  Mult(IF n % 2 = 1 THEN Mult(z, x) ELSE z, Power(Mult(x, x), n \div 2))
             = Mult(z, Power(x, n))
  <1> DEFINE h == n \div 2
             q == Power(x, 2 * h)
  <1>1. x \in Nat /\ z \in Nat /\ h \in Nat /\ 2 * h \in Nat
    BY Modulus
  <1>2. q \in Nat
    BY <1>1, PowerDef, Modulus
  <1>3. Power(Mult(x, x), h) = q
    <2>1. Power(x, 0) = 1 /\ Power(x, 0 + 1) = Mult(x, Power(x, 0))
      BY <1>1, PowerDef DEF Mult
    <2>2. Power(x, 1) = x
      BY <1>1, <2>1, MultLaws
    <2>3. Power(x, 1 + 1) = Mult(x, Power(x, 1))
      BY <1>1, PowerDef DEF Mult
    <2>4. Power(x, 2) = Mult(x, x)
      BY <2>2, <2>3
    <2> QED
      BY <1>1, <2>4, PowerTimes
  <1>4. CASE n % 2 = 1
    <2>1. n = 2 * h + 1
      BY <1>4, Division
    <2>2. Power(x, n) = Mult(x, q)
      <3> HIDE DEF h
      <3> QED
        BY <1>1, <2>1, PowerDef DEF Mult
    <2> HIDE DEF q, h
    <2>3. Mult(Mult(z, x), q) = Mult(z, Mult(x, q))
      BY <1>1, <1>2, MultLaws
    <2> QED
      BY <1>3, <1>4, <2>2, <2>3 DEF h
  <1>5. CASE n % 2 # 1
    <2>1. n = 2 * h
      BY <1>5, Division
    <2> QED
      BY <1>3, <1>5, <2>1
  <1> QED
    BY <1>4, <1>5

-----------------------------------------------------------------------------
(* The halves and the words of the key, as powers.                         *)
HalfOf(e, k) == Power(dh_g, draw[e][k])
WordOf(e, k) == Power(HalfOf(Other(e), k), draw[e][k])

(* How many halves an end has written and read, and how many words it has. *)
One(condition) == IF condition THEN 1 ELSE 0
Written(e) == (i[e] - 1) + One(pc[e] \in {"key", "done"} \/ (e = "client" /\ pc[e] = "read"))
Taken(e)   == (i[e] - 1) + One(pc[e] \in {"key", "done"} \/ (e = "server" /\ pc[e] = "write"))
Finished(e) == (i[e] - 1) + One(pc[e] = "done")

(* Where an end is in its two runs of sq_mp.                               *)
Computing ==
    \A e \in Ends :
        /\ pc[e] = "half" => Mult(y[e], Power(a[e], b[e])) = HalfOf(e, i[e])
        /\ pc[e] \in {"write", "read"} => half[e] = HalfOf(e, i[e])
        /\ pc[e] = "key" \/ (e = "server" /\ pc[e] = "write") =>
              Mult(y[e], Power(a[e], b[e])) = WordOf(e, i[e])

(* What is on its way to an end: the halves it has not read yet.           *)
InTransit ==
    \A e \in Ends :
        /\ Len(fd[e]) = Written(Other(e)) - Taken(e)
        /\ \A k \in 1..Len(fd[e]) : fd[e][k] = HalfOf(Other(e), Taken(e) + k)

Kept ==
    /\ key \in [Ends -> [1..Words -> Nat]]
    /\ \A e \in Ends :
        /\ pc[e] = "done" => i[e] = Words
        /\ \A k \in 1..Finished(e) : key[e][k] = WordOf(e, k)

ExchangeInv == Reduced /\ Computing /\ InTransit /\ Kept

LEMMA DrawNat ==
    ASSUME Reduced, NEW e \in Ends, NEW k \in 1..Words
    PROVE  /\ draw[e][k] \in Nat /\ HalfOf(e, k) \in 0..(dh_p - 1) /\ HalfOf(e, k) \in Nat
           /\ WordOf(e, k) \in 0..(dh_p - 1)
  <1>1. Other(e) \in Ends /\ dh_g \in Nat
    BY DHAssumption DEF Other, Ends
  <1>2. \A o \in Ends : draw[o][k] \in Nat
    BY Exponent
  <1>3. \A o \in Ends : HalfOf(o, k) \in 0..(dh_p - 1) /\ HalfOf(o, k) \in Nat
    <2> SUFFICES ASSUME NEW o \in Ends
                 PROVE  HalfOf(o, k) \in 0..(dh_p - 1) /\ HalfOf(o, k) \in Nat
      OBVIOUS
    <2>1. Power(dh_g, draw[o][k]) \in 0..(dh_p - 1)
      BY <1>1, <1>2, PowerDef
    <2> QED
      BY <2>1, Modulus DEF HalfOf
  <1>4. WordOf(e, k) \in 0..(dh_p - 1)
    <2>1. HalfOf(Other(e), k) \in Nat /\ draw[e][k] \in Nat
      BY <1>1, <1>2, <1>3
    <2> QED
      BY <2>1, PowerDef DEF WordOf
  <1> QED
    BY <1>2, <1>3, <1>4

(* Both ends' words are one: powers commute.                               *)
LEMMA OneWord ==
    ASSUME Reduced, NEW k \in 1..Words
    PROVE  WordOf("client", k) = WordOf("server", k)
  <1>1. "client" \in Ends /\ "server" \in Ends
    BY DEF Ends
  <1>2. draw["client"][k] \in Nat /\ draw["server"][k] \in Nat /\ dh_g \in Nat
    BY <1>1, DrawNat, DHAssumption
  <1>3. Other("client") = "server" /\ Other("server") = "client"
    BY DEF Other
  <1> QED
    BY <1>2, <1>3, PowersCommute DEF WordOf, HalfOf

LEMMA TwoEnds ==
    ASSUME NEW e \in Ends
    PROVE  /\ Other(e) \in Ends /\ Other(e) # e /\ Other(Other(e)) = e
           /\ \A d \in Ends : d # e => d = Other(e)
           /\ e = "client" => Other(e) = "server"
           /\ e = "server" => Other(e) = "client"
  BY DEF Ends, Other

(* What sq_mp has when its exponent is used up.                            *)
LEMMA LoopDone ==
    ASSUME NEW z \in 0..(dh_p - 1), NEW x \in 0..(dh_p - 1)
    PROVE  Mult(z, Power(x, 0)) = z
  <1>1. x \in Nat /\ z \in Nat /\ Power(x, 0) = 1
    BY Modulus, PowerDef
  <1> QED
    BY <1>1, MultLaws

(* What it starts from.                                                    *)
LEMMA LoopBegun ==
    ASSUME NEW x \in Nat, NEW n \in Nat
    PROVE  Mult(1, Power(x, n)) = Power(x, n)
  <1>1. Power(x, n) \in Nat /\ Power(x, n) \in 0..(dh_p - 1)
    BY Modulus, PowerDef
  <1> QED
    BY <1>1, MultLaws

LEMMA ExchangeInit == DHInit => ExchangeInv
  <1> SUFFICES ASSUME DHInit PROVE ExchangeInv
    OBVIOUS
  <1>1. Reduced /\ 1 \in 1..Words /\ dh_g \in Nat
    BY ReducedInit, DHAssumption
  <1>2. /\ pc = [e \in Ends |-> "half"] /\ i = [e \in Ends |-> 1]
        /\ a = [e \in Ends |-> dh_g] /\ y = [e \in Ends |-> 1]
        /\ b = [e \in Ends |-> draw[e][1]] /\ fd = [e \in Ends |-> <<>>]
        /\ key = [e \in Ends |-> [k \in 1..Words |-> 0]]
    BY DEF DHInit
  <1>3. Computing
    <2> SUFFICES ASSUME NEW e \in Ends
                 PROVE  Mult(y[e], Power(a[e], b[e])) = HalfOf(e, i[e])
      BY <1>2 DEF Computing
    <2>1. draw[e][1] \in Nat
      BY <1>1, DrawNat
    <2> QED
      BY <1>1, <1>2, <2>1, LoopBegun DEF HalfOf
  <1>4. \A e \in Ends : Written(e) = 0 /\ Taken(e) = 0 /\ Finished(e) = 0
    BY <1>2 DEF Written, Taken, Finished, One
  <1>5. InTransit
    BY <1>2, <1>4, TwoEnds DEF InTransit
  <1>6. Kept
    BY <1>2, <1>4 DEF Kept
  <1> QED
    BY <1>1, <1>3, <1>5, <1>6 DEF ExchangeInv

LEMMA SquareStep ==
    ASSUME ExchangeInv, Reduced', NEW e \in Ends, Square(e)
    PROVE  ExchangeInv'
  <1>0. Reduced /\ Computing /\ InTransit /\ Kept
    BY DEF ExchangeInv
  <1>1. a[e] \in 0..(dh_p - 1) /\ y[e] \in 0..(dh_p - 1) /\ b[e] \in Nat \ {0}
    BY <1>0 DEF Reduced, Square
  <1>2. UNCHANGED <<draw, pc, i, half, fd, key>>
    BY DEF Square
  <1>3. \A m, n \in 0..(dh_p - 1) : Times(m, n) % dh_p = Mult(m, n)
    <2> SUFFICES ASSUME NEW m \in 0..(dh_p - 1), NEW n \in 0..(dh_p - 1)
                 PROVE  Times(m, n) % dh_p = Mult(m, n)
      OBVIOUS
    <2>1. m * n < IntSize /\ m * n \in Nat /\ IntSize \in Nat
      BY ProductFits, Modulus, DHAssumption
    <2>2. Times(m, n) = m * n
      <3> DEFINE w == m * n
      <3>1. w \in Nat /\ w < IntSize
        BY <2>1
      <3> HIDE DEF w
      <3>2. w % IntSize = w
        BY <2>1, <3>1
      <3> QED
        BY <3>2 DEF Times, w
    <2> QED
      BY <2>2 DEF Mult
  <1>4. /\ y'[e] = IF b[e] % 2 = 1 THEN Mult(y[e], a[e]) ELSE y[e]
        /\ a'[e] = Mult(a[e], a[e]) /\ b'[e] = b[e] \div 2
        /\ \A d \in Ends : d # e => y'[d] = y[d] /\ a'[d] = a[d] /\ b'[d] = b[d]
    <2>1. /\ y' = [y EXCEPT ![e] = IF b[e] % 2 = 1 THEN Mult(y[e], a[e]) ELSE y[e]]
          /\ a' = [a EXCEPT ![e] = Mult(a[e], a[e])]
          /\ b' = [b EXCEPT ![e] = b[e] \div 2]
      BY <1>1, <1>3 DEF Square
    <2> QED
      BY <1>0, <2>1 DEF Reduced
  <1>5. \A d \in Ends : Mult(y'[d], Power(a'[d], b'[d])) = Mult(y[d], Power(a[d], b[d]))
    <2>1. Mult(y'[e], Power(a'[e], b'[e])) = Mult(y[e], Power(a[e], b[e]))
      BY <1>1, <1>4, TurnKeeps
    <2> QED
      BY <1>4, <2>1
  <1>6. Computing'
    BY <1>0, <1>2, <1>5 DEF Computing, HalfOf, WordOf
  <1>7. InTransit'
    BY <1>0, <1>2 DEF InTransit, HalfOf, Written, Taken
  <1>8. Kept'
    BY <1>0, <1>2 DEF Kept, WordOf, HalfOf, Finished
  <1> QED
    BY <1>6, <1>7, <1>8 DEF ExchangeInv

LEMMA HalfDoneStep ==
    ASSUME ExchangeInv, Reduced', NEW e \in Ends, HalfDone(e)
    PROVE  ExchangeInv'
  <1>0. Reduced /\ Computing /\ InTransit /\ Kept
    BY DEF ExchangeInv
  <1>1. /\ pc[e] = "half" /\ b[e] = 0 /\ UNCHANGED <<draw, i, a, b, y, fd, key>>
        /\ half' = [half EXCEPT ![e] = y[e]]
        /\ pc' = [pc EXCEPT ![e] = IF e = "client" THEN "write" ELSE "read"]
    BY DEF HalfDone
  <1>2. y[e] = HalfOf(e, i[e])
    <2>1. Mult(y[e], Power(a[e], b[e])) = HalfOf(e, i[e])
      BY <1>0, <1>1 DEF Computing
    <2> QED
      BY <1>0, <1>1, <2>1, LoopDone DEF Reduced
  <1>3. /\ half'[e] = HalfOf(e, i[e]) /\ pc'[e] = IF e = "client" THEN "write" ELSE "read"
        /\ \A d \in Ends : d # e => half'[d] = half[d] /\ pc'[d] = pc[d]
    BY <1>0, <1>1, <1>2 DEF Reduced
  <1>4. Computing'
    BY <1>0, <1>1, <1>3 DEF Computing, HalfOf, WordOf
  <1>5. \A d \in Ends : Written(d)' = Written(d) /\ Taken(d)' = Taken(d)
                         /\ Finished(d)' = Finished(d)
    BY <1>1, <1>3 DEF Written, Taken, Finished, One, Ends
  <1>6. InTransit'
    BY <1>0, <1>1, <1>5, TwoEnds DEF InTransit, HalfOf
  <1>7. Kept'
    BY <1>0, <1>1, <1>3, <1>5 DEF Kept, WordOf, HalfOf
  <1> QED
    BY <1>4, <1>6, <1>7 DEF ExchangeInv

LEMMA WriteHalfStep ==
    ASSUME ExchangeInv, Reduced', NEW e \in Ends, WriteHalf(e)
    PROVE  ExchangeInv'
  <1> DEFINE o == Other(e)
  <1>0. Reduced /\ Computing /\ InTransit /\ Kept
    BY DEF ExchangeInv
  <1>1. /\ pc[e] = "write" /\ UNCHANGED <<draw, i, a, b, y, half, key>>
        /\ fd' = [fd EXCEPT ![o] = Append(fd[o], half[e])]
        /\ pc' = [pc EXCEPT ![e] = IF e = "client" THEN "read" ELSE "key"]
    BY DEF WriteHalf
  <1>2. /\ o \in Ends /\ o # e /\ Other(o) = e /\ \A d \in Ends : d # e => d = o
        /\ e \in {"client", "server"}
    BY TwoEnds DEF Ends
  <1> HIDE DEF o
  <1>3. /\ pc'[e] = IF e = "client" THEN "read" ELSE "key"
        /\ \A d \in Ends : d # e => pc'[d] = pc[d]
        /\ fd'[o] = Append(fd[o], half[e]) /\ fd'[e] = fd[e]
    BY <1>0, <1>1, <1>2 DEF Reduced
  <1>4. half[e] = HalfOf(e, i[e])
    BY <1>0, <1>1 DEF Computing
  <1>5. Computing'
    <2>1. ASSUME NEW d \in Ends, d # e
          PROVE  /\ pc'[d] = "half" => Mult(y'[d], Power(a'[d], b'[d])) = HalfOf(d, i[d])
                 /\ pc'[d] \in {"write", "read"} => half'[d] = HalfOf(d, i[d])
                 /\ pc'[d] = "key" \/ (d = "server" /\ pc'[d] = "write") =>
                       Mult(y'[d], Power(a'[d], b'[d])) = WordOf(d, i[d])
      BY <1>0, <1>1, <1>3, <2>1 DEF Computing
    <2>2. /\ pc'[e] \in {"read", "key"} /\ half'[e] = HalfOf(e, i[e])
          /\ pc'[e] = "key" => Mult(y'[e], Power(a'[e], b'[e])) = WordOf(e, i[e])
      BY <1>0, <1>1, <1>2, <1>3, <1>4 DEF Computing
    <2> QED
      BY <1>1, <2>1, <2>2 DEF Computing, HalfOf, WordOf
  <1>6. /\ Written(e) = i[e] - 1 /\ Written(e)' = i[e] /\ Taken(e)' = Taken(e)
        /\ Finished(e)' = Finished(e)
        /\ Written(o)' = Written(o) /\ Taken(o)' = Taken(o) /\ Finished(o)' = Finished(o)
    <2>1. i[e] \in Int /\ i[o] \in Int
      BY <1>0, <1>2, DHAssumption DEF Reduced
    <2>2. /\ Written(e) = i[e] - 1 /\ Written(e)' = i[e] /\ Taken(e)' = Taken(e)
          /\ Finished(e)' = Finished(e)
      BY <1>1, <1>2, <1>3, <2>1 DEF Written, Taken, Finished, One
    <2>3. Written(o)' = Written(o) /\ Taken(o)' = Taken(o) /\ Finished(o)' = Finished(o)
      BY <1>1, <1>2, <1>3 DEF Written, Taken, Finished
    <2> QED
      BY <2>2, <2>3
  <1>7. InTransit'
    <2>1. /\ Len(fd[o]) = Written(e) - Taken(o) /\ fd[o] \in Seq(Nat) /\ half[e] \in Nat
          /\ \A k \in 1..Len(fd[o]) : fd[o][k] = HalfOf(e, Taken(o) + k)
      <3>1. fd[o] \in Seq(0..(dh_p - 1)) /\ half[e] \in 0..(dh_p - 1)
        BY <1>0, <1>2 DEF Reduced
      <3>2. fd[o] \in Seq(Nat) /\ half[e] \in Nat
        BY <3>1, Modulus
      <3> QED
        BY <1>0, <1>2, <3>2 DEF InTransit
    <2>2. i[e] \in Int /\ Taken(o) \in Int /\ Len(fd[o]) \in Nat
      <3>1. i[e] \in Int /\ i[o] \in Int
        BY <1>0, <1>2, DHAssumption DEF Reduced
      <3> QED
        BY <2>1, <3>1 DEF Taken, One
    <2>3. /\ Len(fd'[o]) = Written(e)' - Taken(o)'
          /\ \A k \in 1..Len(fd'[o]) : fd'[o][k] = HalfOf(e, Taken(o)' + k)
      <3>1. /\ Len(fd'[o]) = Len(fd[o]) + 1 /\ fd'[o][Len(fd[o]) + 1] = half[e]
            /\ \A k \in 1..Len(fd[o]) : fd'[o][k] = fd[o][k]
        BY <1>3, <2>1
      <3>2. Taken(o) + (Len(fd[o]) + 1) = i[e]
        BY <1>6, <2>1, <2>2
      <3>3. Len(fd'[o]) = Written(e)' - Taken(o)'
        BY <1>6, <2>1, <2>2, <3>1
      <3>4. \A k \in 1..(Len(fd[o]) + 1) : k = Len(fd[o]) + 1 \/ k \in 1..Len(fd[o])
        BY <2>2
      <3>5. \A k \in 1..Len(fd'[o]) : fd'[o][k] = HalfOf(e, Taken(o) + k)
        BY <1>4, <2>1, <3>1, <3>2, <3>4
      <3> QED
        BY <1>6, <3>3, <3>5
    <2>4. /\ Len(fd'[e]) = Written(o)' - Taken(e)'
          /\ \A k \in 1..Len(fd'[e]) : fd'[e][k] = HalfOf(o, Taken(e)' + k)
      BY <1>0, <1>2, <1>3, <1>6 DEF InTransit, o
    <2>5. \A d, k : HalfOf(d, k) = Power(dh_g, draw'[d][k])
      BY <1>1 DEF HalfOf
    <2>6. Other(e) = o
      BY DEF o
    <2>7. \A d \in Ends : d = e \/ d = o
      BY <1>2
    <2>8. \A d, k : HalfOf(d, k)' = HalfOf(d, k)
      BY <2>5 DEF HalfOf
    <2> QED
      BY <1>2, <2>3, <2>4, <2>6, <2>7, <2>8 DEF InTransit
  <1>8. Kept'
    <2>1. \A d \in Ends : Finished(d)' = Finished(d)
      BY <1>2, <1>6
    <2>2. \A d \in Ends : pc'[d] = "done" => pc[d] = "done"
      BY <1>2, <1>3
    <2> QED
      BY <1>0, <1>1, <2>1, <2>2 DEF Kept, WordOf, HalfOf
  <1> QED
    BY <1>5, <1>7, <1>8 DEF ExchangeInv

LEMMA ReadHalfStep ==
    ASSUME ExchangeInv, Reduced', NEW e \in Ends, ReadHalf(e)
    PROVE  ExchangeInv'
  <1> DEFINE o == Other(e)
  <1>0. Reduced /\ Computing /\ InTransit /\ Kept
    BY DEF ExchangeInv
  <1>1. /\ pc[e] = "read" /\ fd[e] # <<>> /\ UNCHANGED <<draw, i, half, key>>
        /\ fd' = [fd EXCEPT ![e] = Tail(fd[e])]
        /\ a' = [a EXCEPT ![e] = Head(fd[e])] /\ y' = [y EXCEPT ![e] = 1]
        /\ b' = [b EXCEPT ![e] = draw[e][i[e]]]
        /\ pc' = [pc EXCEPT ![e] = IF e = "client" THEN "key" ELSE "write"]
    BY DEF ReadHalf
  <1>2. /\ o \in Ends /\ o # e /\ Other(o) = e /\ \A d \in Ends : d # e => d = o
        /\ e \in {"client", "server"}
    BY TwoEnds DEF Ends
  <1> HIDE DEF o
  <1>3. /\ pc'[e] = IF e = "client" THEN "key" ELSE "write"
        /\ a'[e] = Head(fd[e]) /\ y'[e] = 1 /\ b'[e] = draw[e][i[e]] /\ fd'[e] = Tail(fd[e])
        /\ \A d \in Ends : d # e => /\ pc'[d] = pc[d] /\ fd'[d] = fd[d]
                                    /\ a'[d] = a[d] /\ b'[d] = b[d] /\ y'[d] = y[d]
    BY <1>0, <1>1 DEF Reduced
  <1>4. /\ Taken(e) = i[e] - 1 /\ Taken(e)' = i[e] /\ Written(e)' = Written(e)
        /\ Finished(e)' = Finished(e)
        /\ Written(o)' = Written(o) /\ Taken(o)' = Taken(o) /\ Finished(o)' = Finished(o)
        /\ i[e] \in 1..Words /\ i[e] \in Int /\ Written(o) \in Int
    <2>1. i[e] \in 1..Words /\ i[e] \in Int /\ i[o] \in Int
      BY <1>0, <1>2, DHAssumption DEF Reduced
    <2> QED
      BY <1>1, <1>2, <1>3, <2>1 DEF Written, Taken, Finished, One
  <1>5. /\ Len(fd[e]) = Written(o) - Taken(e) /\ fd[e] \in Seq(Nat) /\ Len(fd[e]) \in Nat \ {0}
        /\ \A k \in 1..Len(fd[e]) : fd[e][k] = HalfOf(o, Taken(e) + k)
    <2>1. fd[e] \in Seq(0..(dh_p - 1))
      BY <1>0 DEF Reduced
    <2>2. fd[e] \in Seq(Nat)
      BY <2>1, Modulus
    <2>3. Len(fd[e]) \in Nat \ {0}
      BY <1>1, <2>2
    <2> QED
      BY <1>0, <2>2, <2>3 DEF InTransit, o
  <1>6. Head(fd[e]) = HalfOf(o, i[e])
    <2>1. Head(fd[e]) = fd[e][1] /\ 1 \in 1..Len(fd[e]) /\ Taken(e) + 1 = i[e]
      BY <1>1, <1>4, <1>5
    <2> QED
      BY <1>5, <2>1
  <1>7. Computing'
    <2>1. ASSUME NEW d \in Ends, d # e
          PROVE  /\ pc'[d] = "half" => Mult(y'[d], Power(a'[d], b'[d])) = HalfOf(d, i[d])
                 /\ pc'[d] \in {"write", "read"} => half'[d] = HalfOf(d, i[d])
                 /\ pc'[d] = "key" \/ (d = "server" /\ pc'[d] = "write") =>
                       Mult(y'[d], Power(a'[d], b'[d])) = WordOf(d, i[d])
      BY <1>0, <1>1, <1>3, <2>1 DEF Computing
    <2>2. Mult(y'[e], Power(a'[e], b'[e])) = WordOf(e, i[e])
      <3>1. HalfOf(o, i[e]) \in Nat /\ draw[e][i[e]] \in Nat
        BY <1>0, <1>2, <1>4, DrawNat
      <3>2. WordOf(e, i[e]) = Power(HalfOf(o, i[e]), draw[e][i[e]])
        BY DEF WordOf, o
      <3> QED
        BY <1>3, <1>6, <3>1, <3>2, LoopBegun
    <2>3. half'[e] = HalfOf(e, i[e]) /\ pc'[e] \in {"key", "write"}
      BY <1>0, <1>1, <1>3 DEF Computing
    <2> QED
      BY <1>1, <2>1, <2>2, <2>3 DEF Computing, HalfOf, WordOf
  <1>8. InTransit'
    <2>1. /\ Len(fd'[e]) = Written(o)' - Taken(e)'
          /\ \A k \in 1..Len(fd'[e]) : fd'[e][k] = HalfOf(o, Taken(e)' + k)
      <3>1. /\ Len(fd'[e]) = Len(fd[e]) - 1
            /\ \A k \in 1..Len(fd'[e]) : fd'[e][k] = fd[e][k + 1] /\ k + 1 \in 1..Len(fd[e])
        <4> DEFINE q == fd[e]
        <4>1. q \in Seq(Nat) /\ q # <<>> /\ fd'[e] = Tail(q)
          BY <1>1, <1>3, <1>5
        <4> HIDE DEF q
        <4>2. /\ Len(Tail(q)) = Len(q) - 1 /\ Len(q) \in Nat
              /\ \A k \in 1..(Len(q) - 1) : Tail(q)[k] = q[k + 1]
          BY <4>1
        <4> QED
          BY <4>1, <4>2 DEF q
      <3>2. Len(fd'[e]) = Written(o)' - Taken(e)'
        BY <1>4, <1>5, <3>1
      <3>3. \A k \in 1..Len(fd'[e]) : Taken(e) + (k + 1) = Taken(e)' + k
        BY <1>4
      <3> QED
        BY <1>5, <3>1, <3>2, <3>3
    <2>2. /\ Len(fd'[o]) = Written(e)' - Taken(o)'
          /\ \A k \in 1..Len(fd'[o]) : fd'[o][k] = HalfOf(e, Taken(o)' + k)
      BY <1>0, <1>2, <1>3, <1>4 DEF InTransit
    <2>3. \A d, k : HalfOf(d, k) = Power(dh_g, draw'[d][k])
      BY <1>1 DEF HalfOf
    <2>4. Other(e) = o
      BY DEF o
    <2> QED
      BY <1>2, <2>1, <2>2, <2>3, <2>4 DEF InTransit, HalfOf
  <1>9. Kept'
    <2>1. \A d \in Ends : Finished(d)' = Finished(d)
      BY <1>2, <1>4
    <2>2. \A d \in Ends : pc'[d] = "done" => pc[d] = "done"
      BY <1>3
    <2> QED
      BY <1>0, <1>1, <2>1, <2>2 DEF Kept, WordOf, HalfOf
  <1> QED
    BY <1>7, <1>8, <1>9 DEF ExchangeInv

LEMMA KeyDoneStep ==
    ASSUME ExchangeInv, Reduced', NEW e \in Ends, KeyDone(e)
    PROVE  ExchangeInv'
  <1> DEFINE w == WordOf(e, i[e])
  <1>0. Reduced /\ Computing /\ InTransit /\ Kept
    BY DEF ExchangeInv
  <1>1. /\ pc[e] = "key" /\ b[e] = 0 /\ UNCHANGED <<draw, half, fd>>
        /\ key' = [key EXCEPT ![e][i[e]] = y[e] % WordSize]
    BY DEF KeyDone
  <1>2. i[e] \in 1..Words /\ i[e] \in Int /\ Words \in Nat /\ e \in {"client", "server"}
    <2>1. Words \in Nat
      BY DHAssumption
    <2>2. i[e] \in 1..Words
      BY <1>0 DEF Reduced
    <2> QED
      BY <2>1, <2>2 DEF Ends
  <1>3. y[e] % WordSize = w /\ w \in Nat
    <2>1. Mult(y[e], Power(a[e], b[e])) = w
      BY <1>0, <1>1 DEF Computing
    <2>2. y[e] \in 0..(dh_p - 1) /\ a[e] \in 0..(dh_p - 1)
      BY <1>0 DEF Reduced
    <2>3. y[e] = w
      BY <1>1, <2>1, <2>2, LoopDone
    <2>4. y[e] \in Nat /\ y[e] < WordSize /\ WordSize \in Nat
      BY <2>2, DHAssumption
    <2> HIDE DEF w
    <2>5. y[e] % WordSize = y[e]
      BY <2>4
    <2> QED
      BY <2>3, <2>4, <2>5
  <1> HIDE DEF w
  <1>4. \A d \in Ends : d # e => /\ pc'[d] = pc[d] /\ i'[d] = i[d] /\ a'[d] = a[d]
                                 /\ b'[d] = b[d] /\ y'[d] = y[d] /\ key'[d] = key[d]
    <2>1. \A d \in Ends : d # e => key'[d] = key[d]
      BY <1>0, <1>1 DEF Kept
    <2>2. CASE i[e] < Words
      BY <1>0, <2>1, <2>2 DEF KeyDone, Reduced
    <2>3. CASE ~(i[e] < Words)
      BY <1>0, <2>1, <2>3 DEF KeyDone, Reduced
    <2> QED
      BY <2>2, <2>3
  <1>5. \/ /\ i[e] < Words /\ pc'[e] = "half" /\ i'[e] = i[e] + 1
           /\ a'[e] = dh_g /\ y'[e] = 1 /\ b'[e] = draw[e][i[e] + 1]
        \/ i[e] = Words /\ pc'[e] = "done" /\ i'[e] = i[e]
    <2>1. CASE i[e] < Words
      BY <1>0, <2>1 DEF KeyDone, Reduced
    <2>2. CASE ~(i[e] < Words)
      <3>1. i[e] = Words
        BY <1>2, <2>2
      <3> QED
        BY <1>0, <2>2, <3>1 DEF KeyDone, Reduced
    <2> QED
      BY <2>1, <2>2
  <1>6. Computing'
    <2>1. ASSUME NEW d \in Ends, d # e
          PROVE  /\ pc'[d] = "half" => Mult(y'[d], Power(a'[d], b'[d])) = HalfOf(d, i'[d])
                 /\ pc'[d] \in {"write", "read"} => half'[d] = HalfOf(d, i'[d])
                 /\ pc'[d] = "key" \/ (d = "server" /\ pc'[d] = "write") =>
                       Mult(y'[d], Power(a'[d], b'[d])) = WordOf(d, i'[d])
      BY <1>0, <1>1, <1>4, <2>1 DEF Computing
    <2>2. pc'[e] \in {"half", "done"}
      BY <1>5
    <2>3. ASSUME pc'[e] = "half"
          PROVE  Mult(y'[e], Power(a'[e], b'[e])) = HalfOf(e, i'[e])
      <3>1. i[e] + 1 \in 1..Words /\ dh_g \in Nat
        BY <1>2, <1>5, <2>3, DHAssumption
      <3>2. draw[e][i[e] + 1] \in Nat
        BY <1>0, <3>1, DrawNat
      <3> QED
        BY <1>5, <2>3, <3>1, <3>2, LoopBegun DEF HalfOf
    <2> QED
      BY <1>1, <2>1, <2>2, <2>3 DEF Computing, HalfOf, WordOf
  <1>7. \A d \in Ends : Written(d)' = Written(d) /\ Taken(d)' = Taken(d)
    <2>1. Written(e)' = Written(e) /\ Taken(e)' = Taken(e)
      BY <1>1, <1>2, <1>5 DEF Written, Taken, One
    <2> QED
      BY <1>4, <2>1 DEF Written, Taken
  <1>8. InTransit'
    BY <1>0, <1>1, <1>7, TwoEnds DEF InTransit, HalfOf
  <1>9. Kept'
    <2>1. \A d \in Ends : d # e => Finished(d)' = Finished(d)
      BY <1>4 DEF Finished
    <2>2. Finished(e)' = i[e] /\ Finished(e) = i[e] - 1
      BY <1>1, <1>2, <1>5 DEF Finished, One
    <2>3. key'[e] = [key[e] EXCEPT ![i[e]] = w]
      BY <1>0, <1>1, <1>3 DEF Kept
    <2>4. key[e] \in [1..Words -> Nat] /\ \A k \in 1..(i[e] - 1) : key[e][k] = WordOf(e, k)
      BY <1>0, <2>2 DEF Kept
    <2>5. key' \in [Ends -> [1..Words -> Nat]]
      BY <1>0, <1>1, <1>2, <1>3 DEF Kept
    <2>6. \A k \in 1..i[e] : key'[e][k] = WordOf(e, k)
      <3> SUFFICES ASSUME NEW k \in 1..i[e] PROVE key'[e][k] = WordOf(e, k)
        OBVIOUS
      <3>1. CASE k = i[e]
        BY <1>2, <2>3, <2>4, <3>1 DEF w
      <3>2. CASE k # i[e]
        <4>1. k \in 1..(i[e] - 1) /\ k \in 1..Words
          BY <1>2, <3>2
        <4> QED
          BY <2>3, <2>4, <3>2, <4>1
      <3> QED
        BY <3>1, <3>2
    <2>7. pc'[e] = "done" => i'[e] = Words
      BY <1>5
    <2>8. \A d, k : WordOf(d, k)' = WordOf(d, k)
      BY <1>1 DEF WordOf, HalfOf
    <2>9. \A d \in Ends : d # e =>
             /\ pc'[d] = "done" => i'[d] = Words
             /\ \A k \in 1..Finished(d)' : key'[d][k] = WordOf(d, k)
      BY <1>0, <1>4, <2>1 DEF Kept
    <2> QED
      BY <2>2, <2>5, <2>6, <2>7, <2>8, <2>9 DEF Kept
  <1> QED
    BY <1>6, <1>8, <1>9 DEF ExchangeInv

LEMMA ExchangeStep == ExchangeInv /\ [DHNext]_dhVars => ExchangeInv'
  <1> SUFFICES ASSUME ExchangeInv, [DHNext]_dhVars PROVE ExchangeInv'
    OBVIOUS
  <1>1. Reduced'
    BY ReducedNext DEF ExchangeInv
  <1>2. CASE UNCHANGED dhVars
    BY <1>1, <1>2 DEF dhVars, ExchangeInv, Computing, InTransit, Kept, Written, Taken, Finished,
                      HalfOf, WordOf
  <1>3. ASSUME NEW e \in Ends, DHStep(e) PROVE ExchangeInv'
    BY <1>1, <1>3, SquareStep, HalfDoneStep, WriteHalfStep, ReadHalfStep, KeyDoneStep
    DEF DHStep
  <1> QED
    BY <1>2, <1>3 DEF DHNext

(* What each end is computing, what is on its way and what it has kept,    *)
(* all as powers of the base (do_dh_client, do_dh_server, sq_mp).          *)
THEOREM ExchangeHolds == DHSpec => []ExchangeInv
  BY ExchangeInit, ExchangeStep, PTL DEF DHSpec

(* Once both ends are done their keys are the same, for every modulus,     *)
(* base, number of words and secrets (src/src/ecftp.c:337, 366).           *)
THEOREM KeysEqual == DHSpec => []SameKey
  <1>1. ExchangeInv => SameKey
    <2> SUFFICES ASSUME ExchangeInv, \A e \in Ends : pc[e] = "done"
                 PROVE  key["client"] = key["server"]
      BY DEF SameKey
    <2>1. Reduced /\ Kept /\ Words \in Nat
      BY DHAssumption DEF ExchangeInv
    <2>2. \A e \in Ends : Finished(e) = Words
      BY <2>1 DEF Kept, Finished, One
    <2>3. "client" \in Ends /\ "server" \in Ends
      BY DEF Ends
    <2>4. /\ key["client"] \in [1..Words -> Nat] /\ key["server"] \in [1..Words -> Nat]
          /\ \A k \in 1..Words : /\ key["client"][k] = WordOf("client", k)
                                 /\ key["server"][k] = WordOf("server", k)
      BY <2>1, <2>2, <2>3 DEF Kept
    <2>5. \A k \in 1..Words : key["client"][k] = key["server"][k]
      BY <2>1, <2>4, OneWord
    <2> DEFINE u == key["client"]
               v == key["server"]
    <2>6. u \in [1..Words -> Nat] /\ v \in [1..Words -> Nat] /\ \A k \in 1..Words : u[k] = v[k]
      BY <2>4, <2>5
    <2> HIDE DEF u, v
    <2>7. u = v
      <3>1. u = [k \in 1..Words |-> u[k]] /\ v = [k \in 1..Words |-> v[k]]
        BY <2>6
      <3>2. [k \in 1..Words |-> u[k]] = [k \in 1..Words |-> v[k]]
        BY <2>6
      <3> QED
        BY <3>1, <3>2
    <2> QED
      BY <2>7 DEF u, v
  <1> QED
    BY <1>1, ExchangeHolds, PTL

-----------------------------------------------------------------------------
(* Whatever the two programs do with blocks once they have keys, the key   *)
(* exchange between them is DiffieHellman's: the ciphers change nothing of *)
(* it (src/src/ecftp.c:316-372, src/src/enc.c:55-72).                      *)
THEOREM ExchangeRefined == Spec => DHSpec
  <1>1. Init => DHInit
    BY DEF Init
  <1>2. [Next]_vars => [DHNext]_dhVars
    BY DEF Next, vars, KeyExchange, FillTables, ExpandKeys, TakeBlock, TakePadding,
           EncryptRound, DecryptRound
  <1> QED
    BY <1>1, <1>2, PTL DEF Spec, DHSpec

(* So sq_mp's products fit in the whole of it (src/src/enc.c:64, 67).      *)
THEOREM ChannelProductsFit == Spec => []NoOverflow
  BY ExchangeRefined, ProductsFit, PTL

(* Nor does a block sent before the other end has its key change what that *)
(* key is: both still end with the same one (src/src/ecftp.c:337, 366).    *)
THEOREM ChannelKeysEqual == Spec => []SameKey
  BY ExchangeRefined, KeysEqual, PTL
=============================================================================
