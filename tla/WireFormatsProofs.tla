-------------------------- MODULE WireFormatsProofs --------------------------
(* Theorems about the formats of the wire, for any values of a byte, width of  *)
(* a header and limit: whatever is sent arrives, however the network cuts it,  *)
(* and the percentage of the cache is the rounding that it claims to be, for   *)
(* any numbers of tokens.                                                      *)
EXTENDS MCLeaderWire, SequenceTheorems, WellFoundedInduction, TLAPS

-----------------------------------------------------------------------------
(* The percentage *)

\* Quotients by constants and by a number
LEMMA Quotient ==
    ASSUME NEW x \in Nat, NEW d \in Nat, d # 0, NEW k \in Nat, d * k <= x, x < d * k + d
    PROVE  x \div d = k
<1> DEFINE q == x \div d
           r == x % d
<1>1. q \in Int /\ r \in 0..(d - 1) /\ x = d * q + r
  OBVIOUS
<1> HIDE DEF q, r
<1>2. ~(q >= k + 1)
  <2> SUFFICES ASSUME q >= k + 1 PROVE FALSE
    OBVIOUS
  <2>1. PICK e \in Nat : q = k + 1 + e
    <3>1. q - (k + 1) \in Nat /\ q = k + 1 + (q - (k + 1))
      BY <1>1
    <3> QED BY <3>1
  <2>2. d * q = d * k + d + d * e /\ d * e \in Nat /\ d * k \in Nat
    BY <2>1
  <2> QED BY <1>1, <2>2
<1>3. ~(q + 1 <= k)
  <2> SUFFICES ASSUME q + 1 <= k PROVE FALSE
    OBVIOUS
  <2>1. PICK e \in Nat : k = q + 1 + e
    <3>1. k - (q + 1) \in Nat /\ k = q + 1 + (k - (q + 1))
      BY <1>1
    <3> QED BY <3>1
  <2>2. d * k = d * q + d + d * e /\ d * e \in Nat /\ d * q \in Int
    BY <1>1, <2>1
  <2> QED BY <1>1, <2>2
<1>4. q = k
  BY <1>1, <1>2, <1>3
<1> QED BY <1>4 DEF q

LEMMA Quotient200 ==
    ASSUME NEW n \in Nat
    PROVE  /\ n \div 200 \in Nat /\ n % 200 \in 0..199 /\ n = 200 * (n \div 200) + (n % 200)
           /\ Ceiling(n) \in Nat /\ \A h \in Nat : h >= Ceiling(n) <=> 200 * h >= n
<1>1. n \div 200 \in Nat /\ n % 200 \in 0..199 /\ n = 200 * (n \div 200) + (n % 200)
  OBVIOUS
<1>2. PICK k : k = (n + 199) \div 200
  OBVIOUS
<1>3. k \in Nat /\ 200 * k <= n + 199 /\ n + 199 < 200 * k + 200
  BY <1>2
<1>4. \A h \in Nat : h >= k <=> 200 * h >= n
  BY ONLY <1>3, n \in Nat
<1> QED BY <1>1, <1>2, <1>3, <1>4 DEF Ceiling

LEMMA Quotient10 ==
    ASSUME NEW n \in Nat
    PROVE  /\ n \div 10 \in Nat /\ n % 10 \in 0..9 /\ n = 10 * (n \div 10) + (n % 10)
           /\ \A h \in Nat : h <= n \div 10 <=> 10 * h <= n
<1>1. PICK k : k = n \div 10
  OBVIOUS
<1>2. k \in Nat /\ n % 10 \in 0..9 /\ n = 10 * k + (n % 10)
  BY <1>1
<1>3. \A h \in Nat : h <= k <=> 10 * h <= n
  BY ONLY <1>2, n \in Nat
<1> QED BY <1>1, <1>2, <1>3

\* A percentage is reached when the ratio is, rounded with ties up.
LEMMA ReachedExactly ==
    ASSUME NEW hits \in Nat, NEW all \in Nat, NEW c \in Nat, c # 0
    PROVE  Reaches(hits, all, c) <=> 200 * hits >= (2 * c - 1) * all
<1> DEFINE q == all \div 200
           r == all % 200
<1>1. q \in Nat /\ r \in 0..199 /\ all = 200 * q + r
  BY Quotient200
<1> HIDE DEF q, r
<1>2. PICK f \in Nat : f = 2 * c - 1
  OBVIOUS
<1>3. f * q \in Nat /\ f * r \in Nat
  BY <1>1
<1>4. f * all = 200 * (f * q) + f * r
  BY <1>1
<1>5. PICK m, n : m = f * q /\ n = f * r
  OBVIOUS
<1>6. Ceiling(n) \in Nat /\ \A h \in Nat : h >= Ceiling(n) <=> 200 * h >= n
  BY <1>3, <1>5, Quotient200
<1>7. hits >= m + Ceiling(n) <=> 200 * hits >= 200 * m + n
  <2>1. CASE hits >= m
    <3>1. hits - m >= Ceiling(n) <=> 200 * (hits - m) >= n
      BY <1>3, <1>5, <1>6, <2>1
    <3> QED BY <1>3, <1>5, <1>6, <2>1, <3>1
  <2>2. CASE hits < m
    BY <1>3, <1>5, <1>6, <2>2
  <2> QED BY <1>3, <1>5, <2>1, <2>2
<1> QED BY <1>2, <1>4, <1>5, <1>7 DEF Reaches, q, r

\* A set of numbers has a least one.
LEMMA Least ==
    ASSUME NEW T \in SUBSET Nat, T # {} PROVE \E n \in T : \A m \in T : n <= m
<1> DEFINE R == {ss \in Nat \X Nat : ss[1] < ss[2]}
<1>1. IsWellFoundedOn(R, Nat)
  BY NatLessThanWellFounded DEF OpToRel
<1> HIDE DEF R
<1>2. \E x \in T : \A y \in T : ~ (<<y, x>> \in R)
  BY <1>1, WFMin
<1>3. PICK x \in T : \A y \in T : ~ (<<y, x>> \in R)
  BY <1>2
<1>4. \A y \in T : ~(y < x)
  BY <1>3 DEF R
<1> QED BY <1>4

\* Induction up to a number, for a set
LEMMA UpTo ==
    ASSUME NEW N \in Nat, NEW T, 0 \in T, \A n \in 1..N : n - 1 \in T => n \in T
    PROVE  \A n \in 0..N : n \in T
<1> DEFINE C == {n \in 0..N : n \notin T}
<1> SUFFICES ASSUME C # {} PROVE FALSE
  OBVIOUS
<1>1. C \in SUBSET Nat
  OBVIOUS
<1> HIDE DEF C
<1>2. PICK n \in C : \A m \in C : n <= m
  BY <1>1, Least
<1>3. n \in 0..N /\ n \notin T /\ n # 0
  BY <1>2 DEF C
<1>4. n \in 1..N /\ n - 1 \in 0..N /\ ~(n <= n - 1)
  BY <1>3
<1>5. n - 1 \notin C
  BY <1>2, <1>4
<1>6. n - 1 \in T
  BY <1>4, <1>5 DEF C
<1> QED BY <1>3, <1>4, <1>6

\* The largest percentage of a range that is reached, or its lower end.
Best(hits, all, range, c) ==
    /\ c \in range.lower..range.upper
    /\ c = range.lower \/ Reaches(hits, all, c)
    /\ \A d \in c + 1..range.upper : ~Reaches(hits, all, d)

LEMMA ReachedBelow ==
    ASSUME NEW hits \in Nat, NEW all \in Nat, NEW c \in Nat, c # 0, NEW d \in Nat, c <= d,
           Reaches(hits, all, d)
    PROVE  Reaches(hits, all, c)
<1>1. 200 * hits >= (2 * d - 1) * all
  BY ReachedExactly
<1>2. PICK e \in Nat : d = c + e
  <2>1. d - c \in Nat /\ d = c + (d - c)
    OBVIOUS
  <2> QED BY <2>1
<1>3. (2 * d - 1) * all = (2 * c - 1) * all + 2 * (e * all) /\ e * all \in Nat /\ (2 * c - 1) * all \in Nat
  BY <1>2
<1>4. 200 * hits >= (2 * c - 1) * all
  BY <1>1, <1>3
<1> QED BY <1>4, ReachedExactly

LEMMA BestExists ==
    ASSUME NEW hits, NEW all, NEW range \in Ranges, range.lower <= range.upper
    PROVE  \E c : Best(hits, all, range, c)
<1>1. PICK l, u : l = range.lower /\ u = range.upper
  OBVIOUS
<1>2. l \in Nat /\ u \in Nat /\ l <= u
  BY <1>1 DEF Ranges
<1> DEFINE T == {n \in 0..(u - l) : u - n = l \/ Reaches(hits, all, u - n)}
<1>3. T \in SUBSET Nat /\ T # {}
  <2>1. u - l \in 0..(u - l) /\ u - (u - l) = l
    BY <1>2
  <2> QED BY <2>1
<1> HIDE DEF T
<1>4. PICK n \in T : \A m \in T : n <= m
  BY <1>3, Least
<1>5. n \in 0..(u - l) /\ (u - n = l \/ Reaches(hits, all, u - n))
  BY <1>4 DEF T
<1>6. PICK c : c = u - n
  OBVIOUS
<1>7. ASSUME NEW d \in c + 1..u, Reaches(hits, all, d) PROVE FALSE
  <2>1. u - d \in 0..(u - l) /\ u - (u - d) = d /\ ~(n <= u - d)
    BY <1>2, <1>5, <1>6
  <2>2. u - d \in T
    BY <1>7, <2>1 DEF T
  <2> QED BY <1>4, <2>1, <2>2
<1>8. c \in l..u
  BY <1>2, <1>5, <1>6
<1> QED BY <1>1, <1>5, <1>6, <1>7, <1>8 DEF Best

LEMMA BestUnique ==
    ASSUME NEW hits, NEW all, NEW range \in Ranges, NEW c, Best(hits, all, range, c),
           NEW d, Best(hits, all, range, d)
    PROVE  c = d
<1>1. /\ range.lower \in Nat /\ range.upper \in Nat
      /\ c \in range.lower..range.upper /\ d \in range.lower..range.upper
  BY DEF Best, Ranges
<1>2. ~(c < d)
  <2>1. c < d => d \in c + 1..range.upper /\ d # range.lower
    BY <1>1
  <2> QED BY <2>1 DEF Best
<1>3. ~(d < c)
  <2>1. d < c => c \in d + 1..range.upper /\ c # range.lower
    BY <1>1
  <2> QED BY <2>1 DEF Best
<1> QED BY <1>1, <1>2, <1>3

\* The half of a range in which the search goes on has its best.
Middle(range) == (range.lower + range.upper + 1) \div 2
Half(hits, all, range) ==
    IF Reaches(hits, all, Middle(range)) THEN [range EXCEPT !.lower = Middle(range)]
    ELSE [range EXCEPT !.upper = Middle(range) - 1]
LEMMA HalfHasBest ==
    ASSUME NEW hits \in Nat, NEW all \in Nat, NEW range \in Ranges, range.lower < range.upper,
           NEW half, half = Half(hits, all, range)
    PROVE  /\ half \in Ranges /\ half.lower <= half.upper
           /\ half.upper - half.lower \in 0..(range.upper - range.lower - 1)
           /\ \A c : Best(hits, all, half, c) => Best(hits, all, range, c)
<1>1. PICK l, u, m : l = range.lower /\ u = range.upper /\ m = Middle(range)
  OBVIOUS
<1>2. l \in 0..100 /\ u \in 0..100 /\ m \in l + 1..u
  BY <1>1 DEF Ranges, Middle
<1>3. CASE Reaches(hits, all, m)
  <2>1. half = [range EXCEPT !.lower = m]
    BY <1>1, <1>3 DEF Half
  <2>2. half \in Ranges /\ half.lower = m /\ half.upper = u
    BY <1>1, <1>2, <2>1 DEF Ranges
  <2>3. ASSUME NEW c, Best(hits, all, half, c) PROVE Best(hits, all, range, c)
    <3>1. c \in l..u
      BY <1>2, <2>2, <2>3 DEF Best
    <3>2. \A d \in c + 1..u : ~Reaches(hits, all, d)
      BY <2>2, <2>3 DEF Best
    <3>3. Reaches(hits, all, c)
      BY <1>3, <2>2, <2>3 DEF Best
    <3> QED BY <1>1, <3>1, <3>2, <3>3 DEF Best
  <2>4. m <= u /\ u - m \in 0..(u - l - 1)
    BY ONLY <1>2
  <2> QED BY ONLY <1>1, <2>2, <2>3, <2>4
<1>4. CASE ~Reaches(hits, all, m)
  <2>1. half = [range EXCEPT !.upper = m - 1]
    BY <1>1, <1>4 DEF Half
  <2>2. half \in Ranges /\ half.lower = l /\ half.upper = m - 1
    BY <1>1, <1>2, <2>1 DEF Ranges
  <2>3. ASSUME NEW c, Best(hits, all, half, c) PROVE Best(hits, all, range, c)
    <3>1. c \in l..u /\ c \in Nat
      BY <1>2, <2>2, <2>3 DEF Best
    <3>2. ASSUME NEW d \in c + 1..u PROVE ~Reaches(hits, all, d)
      <4>1. CASE d <= m - 1
        <5>1. d \in c + 1..half.upper
          BY <1>2, <2>2, <3>1, <4>1
        <5>2. \A e \in c + 1..half.upper : ~Reaches(hits, all, e)
          BY <2>3 DEF Best
        <5> QED BY <5>1, <5>2
      <4>2. CASE d >= m
        <5>1. d \in Nat /\ m \in Nat /\ m # 0 /\ m <= d
          BY <1>2, <3>1, <4>2
        <5> QED BY <1>4, <5>1, ReachedBelow
      <4> QED BY <1>2, <3>1, <4>1, <4>2
    <3> QED BY <1>1, <2>2, <2>3, <3>1, <3>2 DEF Best
  <2>4. l <= m - 1 /\ (m - 1) - l \in 0..(u - l - 1)
    BY ONLY <1>2
  <2> QED BY ONLY <1>1, <2>2, <2>3, <2>4
<1> QED BY <1>3, <1>4

\* The binary search finds the best percentage.
LEMMA RoundedIsBest ==
    ASSUME NEW hits \in Nat, NEW all \in Nat
    PROVE  Best(hits, all, [lower |-> 0, upper |-> 100], RoundedInteger(hits, all))
<1> DEFINE start == [lower |-> 0, upper |-> 100]
           go(f) == [range \in Ranges |->
                         LET middle == (range.lower + range.upper + 1) \div 2
                         IN  IF range.lower >= range.upper THEN range.lower
                             ELSE IF Reaches(hits, all, middle) THEN f[[range EXCEPT !.lower = middle]]
                             ELSE f[[range EXCEPT !.upper = middle - 1]]]
           F == CHOOSE f : f = go(f)
           best == [range \in Ranges |-> IF range.lower >= range.upper THEN range.lower
                                         ELSE CHOOSE c : Best(hits, all, range, c)]
<1>1. ASSUME NEW f, NEW range \in Ranges
      PROVE  go(f)[range] = IF range.lower >= range.upper THEN range.lower
                              ELSE f[Half(hits, all, range)]
  BY DEF Half, Middle
<1>2. RoundedInteger(hits, all) = F[start]
  BY DEF RoundedInteger
<1>3. best = go(best)
  <2>1. ASSUME NEW range \in Ranges, range.lower < range.upper
        PROVE  best[range] = best[Half(hits, all, range)]
    <3>1. PICK half : half = Half(hits, all, range)
      OBVIOUS
    <3>2. /\ half \in Ranges /\ half.lower <= half.upper
          /\ \A c : Best(hits, all, half, c) => Best(hits, all, range, c)
      BY <2>1, <3>1, HalfHasBest
    <3>3. Best(hits, all, half, best[half])
      <4>1. CASE half.lower < half.upper
        <5>1. \E c : Best(hits, all, half, c)
          BY <3>2, BestExists
        <5>2. best[half] = CHOOSE c : Best(hits, all, half, c)
          BY <3>2, <4>1 DEF Ranges
        <5> QED BY <5>1, <5>2
      <4>2. CASE half.lower = half.upper
        <5>1. best[half] = half.lower
          BY <3>2, <4>2 DEF Ranges
        <5>2. half.lower \in half.lower..half.upper /\ half.lower + 1..half.upper = {}
          BY <3>2, <4>2 DEF Ranges
        <5> QED BY <5>1, <5>2 DEF Best
      <4> QED BY <3>2, <4>1, <4>2 DEF Ranges
    <3>4. Best(hits, all, range, best[half])
      BY <3>2, <3>3
    <3>5. best[range] = CHOOSE c : Best(hits, all, range, c)
      BY <2>1 DEF Ranges
    <3>6. Best(hits, all, range, best[range])
      BY <3>4, <3>5
    <3> HIDE DEF best
    <3> QED BY <3>1, <3>4, <3>6, BestUnique
  <2>2. ASSUME NEW range \in Ranges, range.lower >= range.upper PROVE best[range] = range.lower
    BY <2>2
  <2>3. ASSUME NEW range \in Ranges PROVE best[range] = go(best)[range]
    <3>1. range.lower < range.upper \/ range.lower >= range.upper
      BY DEF Ranges
    <3>2. range.lower < range.upper => ~(range.lower >= range.upper)
      BY DEF Ranges
    <3> HIDE DEF best, go
    <3> QED BY <1>1, <2>1, <2>2, <3>1, <3>2
  <2>4. best = [range \in Ranges |-> best[range]]
    OBVIOUS
  <2>5. go(best) = [range \in Ranges |-> go(best)[range]]
    OBVIOUS
  <2> HIDE DEF best, go
  <2> QED BY <2>3, <2>4, <2>5
<1>4. F = go(F)
  <2> HIDE DEF best, go
  <2> QED BY <1>3
<1> HIDE DEF F
<1>5. ASSUME NEW range \in Ranges
      PROVE  F[range] = IF range.lower >= range.upper THEN range.lower
                        ELSE F[Half(hits, all, range)]
  <2> HIDE DEF go
  <2> QED BY <1>1, <1>4
<1> DEFINE T == {n \in 0..100 : \A range \in Ranges :
                    range.upper - range.lower \in 0..n => Best(hits, all, range, F[range])}
<1> HIDE DEF go, best
<1>6. 0 \in T
  <2>1. ASSUME NEW range \in Ranges, range.upper - range.lower \in 0..0
        PROVE  Best(hits, all, range, F[range])
    <3>1. /\ range.lower = range.upper /\ range.lower >= range.upper
          /\ range.lower \in range.lower..range.upper
          /\ range.lower + 1..range.upper = {}
      BY <2>1 DEF Ranges
    <3>2. F[range] = range.lower
      BY <1>5, <3>1
    <3> QED BY <3>1, <3>2 DEF Best
  <2> QED BY <2>1
<1>7. ASSUME NEW n \in 1..100, n - 1 \in T PROVE n \in T
  <2>1. ASSUME NEW range \in Ranges, range.upper - range.lower \in 0..n
        PROVE  Best(hits, all, range, F[range])
    <3>1. CASE range.upper - range.lower \in 0..(n - 1)
      BY <1>7, <3>1
    <3>2. CASE range.lower < range.upper
      <4>1. PICK half : half = Half(hits, all, range)
        OBVIOUS
      <4>2. /\ half \in Ranges
            /\ half.upper - half.lower \in 0..(range.upper - range.lower - 1)
            /\ \A c : Best(hits, all, half, c) => Best(hits, all, range, c)
        BY <3>2, <4>1, HalfHasBest
      <4>3. half.upper - half.lower \in 0..(n - 1)
        BY <2>1, <4>2 DEF Ranges
      <4>4. Best(hits, all, half, F[half])
        BY <1>7, <4>2, <4>3
      <4>5. F[range] = F[half]
        <5>1. ~(range.lower >= range.upper)
          BY <3>2 DEF Ranges
        <5> QED BY <1>5, <4>1, <5>1
      <4> QED BY <4>2, <4>4, <4>5
    <3> QED BY <2>1, <3>1, <3>2 DEF Ranges
  <2> QED BY <2>1
<1>8. \A n \in 0..100 : n \in T
  <2> HIDE DEF T
  <2> QED BY <1>6, <1>7, UpTo
<1>9. Best(hits, all, start, F[start])
  <2>1. start \in Ranges /\ start.upper - start.lower \in 0..100 /\ 100 \in 0..100
    BY DEF Ranges
  <2>2. 100 \in T
    BY <1>8, <2>1
  <2> HIDE DEF start
  <2> QED BY <2>1, <2>2
<1> QED BY <1>2, <1>9

\* The powers of a number
IsPower(base, power) == power = [n \in Nat |-> IF n = 0 THEN 1 ELSE base * power[n - 1]]
LEMMA PowersExist ==
    ASSUME NEW base \in Nat PROVE \E power : IsPower(base, power)
<1> DEFINE Powers(n) == {g \in [0..n -> Nat] : g[0] = 1 /\ \A i \in 1..n : g[i] = base * g[i - 1]}
           power == [n \in Nat |-> (CHOOSE g : g \in Powers(n))[n]]
<1>1. ASSUME NEW n \in Nat PROVE \E g : g \in Powers(n)
  <2> DEFINE T == {m \in 0..n : \E g : g \in Powers(m)}
  <2>1. 0 \in T
    <3>1. [i \in 0..0 |-> 1] \in Powers(0)
      OBVIOUS
    <3> QED BY <3>1
  <2>2. ASSUME NEW m \in 1..n, m - 1 \in T PROVE m \in T
    <3>1. PICK g : g \in Powers(m - 1)
      BY <2>2
    <3> DEFINE h == [i \in 0..m |-> IF i = m THEN base * g[m - 1] ELSE g[i]]
    <3>2. g \in [0..(m - 1) -> Nat] /\ g[0] = 1 /\ \A i \in 1..(m - 1) : g[i] = base * g[i - 1]
      BY <3>1
    <3>3. h \in [0..m -> Nat] /\ h[0] = 1
      BY <3>2
    <3>4. ASSUME NEW i \in 1..m PROVE h[i] = base * h[i - 1]
      <4>1. i - 1 \in 0..m /\ i - 1 # m
        OBVIOUS
      <4>2. h[i - 1] = g[i - 1]
        BY <4>1
      <4>3. CASE i = m
        BY <4>2, <4>3
      <4>4. CASE i # m
        <5>1. i \in 1..(m - 1)
          BY <4>4
        <5> QED BY <3>2, <4>2, <4>4, <5>1
      <4> QED BY <4>3, <4>4
    <3>5. h \in Powers(m)
      <4> HIDE DEF h
      <4> QED BY <3>3, <3>4
    <3>6. m \in 0..n
      OBVIOUS
    <3> HIDE DEF Powers, h
    <3> QED BY <3>5, <3>6
  <2> HIDE DEF T, Powers
  <2>3. \A m \in 0..n : m \in T
    BY <2>1, <2>2, UpTo
  <2> QED BY <2>3 DEF T
<1>2. ASSUME NEW n \in Nat, NEW g \in Powers(n), NEW m \in Nat, NEW h \in Powers(m), n <= m
      PROVE  g[n] = h[n]
  <2> DEFINE T == {i \in 0..n : g[i] = h[i]}
  <2>1. 0 \in T
    OBVIOUS
  <2>2. ASSUME NEW i \in 1..n, i - 1 \in T PROVE i \in T
    <3>1. i \in 1..m /\ g[i] = base * g[i - 1] /\ g[i - 1] = h[i - 1]
      BY <1>2, <2>2
    <3>2. h[i] = base * h[i - 1]
      BY <3>1
    <3> QED BY <3>1, <3>2
  <2> HIDE DEF T, Powers
  <2>3. \A i \in 0..n : i \in T
    BY <2>1, <2>2, UpTo
  <2>4. n \in T
    BY <2>3
  <2> QED BY <2>4 DEF T
<1>3. ASSUME NEW n \in Nat PROVE \E g \in Powers(n) : power[n] = g[n]
  <2> HIDE DEF Powers
  <2> QED BY <1>1
<1>4. power[0] = 1
  <2>1. PICK g \in Powers(0) : power[0] = g[0]
    BY <1>3
  <2> QED BY <2>1
<1>5. ASSUME NEW n \in Nat, n # 0 PROVE power[n] = base * power[n - 1]
  <2>1. PICK g \in Powers(n) : power[n] = g[n]
    BY <1>3
  <2>2. n - 1 \in Nat /\ n \in 1..n
    BY <1>5
  <2>3. PICK h \in Powers(n - 1) : power[n - 1] = h[n - 1]
    BY <1>3, <2>2
  <2> HIDE DEF power
  <2>4. h[n - 1] = g[n - 1]
    <3> HIDE DEF Powers
    <3> QED BY <1>2, <2>2
  <2>5. g[n] = base * g[n - 1]
    BY <2>2
  <2> QED BY <2>1, <2>3, <2>4, <2>5
<1>6. ASSUME NEW n \in Nat PROVE power[n] \in Nat
  <2>1. PICK g \in Powers(n) : power[n] = g[n]
    BY <1>3
  <2> QED BY <2>1
<1>7. power = [n \in Nat |-> IF n = 0 THEN 1 ELSE base * power[n - 1]]
  <2> DEFINE next == [n \in Nat |-> IF n = 0 THEN 1 ELSE base * power[n - 1]]
  <2>1. ASSUME NEW n \in Nat PROVE power[n] = next[n]
    <3> HIDE DEF power
    <3> QED BY <1>4, <1>5
  <2>2. power = [n \in Nat |-> power[n]] /\ next = [n \in Nat |-> next[n]]
    OBVIOUS
  <2> HIDE DEF power, next
  <2>3. power = next
    BY <2>1, <2>2
  <2> QED BY <2>3 DEF next
<1> QED BY <1>7 DEF IsPower

LEMMA PowersAre ==
    ASSUME NEW base \in Nat, base # 0, NEW power, IsPower(base, power)
    PROVE  power[0] = 1 /\ \A n \in Nat : power[n] \in Nat \ {0} /\ power[n + 1] = base * power[n]
<1>1. power[0] = 1 /\ \A n \in Nat \ {0} : power[n] = base * power[n - 1]
  BY DEF IsPower
<1>2. \A n \in Nat : power[n + 1] = base * power[n]
  <2>1. \A n \in Nat : n + 1 \in Nat \ {0} /\ (n + 1) - 1 = n
    OBVIOUS
  <2> QED BY <1>1, <2>1
<1>3. ASSUME NEW n \in Nat PROVE power[n] \in Nat \ {0}
  <2> DEFINE T == {i \in 0..n : power[i] \in Nat \ {0}}
  <2>1. 0 \in T
    BY <1>1
  <2>2. ASSUME NEW i \in 1..n, i - 1 \in T PROVE i \in T
    <3>1. PICK x : x = power[i - 1]
      OBVIOUS
    <3>2. x \in Nat /\ x # 0 /\ power[i] = base * x
      BY <1>1, <2>2, <3>1
    <3>3. base * x \in Nat /\ base * x # 0
      BY ONLY <3>2, base \in Nat, base # 0
    <3> QED BY <3>2, <3>3
  <2> HIDE DEF T
  <2>3. \A i \in 0..n : i \in T
    BY <2>1, <2>2, UpTo
  <2>4. n \in T
    BY <2>3
  <2> QED BY <2>4 DEF T
<1> QED BY <1>1, <1>2, <1>3

LEMMA PowersOfTen ==
    Ten[0] = 1 /\ \A n \in Nat : Ten[n] \in Nat \ {0} /\ Ten[n + 1] = 10 * Ten[n]
<1>1. \E power : IsPower(10, power)
  BY PowersExist
<1>2. IsPower(10, Ten)
  BY <1>1 DEF IsPower, Ten
<1> QED BY <1>2, PowersAre

LEMMA TenGrows == \A n \in Nat : Ten[n] >= n + 1
<1> SUFFICES ASSUME NEW n \in Nat PROVE Ten[n] >= n + 1
  OBVIOUS
<1> DEFINE T == {i \in 0..n : Ten[i] >= i + 1}
<1>1. 0 \in T
  BY PowersOfTen
<1>2. ASSUME NEW i \in 1..n, i - 1 \in T PROVE i \in T
  <2>1. i - 1 \in Nat /\ (i - 1) + 1 = i /\ Ten[i - 1] >= i
    BY <1>2
  <2>2. Ten[i - 1] \in Nat /\ Ten[i] = 10 * Ten[i - 1]
    BY <2>1, PowersOfTen
  <2>3. Ten[i] >= i + 1
    BY <2>1, <2>2
  <2> QED BY <2>3
<1> HIDE DEF T
<1>3. \A i \in 0..n : i \in T
  BY <1>1, <1>2, UpTo
<1>4. n \in T
  BY <1>3
<1> QED BY <1>4 DEF T

\* Scaled counts a whole number of units, ten times as many with a decimal more.
LEMMA ScaledIs ==
    ASSUME NEW misses \in Nat, NEW places \in Nat \ {0}
    PROVE  /\ Scaled(misses, places) \in Nat
           /\ 10 * Scaled(misses, places) = 200 * misses * Ten[places]
           /\ Scaled(misses, places) = 200 * misses * Ten[places - 1]
           /\ misses # 0 => Scaled(misses, places) >= places
<1>1. PICK t : t = Ten[places - 1]
  OBVIOUS
<1>2. places - 1 \in Nat /\ (places - 1) + 1 = places
  OBVIOUS
<1>3. t \in Nat /\ Ten[places] = 10 * t /\ t >= places
  BY <1>1, <1>2, PowersOfTen, TenGrows
<1>4. PICK mt : mt = misses * t
  OBVIOUS
<1>5. mt \in Nat /\ 200 * misses * t = 200 * mt /\ 200 * misses * (10 * t) = 2000 * mt
  BY <1>3, <1>4
<1>6. misses # 0 => mt >= t
  <2>1. misses # 0 => misses - 1 \in Nat /\ mt = (misses - 1) * t + t /\ (misses - 1) * t \in Nat
    BY <1>3, <1>4
  <2> QED BY <2>1, <1>3, <1>5
<1> QED BY <1>1, <1>3, <1>5, <1>6 DEF Scaled

\* The loop finds the first decimal in which a miss shows.
LEMMA PlacesAreLeast ==
    ASSUME NEW misses \in Nat, misses # 0, NEW all \in Nat, NEW n, n = Places(misses, all)
    PROVE  /\ n \in Nat \ {0}
           /\ 200 * misses * Ten[n] > all
           /\ \A m \in 1..n - 1 : 200 * misses * Ten[m] <= all
<1> DEFINE Positive == Nat \ {0}
           Reaching(places) == Scaled(misses, places) > all \div 10
           From(places) == {q \in Positive : q >= places /\ Reaching(q)}
           first == [places \in Positive |-> CHOOSE q \in From(places) : \A m \in From(places) : q <= m]
           next(f) == [places \in Nat \ {0} |->
                         IF Scaled(misses, places) > all \div 10 THEN places ELSE f[places + 1]]
           F == CHOOSE f : f = next(f)
<1>1. Places(misses, all) = F[1]
  BY DEF Places
<1>2. ASSUME NEW f, NEW places \in Positive
      PROVE  next(f)[places] = IF Reaching(places) THEN places ELSE f[places + 1]
  OBVIOUS
<1>3. ASSUME NEW places \in Positive
      PROVE  Reaching(places) <=> 200 * misses * Ten[places] > all
  <2>1. PICK s : s = Scaled(misses, places)
    OBVIOUS
  <2>2. s \in Nat /\ 10 * s = 200 * misses * Ten[places]
    BY <2>1, ScaledIs
  <2>3. all \div 10 \in Nat /\ (s <= all \div 10 <=> 10 * s <= all)
    BY <2>2, Quotient10
  <2>4. PICK t : t = all \div 10
    OBVIOUS
  <2>5. s > t <=> 10 * s > all
    BY ONLY <2>2, <2>3, <2>4, all \in Nat
  <2> QED BY <2>1, <2>2, <2>4, <2>5
<1>4. ASSUME NEW places \in Positive PROVE From(places) # {}
  <2>1. PICK q : q = all + places
    OBVIOUS
  <2>2. q \in Positive /\ q >= places /\ q > all /\ all \div 10 <= all
    BY <2>1
  <2>3. Scaled(misses, q) \in Nat /\ Scaled(misses, q) >= q
    BY <2>2, ScaledIs
  <2>4. Scaled(misses, q) > all \div 10
    BY <2>2, <2>3, Quotient10
  <2> QED BY <2>2, <2>4
<1>5. ASSUME NEW places \in Positive
      PROVE  first[places] \in From(places) /\ \A m \in From(places) : first[places] <= m
  <2>1. From(places) \in SUBSET Nat
    OBVIOUS
  <2> DEFINE S == From(places)
  <2>2. first[places] = CHOOSE q \in S : \A m \in S : q <= m
    OBVIOUS
  <2>3. S \in SUBSET Nat /\ S # {}
    BY <1>4, <2>1
  <2> HIDE DEF S, first
  <2>4. \E q \in S : \A m \in S : q <= m
    BY <2>3, Least
  <2>5. first[places] \in S /\ \A m \in S : first[places] <= m
    BY <2>2, <2>4
  <2> QED BY <2>5 DEF S
<1>6. first = next(first)
  <2>1. ASSUME NEW places \in Positive, Reaching(places) PROVE first[places] = places
    <3>1. places \in From(places)
      BY <2>1
    <3>2. first[places] \in Nat /\ first[places] >= places
      BY <1>5
    <3> HIDE DEF first, From
    <3>3. first[places] <= places
      BY <1>5, <3>1
    <3> QED BY <3>2, <3>3
  <2>2. ASSUME NEW places \in Positive, ~Reaching(places) PROVE first[places] = first[places + 1]
    <3>1. ASSUME NEW q \in Positive, Reaching(q), q >= places PROVE q >= places + 1
      <4>1. q # places
        BY <2>2, <3>1
      <4> HIDE DEF Reaching
      <4> QED BY <3>1, <4>1
    <3>2. \A q \in Positive : q >= places + 1 => q >= places
      OBVIOUS
    <3>3. From(places) = From(places + 1)
      <4> HIDE DEF Reaching
      <4> QED BY <3>1, <3>2
    <3>4. places + 1 \in Positive
      OBVIOUS
    <3> HIDE DEF From, Reaching
    <3> QED BY <3>3, <3>4
  <2>3. ASSUME NEW places \in Positive PROVE first[places] = next(first)[places]
    <3> HIDE DEF first, next, Reaching
    <3> QED BY <1>2, <2>1, <2>2
  <2>4. first = [places \in Positive |-> first[places]] /\ next(first) = [places \in Positive |-> next(first)[places]]
    OBVIOUS
  <2> HIDE DEF first, next, Positive
  <2> QED BY <2>3, <2>4
<1>7. F = next(F)
  <2> HIDE DEF first, next
  <2> QED BY <1>6
<1> HIDE DEF F
<1>8. ASSUME NEW places \in Positive
      PROVE  F[places] = IF Reaching(places) THEN places ELSE F[places + 1]
  <2> HIDE DEF next, Reaching
  <2> QED BY <1>2, <1>7
<1>9. PICK least : least = first[1]
  OBVIOUS
<1>10. least \in Positive /\ Reaching(least) /\ \A m \in Positive : m < least => ~Reaching(m)
  <2>1. 1 \in Positive
    OBVIOUS
  <2>2. least \in From(1) /\ \A m \in From(1) : least <= m
    <3> HIDE DEF first, From
    <3> QED BY <1>5, <1>9, <2>1
  <2>3. ASSUME NEW m \in Positive, m < least, Reaching(m) PROVE FALSE
    <3>1. m >= 1 /\ least \in Nat /\ ~(least <= m)
      BY <2>2, <2>3
    <3>2. m \in From(1)
      <4> HIDE DEF Reaching
      <4> QED BY <2>3, <3>1
    <3> QED BY <2>2, <3>1, <3>2
  <2> HIDE DEF Reaching, first
  <2> QED BY <2>2, <2>3
<1> HIDE DEF first, next, Reaching, From
<1> DEFINE T == {i \in 0..least - 1 : F[least - i] = least}
<1>11. 0 \in T
  <2>1. least - 0 = least /\ 0 \in 0..least - 1 /\ least \in Positive
    BY <1>10
  <2>2. F[least] = least
    BY <1>8, <1>10
  <2> QED BY <2>1, <2>2
<1>12. ASSUME NEW i \in 1..least - 1, i - 1 \in T PROVE i \in T
  <2>1. /\ least - i \in Positive /\ least - i < least
        /\ (least - i) + 1 = least - (i - 1) /\ i \in 0..least - 1
    BY <1>10
  <2>2. F[least - i] = F[(least - i) + 1]
    <3>1. ~Reaching(least - i)
      BY <1>10, <2>1
    <3> HIDE DEF T, Positive
    <3> QED BY <1>8, <2>1, <3>1
  <2>3. F[least - (i - 1)] = least
    BY <1>12
  <2> QED BY <2>1, <2>2, <2>3
<1>13. F[1] = least
  <2>1. least - 1 \in Nat /\ least - 1 \in 0..least - 1 /\ least - (least - 1) = 1
    BY <1>10
  <2> DEFINE N == least - 1
  <2> HIDE DEF T, N
  <2>2. \A i \in 0..N : i \in T
    BY <1>11, <1>12, <2>1, UpTo DEF N
  <2>3. least - 1 \in T
    BY <2>1, <2>2 DEF N
  <2> QED BY <2>1, <2>3 DEF T
<1>14. n = least
  BY <1>1, <1>13
<1>15. ASSUME NEW m \in 1..n - 1 PROVE 200 * misses * Ten[m] <= all
  <2>1. m \in Positive /\ m < least
    BY <1>10, <1>14
  <2>2. ~(200 * misses * Ten[m] > all)
    BY <1>3, <1>10, <2>1
  <2>3. Ten[m] \in Nat
    BY <2>1, PowersOfTen
  <2>4. 200 * misses * Ten[m] \in Nat
    <3>1. 200 * misses \in Nat
      OBVIOUS
    <3> QED BY <2>3, <3>1
  <2> QED BY <2>2, <2>4
<1>16. 200 * misses * Ten[least] > all
  BY <1>3, <1>10
<1> QED BY <1>10, <1>14, <1>15, <1>16

\* A loss is enough when the missing part is at most a half unit more.
LEMMA CoveredExactly ==
    ASSUME NEW loss \in Nat, NEW gap \in Nat, NEW all \in Nat
    PROVE  Covers(loss, gap, all) <=> 10 * gap <= (2 * loss + 1) * all
<1> DEFINE q == all \div 10
           r == all % 10
<1>1. q \in Nat /\ r \in 0..9 /\ all = 10 * q + r
  BY Quotient10
<1> HIDE DEF q, r
<1>2. PICK f \in Nat : f = 2 * loss + 1
  OBVIOUS
<1>3. f * q \in Nat /\ f * r \in Nat
  BY <1>1
<1>4. f * all = 10 * (f * q) + f * r
  BY <1>1
<1>5. PICK m, n : m = f * q /\ n = f * r
  OBVIOUS
<1>6. n \div 10 \in Nat /\ \A h \in Nat : h <= n \div 10 <=> 10 * h <= n
  BY <1>3, <1>5, Quotient10
<1>7. PICK d : d = n \div 10
  OBVIOUS
<1>8. gap <= m + d <=> 10 * gap <= 10 * m + n
  <2>1. CASE gap >= m
    <3>1. gap - m <= d <=> 10 * (gap - m) <= n
      BY <1>3, <1>5, <1>6, <1>7, <2>1
    <3> QED BY <1>3, <1>5, <1>6, <1>7, <2>1, <3>1
  <2>2. CASE gap < m
    BY <1>3, <1>5, <1>6, <1>7, <2>2
  <2> QED BY <1>3, <1>5, <2>1, <2>2
<1> QED BY <1>2, <1>4, <1>5, <1>7, <1>8 DEF Covers, q, r

\* The loss is the missing part, rounded, when it is less than ten units and more
\* than a half.
LEMMA LossIsRounded ==
    ASSUME NEW gap \in Nat, NEW all \in Nat, gap <= all, 10 * gap > all,
           NEW k, k = Loss(gap, all)
    PROVE  k \in 1..5 /\ (2 * k - 1) * all < 10 * gap /\ 10 * gap <= (2 * k + 1) * all
<1> DEFINE enough == {loss \in 1..4 : Covers(loss, gap, all)}
<1>1. \A loss \in 1..4 : loss \in enough <=> 10 * gap <= (2 * loss + 1) * all
  BY CoveredExactly
<1>2. CASE enough = {}
  <2>1. k = 5
    BY <1>2 DEF Loss
  <2>2. 4 \notin enough /\ 4 \in 1..4
    BY <1>2
  <2>3. ~(10 * gap <= (2 * 4 + 1) * all)
    BY <1>1, <2>2
  <2>4. 9 * all < 10 * gap
    BY <2>3
  <2>5. (2 * 5 - 1) * all = 9 * all /\ (2 * 5 + 1) * all = 11 * all
    OBVIOUS
  <2> QED BY <2>1, <2>4, <2>5
<1>3. CASE enough # {}
  <2>1. k = CHOOSE loss \in enough : \A l \in enough : loss <= l
    BY <1>3 DEF Loss
  <2>2. enough \in SUBSET Nat /\ enough # {} /\ enough \subseteq 1..4
    BY <1>3
  <2> HIDE DEF enough
  <2>3. k \in enough /\ \A l \in enough : k <= l
    <3>1. \E loss \in enough : \A l \in enough : loss <= l
      BY <2>2, Least
    <3> QED BY <2>1, <3>1
  <2>4. k \in 1..4 /\ 10 * gap <= (2 * k + 1) * all
    BY <1>1, <2>2, <2>3
  <2>5. (2 * k - 1) * all < 10 * gap
    <3>1. CASE k = 1
      BY <3>1
    <3>2. CASE k # 1
      <4>1. k - 1 \in 1..4 /\ ~(k <= k - 1) /\ 2 * (k - 1) + 1 = 2 * k - 1
        BY <2>4, <3>2
      <4>2. ~(10 * gap <= (2 * (k - 1) + 1) * all)
        BY <1>1, <2>3, <4>1
      <4>3. PICK x : x = (2 * k - 1) * all
        OBVIOUS
      <4>4. x \in Int /\ ~(10 * gap <= x)
        BY <2>4, <4>1, <4>2, <4>3
      <4> QED BY <4>3, <4>4
    <3> QED BY <3>1, <3>2
  <2> QED BY <2>4, <2>5
<1> QED BY <1>2, <1>3

\* Rounding with ties up, of what is missing
LEMMA RoundedExactly ==
    ASSUME NEW misses \in Nat, NEW all \in Nat, all # 0, NEW places \in Nat, NEW k \in Nat,
           (2 * k - 1) * all < 200 * misses * Ten[places],
           200 * misses * Ten[places] <= (2 * k + 1) * all
    PROVE  Rounded(misses, all, places) = 100 * Ten[places] - k
<1>1. PICK g : g = 200 * misses * Ten[places]
  OBVIOUS
<1>2. g \in Nat
  <2>1. Ten[places] \in Nat /\ 200 * misses \in Nat
    BY PowersOfTen
  <2> QED BY <1>1, <2>1
<1>3. PICK ka : ka = k * all
  OBVIOUS
<1>4. ka \in Nat /\ (2 * k - 1) * all = 2 * ka - all /\ (2 * k + 1) * all = 2 * ka + all /\ (2 * all) * k = 2 * ka
  BY <1>3
<1>5. 2 * ka - all < g /\ g <= 2 * ka + all
  BY <1>1, <1>4
<1>6. PICK d, x : d = 2 * all /\ x = g + all - 1
  OBVIOUS
<1>7. d \in Nat /\ d # 0 /\ x \in Nat /\ 2 * ka <= x /\ x < 2 * ka + d
  BY <1>2, <1>4, <1>5, <1>6
<1>8. d * k <= x /\ x < d * k + d
  BY <1>4, <1>6, <1>7
<1>9. x \div d = k
  BY <1>7, <1>8, Quotient
<1> QED BY <1>1, <1>6, <1>9 DEF Rounded

\* cacheHitPercent() for any number of tokens: the share is rounded to the nearest
\* percent, a tie up; one that is not full and would round to 100 has the fewest
\* decimals with which it does not, rounded as exactly; 100 is shown for a full hit only.
THEOREM CachePercentIsExact ==
    \A all \in Nat \ {0} : \A misses \in 0..all : ExactFor(misses, all)
<1> SUFFICES ASSUME NEW all \in Nat \ {0}, NEW misses \in 0..all PROVE ExactFor(misses, all)
  OBVIOUS
<1> DEFINE hits == all - misses
           r == RoundedInteger(hits, all)
           shown == CacheHitPercent(hits, misses)
<1>1. all \in Nat /\ all # 0 /\ misses \in Nat /\ hits \in Nat /\ hits + misses = all /\ misses <= all
  OBVIOUS
<1>2. Ten[0] = 1 /\ 200 * misses * Ten[0] = 200 * misses
  BY PowersOfTen
<1>3. Best(hits, all, [lower |-> 0, upper |-> 100], r)
  <2> HIDE DEF hits
  <2> QED BY <1>1, RoundedIsBest
<1>4. /\ r \in 0..100
      /\ r = 0 \/ 200 * hits >= (2 * r - 1) * all
      /\ r = 100 \/ 200 * hits < (2 * r + 1) * all
  <2>1. /\ r \in 0..100
        /\ r = 0 \/ Reaches(hits, all, r)
        /\ \A d \in r + 1..100 : ~Reaches(hits, all, d)
    <3> HIDE DEF hits, r
    <3> QED BY <1>3 DEF Best
  <2> HIDE DEF hits, r
  <2>2. r = 0 \/ 200 * hits >= (2 * r - 1) * all
    BY <1>1, <2>1, ReachedExactly
  <2>3. ASSUME r # 100 PROVE 200 * hits < (2 * r + 1) * all
    <3>1. r + 1 \in r + 1..100 /\ r + 1 \in Nat /\ r + 1 # 0 /\ 2 * (r + 1) - 1 = 2 * r + 1
      BY <2>1, <2>3
    <3>2. ~(200 * hits >= (2 * r + 1) * all)
      BY <1>1, <2>1, <3>1, ReachedExactly
    <3>3. PICK x : x = (2 * r + 1) * all
      OBVIOUS
    <3>4. x \in Nat
      BY <1>1, <2>1, <3>3
    <3> QED BY <1>1, <3>2, <3>3, <3>4
  <2> QED BY <2>1, <2>2, <2>3
<1> HIDE DEF r
<1>5. CASE misses = 0
  <2>1. shown = Percent(0, 100)
    BY <1>5 DEF CacheHitPercent
  <2>2. Rounded(misses, all, 0) = 100 * Ten[0] - 0
    <3>1. (2 * 0 - 1) * all < 200 * misses * Ten[0] /\ 200 * misses * Ten[0] <= (2 * 0 + 1) * all
      BY <1>1, <1>2, <1>5
    <3> QED BY <1>1, <3>1, RoundedExactly
  <2>3. shown.value = 100 /\ shown.places = 0
    BY <2>1 DEF Percent
  <2> HIDE DEF shown
  <2> QED BY <1>2, <1>5, <2>1, <2>2, <2>3 DEF ExactFor, shown, hits
<1>6. CASE misses # 0 /\ r < 100
  <2>1. shown = Percent(0, r)
    BY <1>1, <1>6 DEF CacheHitPercent, r
  <2>2. shown.value = r /\ shown.places = 0
    BY <2>1 DEF Percent
  <2>3. PICK k : k = 100 - r
    OBVIOUS
  <2>4. PICK ra : ra = r * all
    OBVIOUS
  <2>5. /\ k \in Nat /\ r \in Nat /\ ra \in Nat /\ (2 * k - 1) * all = 199 * all - 2 * ra
        /\ (2 * k + 1) * all = 201 * all - 2 * ra
        /\ (2 * r - 1) * all = 2 * ra - all /\ (2 * r + 1) * all = 2 * ra + all
    BY <1>1, <1>4, <1>6, <2>3, <2>4
  <2>6. 200 * hits = 200 * all - 200 * misses
    BY <1>1
  <2>7. (r = 0 => ra = 0) /\ r # 100 /\ misses <= all
    BY <1>1, <1>4, <1>6, <2>4
  <2>8. (2 * k - 1) * all < 200 * misses /\ 200 * misses <= (2 * k + 1) * all
    <3>1. 200 * hits < 2 * ra + all /\ (r = 0 \/ 200 * hits >= 2 * ra - all)
      BY <1>4, <2>5, <2>7
    <3> HIDE DEF hits
    <3>2. 199 * all - 2 * ra < 200 * misses /\ 200 * misses <= 201 * all - 2 * ra
      BY ONLY <1>1, <2>5, <2>6, <2>7, <3>1
    <3> QED BY <2>5, <3>2
  <2>9. Rounded(misses, all, 0) = 100 * Ten[0] - k
    <3>1. /\ 0 \in Nat /\ k \in Nat
          /\ (2 * k - 1) * all < 200 * misses * Ten[0] /\ 200 * misses * Ten[0] <= (2 * k + 1) * all
      BY <1>2, <2>5, <2>8
    <3> QED BY ONLY <1>1, <3>1, RoundedExactly
  <2>10. Rounded(misses, all, 0) = r
    BY <1>2, <1>4, <2>3, <2>9
  <2>11. shown.value < 100 * Ten[shown.places] /\ 0..shown.places - 1 = {}
    BY <1>2, <1>6, <2>2
  <2> HIDE DEF shown
  <2> QED BY <1>6, <2>2, <2>10, <2>11 DEF ExactFor, shown, hits
<1>7. CASE misses # 0 /\ ~(r < 100)
  <2>1. PICK p : p = Places(misses, all)
    OBVIOUS
  <2>2. PICK gap : gap = Scaled(misses, p)
    OBVIOUS
  <2>3. PICK k : k = Loss(gap, all)
    OBVIOUS
  <2>4. shown = Percent(p, Ten[p + 2] - k)
    BY <1>1, <1>7, <2>1, <2>2, <2>3 DEF CacheHitPercent, r
  <2>5. shown.value = Ten[p + 2] - k /\ shown.places = p
    BY <2>4 DEF Percent
  <2>6. /\ p \in Nat \ {0} /\ 200 * misses * Ten[p] > all
        /\ \A m \in 1..p - 1 : 200 * misses * Ten[m] <= all
    BY <1>1, <1>7, <2>1, PlacesAreLeast
  <2>7. 200 * misses <= all
    <3>1. r = 100
      BY <1>4, <1>7
    <3>2. 200 * hits >= 199 * all
      <4>1. (2 * 100 - 1) * all = 199 * all
        OBVIOUS
      <4> QED BY <1>4, <3>1, <4>1
    <3> QED BY <1>1, <3>2
  <2>8. \A m \in 0..p - 1 : 200 * misses * Ten[m] \in Nat /\ 200 * misses * Ten[m] <= all
    <3> SUFFICES ASSUME NEW m \in 0..p - 1
                 PROVE  200 * misses * Ten[m] \in Nat /\ 200 * misses * Ten[m] <= all
      OBVIOUS
    <3>1. 200 * misses * Ten[m] <= all
      <4>1. m \in 1..p - 1 \/ m = 0
        BY <2>6
      <4> QED BY <1>2, <2>6, <2>7, <4>1
    <3>2. Ten[m] \in Nat /\ 200 * misses \in Nat
      BY <1>1, <2>6, PowersOfTen
    <3> QED BY <3>1, <3>2
  <2>9. \A m \in 0..p - 1 : Rounded(misses, all, m) = 100 * Ten[m]
    <3> SUFFICES ASSUME NEW m \in 0..p - 1 PROVE Rounded(misses, all, m) = 100 * Ten[m]
      OBVIOUS
    <3>1. PICK g : g = 200 * misses * Ten[m]
      OBVIOUS
    <3>2. (2 * 0 - 1) * all < g /\ g <= (2 * 0 + 1) * all
      BY <1>1, <2>8, <3>1
    <3>3. m \in Nat /\ Ten[m] \in Nat
      BY <2>6, PowersOfTen
    <3>4. Rounded(misses, all, m) = 100 * Ten[m] - 0
      BY <1>1, <3>1, <3>2, <3>3, RoundedExactly
    <3> QED BY <3>3, <3>4
  <2>10. /\ gap \in Nat /\ 10 * gap = 200 * misses * Ten[p]
         /\ gap = 200 * misses * Ten[p - 1]
    BY <1>1, <2>2, <2>6, ScaledIs
  <2>11. gap <= all
    <3>1. p - 1 \in 0..p - 1
      BY <2>6
    <3> QED BY <2>8, <2>10, <3>1
  <2>12. k \in 1..5 /\ (2 * k - 1) * all < 10 * gap /\ 10 * gap <= (2 * k + 1) * all
    <3>1. gap \in Nat /\ 10 * gap > all
      BY <2>6, <2>10
    <3> QED BY ONLY <1>1, <2>3, <2>11, <3>1, LossIsRounded
  <2>13. Rounded(misses, all, p) = 100 * Ten[p] - k
    <3>1. /\ p \in Nat /\ k \in Nat
          /\ (2 * k - 1) * all < 200 * misses * Ten[p] /\ 200 * misses * Ten[p] <= (2 * k + 1) * all
      <4>1. p \in Nat /\ k \in Nat
        BY <2>6, <2>12
      <4> QED BY ONLY <4>1, <2>10, <2>12
    <3> QED BY ONLY <1>1, <3>1, RoundedExactly
  <2>14. Ten[p + 2] = 100 * Ten[p] /\ Ten[p] \in Nat
    <3>1. p \in Nat /\ p + 1 \in Nat /\ (p + 1) + 1 = p + 2
      BY <2>6
    <3>2. Ten[p + 1] = 10 * Ten[p] /\ Ten[p + 2] = 10 * Ten[p + 1] /\ Ten[p] \in Nat
      BY <3>1, PowersOfTen
    <3> QED BY <3>2
  <2>15. shown.value = Rounded(misses, all, p) /\ shown.value < 100 * Ten[p]
    BY <2>5, <2>12, <2>13, <2>14
  <2> HIDE DEF shown
  <2> QED BY <1>7, <2>5, <2>9, <2>15 DEF ExactFor, shown, hits
<1> QED BY <1>4, <1>5, <1>6, <1>7

-----------------------------------------------------------------------------
(* The framing *)

LEMMA PowersOfRadix ==
    Power[0] = 1 /\ \A n \in Nat : Power[n] \in Nat \ {0} /\ Power[n + 1] = Radix * Power[n]
<1>1. Radix \in Nat /\ Radix # 0
  BY FramesAssumption
<1>2. \E power : IsPower(Radix, power)
  BY <1>1, PowersExist
<1>3. IsPower(Radix, Power)
  BY <1>2 DEF IsPower, Power
<1> QED BY <1>1, <1>3, PowersAre

\* A function over 0..n that takes each value from the one before it
Keeps(n, next, S) == \A i \in 1..n : \A x \in S[i - 1] : next[<<x, i>>] \in S[i]
Follows(f, n, base, next, S) ==
    /\ f = [i \in 0..n |-> f[i]] /\ f[0] = base
    /\ \A i \in 0..n : f[i] \in S[i]
    /\ \A i \in 1..n : f[i] = next[<<f[i - 1], i>>]
LEMMA Recursion ==
    ASSUME NEW n \in Nat, NEW base, NEW next, NEW S, base \in S[0], Keeps(n, next, S)
    PROVE  \E f : Follows(f, n, base, next, S)
<1> USE DEF Keeps, Follows
<1> DEFINE Good(m, f) == Follows(f, m, base, next, S)
           T == {m \in 0..n : \E f : Good(m, f)}
<1>1. 0 \in T
  <2>1. Good(0, [i \in 0..0 |-> base])
    OBVIOUS
  <2> HIDE DEF Good
  <2> QED BY <2>1
<1>2. ASSUME NEW m \in 1..n, m - 1 \in T PROVE m \in T
  <2>1. PICK f : Good(m - 1, f)
    BY <1>2
  <2> DEFINE g == [i \in 0..m |-> IF i = m THEN next[<<f[m - 1], m>>] ELSE f[i]]
  <2>2. g = [i \in 0..m |-> g[i]] /\ g[0] = base
    BY <2>1
  <2>3. m - 1 \in 0..m - 1 /\ f[m - 1] \in S[m - 1]
    BY <2>1
  <2>4. ASSUME NEW i \in 0..m PROVE g[i] \in S[i]
    <3>1. CASE i = m
      BY <2>3, <3>1
    <3>2. CASE i # m
      <4>1. i \in 0..m - 1
        BY <3>2
      <4> QED BY <2>1, <3>2, <4>1
    <3> QED BY <3>1, <3>2
  <2>5. ASSUME NEW i \in 1..m PROVE g[i] = next[<<g[i - 1], i>>]
    <3>1. i - 1 \in 0..m /\ i - 1 # m /\ i \in 0..m
      OBVIOUS
    <3>2. g[i - 1] = f[i - 1]
      BY <3>1
    <3>3. CASE i = m
      BY <3>1, <3>2, <3>3
    <3>4. CASE i # m
      <4>1. i \in 1..m - 1
        BY <3>4
      <4>2. f[i] = next[<<f[i - 1], i>>]
        BY <2>1, <4>1
      <4>3. g[i] = f[i]
        BY <3>1, <3>4
      <4> QED BY <3>2, <4>2, <4>3
    <3> QED BY <3>3, <3>4
  <2> HIDE DEF g
  <2>6. Good(m, g)
    BY <2>2, <2>4, <2>5
  <2>7. m \in 0..n
    OBVIOUS
  <2> HIDE DEF Good
  <2> QED BY <2>6, <2>7
<1> HIDE DEF T, Good
<1>3. \A m \in 0..n : m \in T
  BY <1>1, <1>2, UpTo
<1>4. n \in T
  BY <1>3
<1> HIDE DEF Follows
<1> QED BY <1>4 DEF T, Good

LEMMA LengthIs ==
    ASSUME NEW header \in Seq(Byte)
    PROVE  \E v : /\ \A i \in 0..Len(header) : v[i] \in Nat
                  /\ v[0] = 0
                  /\ \A i \in 1..Len(header) : v[i] = v[i - 1] * Radix + header[i]
                  /\ Length(header) = v[Len(header)]
<1> DEFINE n == Len(header)
           go(value) == [i \in 0..Len(header) |-> IF i = 0 THEN 0 ELSE value[i - 1] * Radix + header[i]]
           V == CHOOSE value : value = go(value)
           S == [i \in 0..n |-> Nat]
           next == [p \in Nat \X (1..n) |-> p[1] * Radix + header[p[2]]]
<1>1. n \in Nat /\ Radix \in Nat
  BY FramesAssumption
<1>2. Length(header) = V[n]
  BY DEF Length
<1>3. ASSUME NEW x \in Nat, NEW i \in 1..n
      PROVE  next[<<x, i>>] = x * Radix + header[i] /\ x * Radix + header[i] \in Nat
  <2>1. header[i] \in Nat
    BY ElementOfSeq, <1>1 DEF Byte
  <2> QED BY <1>1, <2>1
<1>4. \E f : Follows(f, n, 0, next, S)
  <2>1. 0 \in S[0]
    BY <1>1
  <2>2. ASSUME NEW i \in 1..n, NEW x \in S[i - 1] PROVE next[<<x, i>>] \in S[i]
    <3>1. S[i] = Nat /\ S[i - 1] = Nat
      BY <1>1
    <3> HIDE DEF S, next
    <3> QED BY <1>3, <3>1
  <2> HIDE DEF S, next, n
  <2>3. Keeps(n, next, S)
    BY <2>2 DEF Keeps
  <2> QED BY <1>1, <2>1, <2>3, Recursion
<1>5. PICK f : /\ f = [i \in 0..n |-> f[i]] /\ f[0] = 0
               /\ \A i \in 0..n : f[i] \in Nat
               /\ \A i \in 1..n : f[i] = next[<<f[i - 1], i>>]
  <2>1. \A i \in 0..n : S[i] = Nat
    OBVIOUS
  <2> HIDE DEF S, next, n
  <2> QED BY <1>4, <2>1 DEF Follows
<1>6. f = go(f)
  <2>1. ASSUME NEW i \in 1..n PROVE f[i] = f[i - 1] * Radix + header[i]
    <3>1. i - 1 \in 0..n
      BY <1>1
    <3> HIDE DEF next, n
    <3> QED BY <1>3, <1>5, <3>1
  <2>2. \A i \in 0..n : i # 0 => i \in 1..n
    BY <1>1
  <2>3. \A i \in 0..n : f[i] = IF i = 0 THEN 0 ELSE f[i - 1] * Radix + header[i]
    <3> HIDE DEF next, n
    <3> QED BY <1>5, <2>1, <2>2
  <2> HIDE DEF next
  <2> QED BY <1>5, <2>3
<1>7. V = go(V)
  <2> HIDE DEF go
  <2> QED BY <1>6
<1> HIDE DEF V, next, S
<1>8. V[0] = 0 /\ \A i \in 1..n : V[i] = V[i - 1] * Radix + header[i]
  <2>1. 0 \in 0..n /\ \A i \in 1..n : i \in 0..n /\ i # 0
    BY <1>1
  <2> QED BY <1>7, <2>1
<1>9. \A i \in 0..n : V[i] \in Nat
  <2> DEFINE T == {i \in 0..n : V[i] \in Nat}
  <2>1. 0 \in T
    BY <1>1, <1>8
  <2>2. ASSUME NEW i \in 1..n, i - 1 \in T PROVE i \in T
    <3>1. V[i] = V[i - 1] * Radix + header[i] /\ V[i - 1] \in Nat /\ i \in 0..n
      BY <1>1, <1>8, <2>2
    <3>2. V[i - 1] * Radix + header[i] \in Nat
      <4> HIDE DEF n
      <4> QED BY <1>3, <3>1
    <3> QED BY <3>1, <3>2
  <2> HIDE DEF T, n
  <2>3. \A i \in 0..n : i \in T
    BY <1>1, <2>1, <2>2, UpTo
  <2> QED BY <2>3 DEF T
<1> HIDE DEF go
<1> QED BY <1>2, <1>8, <1>9

LEMMA Divides ==
    ASSUME NEW x \in Nat, NEW d \in Nat, d # 0
    PROVE  x \div d \in Nat /\ d * (x \div d) <= x /\ x < d * (x \div d) + d
<1>1. PICK q, r : q = x \div d /\ r = x % d
  OBVIOUS
<1>2. q \in Int /\ r \in 0..(d - 1) /\ x = d * q + r
  BY <1>1
<1>3. ~(q < 0)
  <2> SUFFICES ASSUME q < 0 PROVE FALSE
    OBVIOUS
  <2>1. PICK e \in Nat : q = -(e + 1)
    <3>1. -(q + 1) \in Nat /\ q = -(-(q + 1) + 1)
      BY <1>2
    <3> QED BY <3>1
  <2>2. d * q = -(d * e) - d /\ d * e \in Nat
    BY <2>1
  <2> QED BY <1>2, <2>2
<1>4. d * q \in Int
  BY <1>2
<1> QED BY <1>1, <1>2, <1>3, <1>4

LEMMA QuotientOfQuotient ==
    ASSUME NEW x \in Nat, NEW d \in Nat, d # 0, NEW e \in Nat, e # 0
    PROVE  (x \div d) \div e = x \div (e * d)
<1>1. PICK m, a : m = x \div d /\ a = m \div e
  OBVIOUS
<1>2. m \in Nat /\ d * m <= x /\ x < d * m + d
  BY <1>1, Divides
<1>3. a \in Nat /\ e * a <= m /\ m < e * a + e
  BY <1>1, <1>2, Divides
<1>4. PICK b \in Nat, c \in Nat : m = e * a + b /\ b + 1 + c = e
  <2>1. PICK p : p = e * a
    OBVIOUS
  <2>2. p \in Nat
    BY <1>3, <2>1
  <2>3. m - p \in Nat /\ e - 1 - (m - p) \in Nat /\ m = p + (m - p) /\ (m - p) + 1 + (e - 1 - (m - p)) = e
    BY <1>2, <1>3, <2>1, <2>2
  <2> QED BY <2>1, <2>3
<1>5. d * m = (e * d) * a + d * b /\ e * d = d * b + d + d * c
      /\ d * b \in Nat /\ d * c \in Nat /\ e * d \in Nat /\ (e * d) * a \in Nat
  BY <1>3, <1>4
<1>6. PICK f, y : f = e * d /\ y = f * a
  OBVIOUS
<1>7. y <= x /\ x < y + f /\ f # 0 /\ f \in Nat
  BY <1>2, <1>5, <1>6
<1>8. x \div f = a
  BY <1>3, <1>6, <1>7, Quotient
<1> QED BY <1>1, <1>6, <1>8

\* The digits of a number
LEMMA Digit ==
    ASSUME NEW x \in Nat, NEW k \in Nat
    PROVE  /\ x \div Power[k] \in Nat
           /\ (x \div Power[k]) \div Radix = x \div Power[k + 1]
           /\ (x \div Power[k]) % Radix \in Byte
           /\ x \div Power[k] = (x \div Power[k + 1]) * Radix + ((x \div Power[k]) % Radix)
<1>1. Radix \in Nat /\ Radix # 0
  BY FramesAssumption
<1>2. PICK p : p = Power[k]
  OBVIOUS
<1>3. p \in Nat /\ p # 0 /\ Power[k + 1] = Radix * p
  BY <1>2, PowersOfRadix
<1>4. PICK m : m = x \div p
  OBVIOUS
<1>5. m \in Nat
  BY <1>3, <1>4, Divides
<1>6. m \div Radix = x \div (Radix * p)
  BY <1>1, <1>3, <1>4, QuotientOfQuotient
<1>7. m % Radix \in 0..(Radix - 1) /\ m = Radix * (m \div Radix) + (m % Radix) /\ m \div Radix \in Nat
  BY <1>1, <1>5, Divides
<1>8. Radix * (m \div Radix) = (m \div Radix) * Radix
  BY <1>1, <1>7
<1> QED BY <1>2, <1>3, <1>4, <1>5, <1>6, <1>7, <1>8 DEF Byte

LEMMA HeaderIs ==
    ASSUME NEW length \in Nat
    PROVE  /\ Header(length) \in Seq(Byte) /\ Len(Header(length)) = HeaderBytes
           /\ \A i \in 1..HeaderBytes : Header(length)[i] = (length \div Power[HeaderBytes - i]) % Radix
<1>1. HeaderBytes \in Nat
  BY FramesAssumption
<1>2. ASSUME NEW i \in 1..HeaderBytes PROVE (length \div Power[HeaderBytes - i]) % Radix \in Byte
  <2>1. HeaderBytes - i \in Nat
    BY <1>1
  <2> QED BY <2>1, Digit
<1>3. Header(length) = [i \in 1..HeaderBytes |-> (length \div Power[HeaderBytes - i]) % Radix]
  BY DEF Header
<1>4. Header(length) \in [1..HeaderBytes -> Byte]
  BY <1>2, <1>3
<1> HIDE DEF Header
<1>5. Header(length) \in Seq(Byte) /\ Len(Header(length)) = HeaderBytes
  BY <1>1, <1>4
<1> QED BY <1>3, <1>5

\* A header says the length that it was made of.
LEMMA LengthOfHeader ==
    ASSUME NEW length \in Nat, length < Power[HeaderBytes]
    PROVE  Length(Header(length)) = length
<1> DEFINE n == HeaderBytes
           header == Header(length)
<1>1. n \in Nat /\ Radix \in Nat /\ Radix # 0
  BY FramesAssumption
<1>2. header \in Seq(Byte) /\ Len(header) = n /\ \A i \in 1..n : header[i] = (length \div Power[n - i]) % Radix
  BY HeaderIs
<1> HIDE DEF header, n
<1>3. PICK v : /\ \A i \in 0..n : v[i] \in Nat
               /\ v[0] = 0
               /\ \A i \in 1..n : v[i] = v[i - 1] * Radix + header[i]
               /\ Length(header) = v[n]
  BY <1>2, LengthIs
<1> DEFINE T == {i \in 0..n : v[i] = length \div Power[n - i]}
<1>4. 0 \in T
  <2>1. Power[n] \in Nat /\ Power[n] # 0
    BY <1>1, PowersOfRadix
  <2>2. PICK p : p = Power[n]
    OBVIOUS
  <2>3. p * 0 <= length /\ length < p * 0 + p
    BY <2>1, <2>2 DEF n
  <2>4. length \div p = 0
    BY <2>1, <2>2, <2>3, Quotient
  <2>5. n - 0 = n /\ 0 \in 0..n
    BY <1>1
  <2> QED BY <1>3, <2>2, <2>4, <2>5
<1>5. ASSUME NEW i \in 1..n, i - 1 \in T PROVE i \in T
  <2>1. n - i \in Nat /\ (n - i) + 1 = n - (i - 1) /\ i \in 0..n
    BY <1>1
  <2>2. v[i - 1] = length \div Power[(n - i) + 1]
    BY <1>5, <2>1
  <2>3. length \div Power[n - i] = (length \div Power[(n - i) + 1]) * Radix + ((length \div Power[n - i]) % Radix)
    BY <2>1, Digit
  <2>4. v[i] = v[i - 1] * Radix + header[i] /\ header[i] = (length \div Power[n - i]) % Radix
    BY <1>2, <1>3
  <2>5. v[i] = length \div Power[n - i]
    BY <2>2, <2>3, <2>4
  <2> QED BY <2>1, <2>5
<1> HIDE DEF T
<1>6. \A i \in 0..n : i \in T
  BY <1>1, <1>4, <1>5, UpTo
<1>7. n \in T /\ n - n = 0
  BY <1>1, <1>6
<1>8. v[n] = length \div Power[0]
  BY <1>7 DEF T
<1>9. length \div 1 = length
  OBVIOUS
<1> QED BY <1>3, <1>8, <1>9, PowersOfRadix DEF header

\* A complete header is that of the length it says.
LEMMA HeaderOfLength ==
    ASSUME NEW header \in Seq(Byte), Len(header) = HeaderBytes
    PROVE  Length(header) \in Nat /\ Header(Length(header)) = header
<1> DEFINE n == HeaderBytes
<1>1. n \in Nat /\ Radix \in Nat /\ Radix # 0
  BY FramesAssumption
<1>2. PICK v : /\ \A i \in 0..n : v[i] \in Nat
               /\ v[0] = 0
               /\ \A i \in 1..n : v[i] = v[i - 1] * Radix + header[i]
               /\ Length(header) = v[n]
  BY LengthIs
<1> HIDE DEF n
<1>3. PICK length : length = v[n]
  OBVIOUS
<1>4. length \in Nat
  BY <1>1, <1>2, <1>3
<1>5. ASSUME NEW i \in 1..n PROVE v[i] \div Radix = v[i - 1] /\ v[i] % Radix = header[i]
  <2>1. PICK a, b : a = v[i - 1] /\ b = header[i]
    OBVIOUS
  <2>2. a \in Nat
    BY <1>1, <1>2, <2>1
  <2>3. b \in 0..(Radix - 1)
    <3>1. i \in 1..Len(header)
      BY DEF n
    <3>2. header[i] \in Byte
      BY <3>1, ElementOfSeq
    <3> QED BY <2>1, <3>2 DEF Byte
  <2>4. v[i] = a * Radix + b
    BY <1>2, <2>1
  <2>5. PICK x : x = v[i]
    OBVIOUS
  <2>6. Radix * a = a * Radix /\ a * Radix \in Nat
    BY <1>1, <2>2
  <2>7. x \in Nat /\ Radix * a <= x /\ x < Radix * a + Radix
    BY <1>1, <2>3, <2>4, <2>5, <2>6
  <2>8. x \div Radix = a
    BY <1>1, <2>2, <2>7, Quotient
  <2>9. x = Radix * (x \div Radix) + (x % Radix) /\ x % Radix \in Int
    BY <1>1, <2>7
  <2>10. x % Radix = b
    BY <2>3, <2>4, <2>5, <2>6, <2>8, <2>9
  <2> QED BY <2>1, <2>5, <2>8, <2>10
<1> DEFINE T == {k \in 0..n : length \div Power[k] = v[n - k]}
<1>6. 0 \in T
  <2>1. length \div 1 = length /\ n - 0 = n /\ 0 \in 0..n
    BY <1>1, <1>4
  <2> QED BY <1>3, <2>1, PowersOfRadix
<1>7. ASSUME NEW k \in 1..n, k - 1 \in T PROVE k \in T
  <2>1. k - 1 \in Nat /\ (k - 1) + 1 = k /\ k \in 0..n /\ n - (k - 1) \in 1..n
        /\ (n - (k - 1)) - 1 = n - k
    BY <1>1
  <2>2. length \div Power[k] = (length \div Power[k - 1]) \div Radix
    BY <1>4, <2>1, Digit
  <2>3. length \div Power[k - 1] = v[n - (k - 1)]
    BY <1>7
  <2>4. v[n - (k - 1)] \div Radix = v[n - k]
    BY <1>5, <2>1
  <2> QED BY <2>1, <2>2, <2>3, <2>4
<1> HIDE DEF T
<1>8. \A k \in 0..n : k \in T
  BY <1>1, <1>6, <1>7, UpTo
<1>9. ASSUME NEW i \in 1..n PROVE (length \div Power[n - i]) % Radix = header[i]
  <2>1. n - i \in 0..n /\ n - (n - i) = i
    BY <1>1
  <2>2. length \div Power[n - i] = v[n - (n - i)]
    BY <1>8, <2>1 DEF T
  <2> QED BY <1>5, <2>1, <2>2
<1>10. header = [i \in 1..n |-> header[i]]
  BY DEF n
<1>11. Header(length) = [i \in 1..n |-> (length \div Power[n - i]) % Radix]
  BY DEF Header, n
<1>12. Header(length) = header
  <2> HIDE DEF Header
  <2> QED BY <1>9, <1>10, <1>11
<1> QED BY <1>2, <1>3, <1>4, <1>12

\* What is known of concatenation, for any sequences of a set
LEMMA Concatenation ==
    ASSUME NEW S
    PROVE  /\ <<>> \in Seq(S)
           /\ \A a, b \in Seq(S) : a \o b \in Seq(S) /\ Len(a \o b) = Len(a) + Len(b)
           /\ \A a, b, c \in Seq(S) : (a \o b) \o c = a \o (b \o c)
           /\ \A a \in Seq(S) : a \o <<>> = a /\ <<>> \o a = a
           /\ \A a, b, c \in Seq(S) : a \o b = a \o c => b = c
<1>1. \A a, b \in Seq(S) : a \o b \in Seq(S) /\ Len(a \o b) = Len(a) + Len(b)
  BY ConcatProperties
<1>2. \A a, b, c \in Seq(S) : (a \o b) \o c = a \o (b \o c)
  BY ConcatAssociative
<1>3. <<>> \in Seq(S) /\ \A a \in Seq(S) : a \o <<>> = a /\ <<>> \o a = a
  BY ConcatEmptySeq, EmptySeq
<1>4. \A a, b, c \in Seq(S) : a \o b = a \o c => b = c
  BY ConcatSimplifications
<1> QED BY <1>1, <1>2, <1>3, <1>4

\* Two ways to cut a sequence in two
LEMMA TwoCuts ==
    ASSUME NEW S, NEW u \in Seq(S), NEW s \in Seq(S), NEW w \in Seq(S), NEW t \in Seq(S),
           u \o s = w \o t, Len(u) <= Len(w)
    PROVE  \E d \in Seq(S) : w = u \o d /\ s = d \o t
<1> DEFINE m == Len(u)
           n == Len(w)
           d == SubSeq(w, m + 1, n)
<1>1. m \in Nat /\ n \in Nat /\ m <= n
  OBVIOUS
<1>2. \A i \in 1..m : w[i] = u[i]
  <2> SUFFICES ASSUME NEW i \in 1..m PROVE w[i] = u[i]
    OBVIOUS
  <2>1. (u \o s)[i] = u[i] /\ (w \o t)[i] = w[i]
    BY <1>1, ConcatProperties
  <2> QED BY <2>1
<1>3. SubSeq(w, 1, m) = u
  <2>1. SubSeq(w, 1, m) \in Seq(S) /\ Len(SubSeq(w, 1, m)) = m /\ \A i \in 1..m : SubSeq(w, 1, m)[i] = w[i]
    BY <1>1
  <2> QED BY <1>2, <2>1, SeqEqual
<1>4. d \in Seq(S) /\ w = u \o d
  <2>1. SubSeq(w, 1, m) \o SubSeq(w, m + 1, n) = SubSeq(w, 1, n)
    <3>1. 1 \in 1..Len(w) + 1 /\ m \in 1 - 1..Len(w) /\ n \in m..Len(w)
      BY <1>1
    <3> HIDE DEF m, n
    <3> QED BY <3>1, ConcatAdjacentSubSeq
  <2>2. SubSeq(w, 1, n) = w
    BY SubSeqFull
  <2>3. d \in Seq(S)
    BY <1>1
  <2> QED BY <1>3, <2>1, <2>2, <2>3
<1> HIDE DEF d
<1>5. w \o t = u \o (d \o t) /\ d \o t \in Seq(S)
  BY ONLY <1>4, u \in Seq(S), t \in Seq(S), Concatenation
<1>6. s = d \o t
  <2>1. \A a, b, c \in Seq(S) : a \o b = a \o c => b = c
    BY Concatenation
  <2>2. u \o s = u \o (d \o t)
    BY ONLY <1>5, u \o s = w \o t
  <2> QED BY ONLY <1>5, <2>1, <2>2, u \in Seq(S), s \in Seq(S), Zenon
<1> QED BY <1>4, <1>6

LEMMA SameCut ==
    ASSUME NEW S, NEW u \in Seq(S), NEW s \in Seq(S), NEW w \in Seq(S), NEW t \in Seq(S),
           u \o s = w \o t, Len(u) = Len(w)
    PROVE  u = w /\ s = t
<1>1. \A i \in 1..Len(u) : u[i] = w[i]
  <2> SUFFICES ASSUME NEW i \in 1..Len(u) PROVE u[i] = w[i]
    OBVIOUS
  <2>1. (u \o s)[i] = u[i] /\ (w \o t)[i] = w[i]
    BY ConcatProperties
  <2> QED BY <2>1
<1>2. u = w
  BY <1>1, SeqEqual
<1>3. \A a, b, c \in Seq(S) : a \o b = a \o c => b = c
  BY Concatenation
<1>4. u \o s = u \o t
  BY ONLY <1>2, u \o s = w \o t
<1> QED BY <1>2, <1>3, <1>4, Zenon

\* The partial joins of a sequence of pieces
Pieces == Seq(Seq(Byte))
Joins(pieces, j) ==
    /\ \A i \in 0..Len(pieces) : j[i] \in Seq(Byte)
    /\ j[0] = <<>>
    /\ \A i \in 1..Len(pieces) : j[i] = j[i - 1] \o pieces[i]

LEMMA JoinedIs ==
    ASSUME NEW pieces \in Pieces
    PROVE  Joined(pieces) \in Seq(Byte) /\ \E j : Joins(pieces, j) /\ Joined(pieces) = j[Len(pieces)]
<1> DEFINE n == Len(pieces)
           go(joined) == [i \in 0..Len(pieces) |-> IF i = 0 THEN <<>> ELSE joined[i - 1] \o pieces[i]]
           V == CHOOSE joined : joined = go(joined)
           S == [i \in 0..n |-> Seq(Byte)]
           next == [p \in Seq(Byte) \X (1..n) |-> p[1] \o pieces[p[2]]]
<1>1. n \in Nat
  BY DEF Pieces
<1>2. Joined(pieces) = V[n]
  BY DEF Joined
<1>3. ASSUME NEW x \in Seq(Byte), NEW i \in 1..n
      PROVE  next[<<x, i>>] = x \o pieces[i] /\ x \o pieces[i] \in Seq(Byte)
  <2>1. pieces[i] \in Seq(Byte)
    BY ElementOfSeq DEF Pieces
  <2> QED BY <2>1, ConcatProperties
<1>4. \E f : Follows(f, n, <<>>, next, S)
  <2>1. <<>> \in S[0]
    BY <1>1
  <2>2. ASSUME NEW i \in 1..n, NEW x \in S[i - 1] PROVE next[<<x, i>>] \in S[i]
    <3>1. S[i] = Seq(Byte) /\ S[i - 1] = Seq(Byte)
      BY <1>1
    <3> HIDE DEF S, next
    <3> QED BY <1>3, <3>1
  <2> HIDE DEF S, next, n
  <2>3. Keeps(n, next, S)
    BY <2>2 DEF Keeps
  <2> QED BY <1>1, <2>1, <2>3, Recursion
<1>5. PICK f : /\ f = [i \in 0..n |-> f[i]] /\ f[0] = <<>>
               /\ \A i \in 0..n : f[i] \in Seq(Byte)
               /\ \A i \in 1..n : f[i] = next[<<f[i - 1], i>>]
  <2>1. \A i \in 0..n : S[i] = Seq(Byte)
    OBVIOUS
  <2> HIDE DEF S, next, n
  <2> QED BY <1>4, <2>1 DEF Follows
<1>6. f = go(f)
  <2>1. ASSUME NEW i \in 1..n PROVE f[i] = f[i - 1] \o pieces[i]
    <3>1. i - 1 \in 0..n
      BY <1>1
    <3> HIDE DEF next, n
    <3> QED BY <1>3, <1>5, <3>1
  <2>2. \A i \in 0..n : i # 0 => i \in 1..n
    BY <1>1
  <2>3. \A i \in 0..n : f[i] = IF i = 0 THEN <<>> ELSE f[i - 1] \o pieces[i]
    <3> HIDE DEF next, n
    <3> QED BY <1>5, <2>1, <2>2
  <2> HIDE DEF next
  <2> QED BY <1>5, <2>3
<1>7. V = go(V)
  <2> HIDE DEF go
  <2> QED BY <1>6
<1> HIDE DEF V, next, S
<1>8. V[0] = <<>> /\ \A i \in 1..n : V[i] = V[i - 1] \o pieces[i]
  <2>1. 0 \in 0..n /\ \A i \in 1..n : i \in 0..n /\ i # 0
    BY <1>1
  <2> QED BY <1>7, <2>1
<1>9. \A i \in 0..n : V[i] \in Seq(Byte)
  <2> HIDE DEF go, n
  <2> DEFINE T == {i \in 0..n : V[i] \in Seq(Byte)}
  <2>1. 0 \in T
    <3>1. V[0] = <<>> /\ <<>> \in Seq(Byte) /\ 0 \in 0..n
      BY <1>1, <1>8, EmptySeq
    <3> QED BY ONLY <3>1 DEF T
  <2>2. ASSUME NEW i \in 1..n, i - 1 \in T PROVE i \in T
    <3>1. V[i] = V[i - 1] \o pieces[i] /\ V[i - 1] \in Seq(Byte) /\ i \in 0..n
      <4>1. V[i] = V[i - 1] \o pieces[i]
        BY <1>8
      <4>2. V[i - 1] \in Seq(Byte)
        BY ONLY <2>2 DEF T
      <4> QED BY <1>1, <4>1, <4>2
    <3>2. V[i - 1] \o pieces[i] \in Seq(Byte)
      <4> HIDE DEF n
      <4> QED BY <1>3, <3>1
    <3> QED BY <3>1, <3>2
  <2> HIDE DEF T, n
  <2>3. \A i \in 0..n : i \in T
    BY <1>1, <2>1, <2>2, UpTo
  <2> QED BY <2>3 DEF T
<1>10. n \in 0..n
  BY <1>1
<1> HIDE DEF go
<1> QED BY <1>2, <1>8, <1>9, <1>10 DEF Joins

\* Joins of the same pieces are the same.
LEMMA JoinsAgree ==
    ASSUME NEW pieces \in Pieces, NEW j, Joins(pieces, j),
           NEW more \in Pieces, NEW k, Joins(more, k),
           NEW n \in 0..Len(pieces), n <= Len(more), \A i \in 1..n : pieces[i] = more[i]
    PROVE  j[n] = k[n]
<1> DEFINE T == {i \in 0..n : j[i] = k[i]}
<1>1. n \in Nat /\ Len(pieces) \in Nat /\ Len(more) \in Nat
  BY DEF Pieces
<1>2. 0 \in T
  BY <1>1 DEF Joins
<1>3. ASSUME NEW i \in 1..n, i - 1 \in T PROVE i \in T
  <2>1. i \in 1..Len(pieces) /\ i \in 1..Len(more) /\ i \in 0..n
    BY <1>1
  <2>2. j[i] = j[i - 1] \o pieces[i] /\ k[i] = k[i - 1] \o more[i]
    BY <2>1 DEF Joins
  <2>3. j[i - 1] = k[i - 1] /\ pieces[i] = more[i]
    BY <1>3
  <2> QED BY <2>1, <2>2, <2>3
<1> HIDE DEF T
<1>4. \A i \in 0..n : i \in T
  BY <1>1, <1>2, <1>3, UpTo
<1>5. n \in T
  BY <1>1, <1>4
<1> QED BY <1>5 DEF T

LEMMA JoinedAppend ==
    ASSUME NEW pieces \in Pieces, NEW piece \in Seq(Byte)
    PROVE  Append(pieces, piece) \in Pieces /\ Joined(Append(pieces, piece)) = Joined(pieces) \o piece
<1> DEFINE more == Append(pieces, piece)
           n == Len(pieces)
<1>1. more \in Pieces /\ Len(more) = n + 1 /\ n \in Nat /\ more[n + 1] = piece
      /\ \A i \in 1..n : more[i] = pieces[i]
  BY AppendProperties DEF Pieces
<1> HIDE DEF more, n
<1>2. PICK j : Joins(pieces, j) /\ Joined(pieces) = j[n]
  BY JoinedIs DEF n
<1>3. PICK k : Joins(more, k) /\ Joined(more) = k[n + 1]
  BY <1>1, JoinedIs
<1>4. n \in 0..Len(pieces) /\ n <= Len(more) /\ n + 1 \in 1..Len(more) /\ (n + 1) - 1 = n
  BY <1>1 DEF n
<1>5. j[n] = k[n]
  BY <1>1, <1>2, <1>3, <1>4, JoinsAgree
<1>6. k[n + 1] = k[n] \o more[n + 1]
  BY <1>3, <1>4 DEF Joins
<1> QED BY <1>1, <1>2, <1>3, <1>5, <1>6 DEF more

LEMMA JoinedEmpty == <<>> \in Pieces /\ Joined(<<>>) = <<>>
<1>1. <<>> \in Pieces /\ Len(<<>>) = 0
  BY EmptySeq DEF Pieces
<1> QED BY <1>1, JoinedIs DEF Joins

LEMMA JoinedConcat ==
    ASSUME NEW pieces \in Pieces, NEW more \in Pieces
    PROVE  pieces \o more \in Pieces /\ Joined(pieces \o more) = Joined(pieces) \o Joined(more)
<1> DEFINE all == pieces \o more
           m == Len(pieces)
           n == Len(more)
<1>1. /\ all \in Pieces /\ Len(all) = m + n /\ m \in Nat /\ n \in Nat
      /\ \A i \in 1..m : all[i] = pieces[i]
      /\ \A i \in 1..n : all[m + i] = more[i]
  BY ConcatProperties DEF Pieces
<1>2. pieces \in Pieces /\ more \in Pieces
  OBVIOUS
<1> HIDE DEF all, m, n
<1>3. PICK j : Joins(pieces, j) /\ Joined(pieces) = j[m]
  BY JoinedIs DEF m
<1>4. PICK k : Joins(more, k) /\ Joined(more) = k[n]
  BY JoinedIs DEF n
<1>5. PICK l : Joins(all, l) /\ Joined(all) = l[m + n]
  BY <1>1, JoinedIs
<1> DEFINE T == {i \in 0..n : l[m + i] = j[m] \o k[i]}
<1>6. j[m] \in Seq(Byte)
  BY <1>1, <1>3 DEF Joins, m
<1>7. 0 \in T
  <2>1. m \in 0..Len(pieces) /\ m <= Len(all) /\ m + 0 = m /\ 0 \in 0..n
    BY <1>1 DEF m
  <2>2. j[m] = l[m]
    BY <1>1, <1>3, <1>5, <2>1, JoinsAgree
  <2>3. k[0] = <<>>
    BY <1>4 DEF Joins
  <2> QED BY <1>6, <2>1, <2>2, <2>3, ConcatEmptySeq
<1>8. ASSUME NEW i \in 1..n, i - 1 \in T PROVE i \in T
  <2>1. m + i \in 1..Len(all) /\ (m + i) - 1 = m + (i - 1) /\ i \in 1..Len(more) /\ i - 1 \in 0..Len(more) /\ i \in 0..n
    BY <1>1 DEF n
  <2>2. l[m + i] = l[m + (i - 1)] \o all[m + i]
    BY <1>5, <2>1 DEF Joins
  <2>3. k[i] = k[i - 1] \o more[i] /\ k[i - 1] \in Seq(Byte)
    BY <1>4, <2>1 DEF Joins
  <2>4. more[i] \in Seq(Byte)
    BY <2>1, ElementOfSeq DEF Pieces
  <2>5. l[m + (i - 1)] = j[m] \o k[i - 1] /\ all[m + i] = more[i]
    BY <1>1, <1>8
  <2>6. (j[m] \o k[i - 1]) \o more[i] = j[m] \o (k[i - 1] \o more[i])
    <3>1. \A a, b, c \in Seq(Byte) : (a \o b) \o c = a \o (b \o c)
      BY Concatenation
    <3> QED BY ONLY <1>6, <2>3, <2>4, <3>1, Zenon
  <2> QED BY <2>1, <2>2, <2>3, <2>5, <2>6
<1> HIDE DEF T
<1>9. \A i \in 0..n : i \in T
  BY <1>1, <1>7, <1>8, UpTo
<1>10. l[m + n] = j[m] \o k[n]
  <2>1. n \in T
    BY <1>1, <1>9
  <2> QED BY <2>1 DEF T
<1> QED BY <1>1, <1>3, <1>4, <1>5, <1>10 DEF all

\* The join goes on behind each of its pieces.
LEMMA JoinGoesOn ==
    ASSUME NEW pieces \in Pieces, NEW j, Joins(pieces, j), NEW k \in 0..Len(pieces)
    PROVE  \E r \in Seq(Byte) : j[Len(pieces)] = j[k] \o r
<1> DEFINE n == Len(pieces)
           T == {i \in 0..n - k : \E r \in Seq(Byte) : j[k + i] = j[k] \o r}
<1>1. n \in Nat /\ k \in 0..n /\ n - k \in Nat /\ j[k] \in Seq(Byte)
  BY DEF Pieces, Joins
<1>2. 0 \in T
  <2>1. j[k + 0] = j[k] \o <<>> /\ <<>> \in Seq(Byte) /\ 0 \in 0..n - k
    BY <1>1, ConcatEmptySeq
  <2> HIDE DEF n
  <2> QED BY <2>1
<1>3. ASSUME NEW i \in 1..n - k, i - 1 \in T PROVE i \in T
  <2>1. PICK r \in Seq(Byte) : j[k + (i - 1)] = j[k] \o r
    BY <1>3
  <2>2. k + i \in 1..n /\ (k + i) - 1 = k + (i - 1) /\ i \in 0..n - k
    BY <1>1
  <2>3. j[k + i] = j[k + (i - 1)] \o pieces[k + i] /\ pieces[k + i] \in Seq(Byte)
    BY <2>2, ElementOfSeq DEF Joins, Pieces
  <2>4. j[k + i] = j[k] \o (r \o pieces[k + i]) /\ r \o pieces[k + i] \in Seq(Byte)
    <3>1. /\ \A a, b, c \in Seq(Byte) : (a \o b) \o c = a \o (b \o c)
          /\ \A a, b \in Seq(Byte) : a \o b \in Seq(Byte)
      BY Concatenation
    <3>2. j[k + i] = (j[k] \o r) \o pieces[k + i]
      BY ONLY <2>1, <2>3
    <3> QED BY ONLY <1>1, <2>1, <2>3, <3>1, <3>2, Zenon
  <2> HIDE DEF n
  <2> QED BY <2>2, <2>4
<1> HIDE DEF T
<1>4. \A i \in 0..n - k : i \in T
  <2> HIDE DEF n
  <2> QED BY <1>1, <1>2, <1>3, UpTo
<1>5. n - k \in T /\ k + (n - k) = n
  BY <1>1, <1>4
<1> QED BY <1>5 DEF T

\* A stream that is cut anywhere joins again.
LEMMA CutKeeps ==
    ASSUME NEW chunks \in Pieces, NEW byte \in Byte, NEW before
    PROVE  /\ Cut(chunks, byte, before) \in Pieces
           /\ Joined(Cut(chunks, byte, before)) = Joined(chunks) \o <<byte>>
<1>1. CASE before \/ chunks = <<>>
  <2>1. Cut(chunks, byte, before) = Append(chunks, <<byte>>) /\ <<byte>> \in Seq(Byte)
    BY <1>1 DEF Cut
  <2> QED BY <2>1, JoinedAppend
<1>2. CASE ~(before \/ chunks = <<>>)
  <2> DEFINE n == Len(chunks)
             more == Cut(chunks, byte, before)
  <2>1. more = [chunks EXCEPT ![n] = Append(chunks[n], byte)]
    BY <1>2 DEF Cut
  <2>2. n \in Nat /\ n \in 1..Len(chunks) /\ n - 1 \in 0..Len(chunks)
    BY <1>2, EmptySeq DEF Pieces
  <2>3. chunks[n] \in Seq(Byte) /\ Append(chunks[n], byte) \in Seq(Byte)
        /\ Append(chunks[n], byte) = chunks[n] \o <<byte>> /\ <<byte>> \in Seq(Byte)
    <3>1. chunks[n] \in Seq(Byte)
      BY <2>2, ElementOfSeq DEF Pieces
    <3> HIDE DEF n
    <3> QED BY <3>1, AppendProperties, AppendIsConcat
  <2>4. /\ more \in Pieces /\ Len(more) = n
        /\ \A i \in 1..n : more[i] = IF i = n THEN Append(chunks[n], byte) ELSE chunks[i]
    BY <2>1, <2>2, <2>3, ExceptSeq DEF Pieces
  <2> HIDE DEF n, more
  <2>5. PICK j : Joins(chunks, j) /\ Joined(chunks) = j[n]
    BY JoinedIs DEF n
  <2>6. PICK k : Joins(more, k) /\ Joined(more) = k[n]
    BY <2>4, JoinedIs
  <2>7. n - 1 <= Len(more) /\ \A i \in 1..n - 1 : chunks[i] = more[i]
    BY <2>2, <2>4
  <2>8. j[n - 1] = k[n - 1]
    BY <2>2, <2>4, <2>5, <2>6, <2>7, JoinsAgree
  <2>9. j[n] = j[n - 1] \o chunks[n] /\ k[n] = k[n - 1] \o more[n] /\ j[n - 1] \in Seq(Byte)
    <3>1. n \in 1..Len(more)
      BY <2>2, <2>4
    <3>2. j[n] = j[n - 1] \o chunks[n] /\ j[n - 1] \in Seq(Byte)
      BY ONLY <2>2, <2>5 DEF Joins
    <3>3. k[n] = k[n - 1] \o more[n]
      BY ONLY <2>6, <3>1 DEF Joins
    <3> QED BY <3>2, <3>3
  <2>10. more[n] = chunks[n] \o <<byte>>
    BY <2>2, <2>3, <2>4
  <2>11. k[n] = j[n - 1] \o (chunks[n] \o <<byte>>)
    BY ONLY <2>8, <2>9, <2>10
  <2>12. (j[n - 1] \o chunks[n]) \o <<byte>> = j[n - 1] \o (chunks[n] \o <<byte>>)
    <3>1. \A a, b, c \in Seq(Byte) : (a \o b) \o c = a \o (b \o c)
      BY Concatenation
    <3> QED BY ONLY <2>3, <2>9, <3>1, Zenon
  <2>13. Joined(more) = Joined(chunks) \o <<byte>>
    BY ONLY <2>5, <2>6, <2>9, <2>11, <2>12
  <2> QED BY <2>4, <2>13 DEF more
<1> QED BY <1>1, <1>2

LEMMA CutAtIs ==
    ASSUME NEW bytes \in Seq(Byte), NEW positions
    PROVE  CutAt(bytes, positions) \in Pieces /\ Joined(CutAt(bytes, positions)) = bytes
<1> DEFINE n == Len(bytes)
           go(chunks) == [i \in 0..Len(bytes) |->
                            IF i = 0 THEN <<>> ELSE Cut(chunks[i - 1], bytes[i], i - 1 \in positions)]
           V == CHOOSE chunks : chunks = go(chunks)
           Cuts(i) == {c \in Pieces : Joined(c) = SubSeq(bytes, 1, i)}
           S == [i \in 0..n |-> Cuts(i)]
           next == [p \in Pieces \X (1..n) |-> Cut(p[1], bytes[p[2]], p[2] - 1 \in positions)]
<1>1. n \in Nat
  OBVIOUS
<1>2. CutAt(bytes, positions) = V[n]
  BY DEF CutAt
<1>3. ASSUME NEW i \in 1..n, NEW x \in Cuts(i - 1)
      PROVE  /\ next[<<x, i>>] = Cut(x, bytes[i], i - 1 \in positions)
             /\ Cut(x, bytes[i], i - 1 \in positions) \in Cuts(i)
  <2>1. bytes[i] \in Byte
    BY ElementOfSeq
  <2>2. x \in Pieces /\ Joined(x) = SubSeq(bytes, 1, i - 1)
    OBVIOUS
  <2>3. 1 \in 1..Len(bytes) /\ i \in 1..Len(bytes)
    BY <1>1
  <2>4. SubSeq(bytes, 1, i) = SubSeq(bytes, 1, i - 1) \o <<bytes[i]>>
    BY <2>3, SubSeqRecursiveSecond
  <2>5. PICK b, before : b = bytes[i] /\ before = (i - 1 \in positions)
    OBVIOUS
  <2>6. Cut(x, b, before) \in Pieces /\ Joined(Cut(x, b, before)) = Joined(x) \o <<b>>
    BY <2>1, <2>2, <2>5, CutKeeps
  <2>7. Joined(Cut(x, b, before)) = SubSeq(bytes, 1, i)
    BY ONLY <2>2, <2>4, <2>5, <2>6
  <2>8. Cut(x, b, before) \in Cuts(i)
    BY <2>6, <2>7
  <2>9. next[<<x, i>>] = Cut(x, bytes[i], i - 1 \in positions)
    BY <2>2
  <2> HIDE DEF next, Cuts
  <2> QED BY <2>5, <2>8, <2>9
<1>4. <<>> \in Cuts(0)
  <2>1. SubSeq(bytes, 1, 0) = <<>>
    BY SubSeqEmpty
  <2> QED BY <2>1, JoinedEmpty
<1>5. \E f : Follows(f, n, <<>>, next, S)
  <2>1. <<>> \in S[0]
    BY <1>1, <1>4
  <2>2. ASSUME NEW i \in 1..n, NEW x \in S[i - 1] PROVE next[<<x, i>>] \in S[i]
    <3>1. S[i] = Cuts(i) /\ S[i - 1] = Cuts(i - 1)
      BY <1>1
    <3> HIDE DEF S, next, Cuts
    <3> QED BY <1>3, <3>1
  <2> HIDE DEF S, next, n
  <2>3. Keeps(n, next, S)
    BY <2>2 DEF Keeps
  <2> QED BY <1>1, <2>1, <2>3, Recursion
<1>6. PICK f : /\ f = [i \in 0..n |-> f[i]] /\ f[0] = <<>>
               /\ \A i \in 0..n : f[i] \in Cuts(i)
               /\ \A i \in 1..n : f[i] = next[<<f[i - 1], i>>]
  <2>1. \A i \in 0..n : S[i] = Cuts(i)
    OBVIOUS
  <2> HIDE DEF S, next, n, Cuts
  <2> QED BY <1>5, <2>1 DEF Follows
<1> HIDE DEF Cuts
<1>7. f = go(f)
  <2>1. ASSUME NEW i \in 1..n PROVE f[i] = Cut(f[i - 1], bytes[i], i - 1 \in positions)
    <3>1. i - 1 \in 0..n
      BY <1>1
    <3> HIDE DEF next, n
    <3> QED BY <1>3, <1>6, <3>1
  <2>2. \A i \in 0..n : i # 0 => i \in 1..n
    BY <1>1
  <2>3. \A i \in 0..n : f[i] = IF i = 0 THEN <<>> ELSE Cut(f[i - 1], bytes[i], i - 1 \in positions)
    <3> HIDE DEF next, n
    <3> QED BY <1>6, <2>1, <2>2
  <2> HIDE DEF next
  <2> QED BY <1>6, <2>3
<1>8. V = go(V)
  <2> HIDE DEF go
  <2> QED BY <1>7
<1> HIDE DEF V, S
<1>9. V[0] = <<>> /\ \A i \in 1..n : V[i] = Cut(V[i - 1], bytes[i], i - 1 \in positions)
  <2>1. 0 \in 0..n /\ \A i \in 1..n : i \in 0..n /\ i # 0
    BY <1>1
  <2> QED BY <1>8, <2>1
<1>10. V[n] \in Cuts(n)
  <2> HIDE DEF go, n, next
  <2> DEFINE T == {i \in 0..n : V[i] \in Cuts(i)}
  <2>1. 0 \in T
    <3>1. V[0] = <<>> /\ 0 \in 0..n
      BY <1>1, <1>9
    <3> QED BY ONLY <1>4, <3>1 DEF T
  <2>2. ASSUME NEW i \in 1..n, i - 1 \in T PROVE i \in T
    <3>1. V[i] = Cut(V[i - 1], bytes[i], i - 1 \in positions) /\ V[i - 1] \in Cuts(i - 1) /\ i \in 0..n
      BY <1>1, <1>9, <2>2
    <3>2. V[i] \in Cuts(i)
      BY <1>3, <3>1
    <3> QED BY <3>1, <3>2
  <2> HIDE DEF T
  <2>3. \A i \in 0..n : i \in T
    BY <1>1, <2>1, <2>2, UpTo
  <2>4. n \in T
    BY <1>1, <2>3
  <2> QED BY <2>4 DEF T
<1>11. SubSeq(bytes, 1, n) = bytes
  BY SubSeqFull
<1> QED BY <1>2, <1>10, <1>11 DEF Cuts

\* The frames of payloads that are not too large
Allowed == {payload \in Seq(Byte) : Len(payload) <= MaxPayload}
Encoded(payloads) == [i \in DOMAIN payloads |-> Encode(payloads[i])]

LEMMA EncodeIs ==
    ASSUME NEW payload \in Allowed
    PROVE  /\ payload \in Seq(Byte) /\ Len(payload) \in Nat /\ Len(payload) <= MaxPayload
           /\ Header(Len(payload)) \in Seq(Byte) /\ Len(Header(Len(payload))) = HeaderBytes
           /\ Length(Header(Len(payload))) = Len(payload)
           /\ Encode(payload) \in Seq(Byte) /\ Encode(payload) = Header(Len(payload)) \o payload
<1>1. payload \in Seq(Byte) /\ Len(payload) \in Nat /\ Len(payload) <= MaxPayload
  BY DEF Allowed
<1>2. Header(Len(payload)) \in Seq(Byte) /\ Len(Header(Len(payload))) = HeaderBytes
  BY <1>1, HeaderIs
<1>3. Len(payload) < Power[HeaderBytes]
  <2>1. HeaderBytes \in Nat /\ MaxPayload \in Nat /\ MaxPayload < Power[HeaderBytes]
    BY FramesAssumption
  <2>2. Power[HeaderBytes] \in Nat
    BY <2>1, PowersOfRadix
  <2> QED BY <1>1, <2>1, <2>2
<1>4. Length(Header(Len(payload))) = Len(payload)
  BY <1>1, <1>3, LengthOfHeader
<1>5. Encode(payload) \in Seq(Byte) /\ Encode(payload) = Header(Len(payload)) \o payload
  BY <1>1, <1>2, ConcatProperties DEF Encode
<1> QED BY <1>1, <1>2, <1>4, <1>5

LEMMA EncodedIs ==
    ASSUME NEW payloads \in Seq(Allowed)
    PROVE  /\ Encoded(payloads) \in Pieces /\ Len(Encoded(payloads)) = Len(payloads)
           /\ \A i \in 1..Len(payloads) : Encoded(payloads)[i] = Encode(payloads[i]) /\ payloads[i] \in Allowed
           /\ Flatten(payloads) = Joined(Encoded(payloads)) /\ Flatten(payloads) \in Seq(Byte)
<1>1. \A i \in 1..Len(payloads) : payloads[i] \in Allowed /\ Encode(payloads[i]) \in Seq(Byte)
  BY ElementOfSeq, EncodeIs
<1>2. Len(payloads) \in Nat /\ DOMAIN payloads = 1..Len(payloads)
  BY LenProperties
<1>3. Encoded(payloads) \in [1..Len(payloads) -> Seq(Byte)]
  BY <1>1, <1>2 DEF Encoded
<1>4. Encoded(payloads) \in Pieces /\ Len(Encoded(payloads)) = Len(payloads)
  BY <1>2, <1>3 DEF Pieces
<1>5. Flatten(payloads) = Joined(Encoded(payloads))
  BY DEF Flatten, Encoded
<1>6. Flatten(payloads) \in Seq(Byte)
  BY <1>4, <1>5, JoinedIs
<1> QED BY <1>1, <1>2, <1>4, <1>5, <1>6 DEF Encoded

LEMMA FlattenAppend ==
    ASSUME NEW payloads \in Seq(Allowed), NEW payload \in Allowed
    PROVE  /\ Append(payloads, payload) \in Seq(Allowed)
           /\ Flatten(Append(payloads, payload)) = Flatten(payloads) \o Encode(payload)
<1> DEFINE more == Append(payloads, payload)
           n == Len(payloads)
<1>1. /\ more \in Seq(Allowed) /\ Len(more) = n + 1 /\ n \in Nat /\ more[n + 1] = payload
      /\ \A i \in 1..n : more[i] = payloads[i]
  BY AppendProperties
<1>2. Encode(payload) \in Seq(Byte)
  BY EncodeIs
<1>3. /\ Encoded(payloads) \in Pieces /\ Len(Encoded(payloads)) = n
      /\ \A i \in 1..n : Encoded(payloads)[i] = Encode(payloads[i])
      /\ Flatten(payloads) = Joined(Encoded(payloads))
  BY EncodedIs
<1> HIDE DEF more, n
<1>4. /\ Encoded(more) \in Pieces /\ Len(Encoded(more)) = n + 1
      /\ \A i \in 1..n + 1 : Encoded(more)[i] = Encode(more[i])
      /\ Flatten(more) = Joined(Encoded(more))
  BY <1>1, EncodedIs
<1>5. PICK x, y, z : x = Encoded(payloads) /\ y = Encoded(more) /\ z = Encode(payload)
  OBVIOUS
<1>6. y = Append(x, z)
  <2>1. /\ Append(x, z) \in Seq(Seq(Byte)) /\ Len(Append(x, z)) = n + 1
        /\ \A i \in 1..n : Append(x, z)[i] = x[i]
        /\ Append(x, z)[n + 1] = z
    BY <1>2, <1>3, <1>5, AppendProperties DEF Pieces
  <2>2. \A i \in 1..n + 1 : y[i] = Append(x, z)[i]
    <3> SUFFICES ASSUME NEW i \in 1..n + 1 PROVE y[i] = Append(x, z)[i]
      OBVIOUS
    <3>1. i = n + 1 \/ i \in 1..n
      BY <1>1
    <3> QED BY <1>1, <1>3, <1>4, <1>5, <2>1, <3>1
  <2>3. y \in Seq(Seq(Byte)) /\ Len(y) = n + 1
    BY <1>4, <1>5 DEF Pieces
  <2> QED BY <2>1, <2>2, <2>3, SeqEqual
<1>7. Joined(y) = Joined(x) \o z
  BY <1>2, <1>3, <1>5, <1>6, JoinedAppend
<1> QED BY <1>1, <1>3, <1>4, <1>5, <1>7 DEF more

LEMMA FlattenConcat ==
    ASSUME NEW payloads \in Seq(Allowed), NEW more \in Seq(Allowed)
    PROVE  /\ payloads \o more \in Seq(Allowed)
           /\ Flatten(payloads \o more) = Flatten(payloads) \o Flatten(more)
<1> DEFINE all == payloads \o more
           m == Len(payloads)
           n == Len(more)
<1>1. /\ all \in Seq(Allowed) /\ Len(all) = m + n /\ m \in Nat /\ n \in Nat
      /\ \A i \in 1..m + n : all[i] = IF i <= m THEN payloads[i] ELSE more[i - m]
  BY ConcatProperties
<1>2. /\ Encoded(payloads) \in Pieces /\ Len(Encoded(payloads)) = m
      /\ \A i \in 1..m : Encoded(payloads)[i] = Encode(payloads[i])
      /\ Flatten(payloads) = Joined(Encoded(payloads))
  BY EncodedIs
<1>3. /\ Encoded(more) \in Pieces /\ Len(Encoded(more)) = n
      /\ \A i \in 1..n : Encoded(more)[i] = Encode(more[i])
      /\ Flatten(more) = Joined(Encoded(more))
  BY EncodedIs
<1> HIDE DEF all, m, n
<1>4. /\ Encoded(all) \in Pieces /\ Len(Encoded(all)) = m + n
      /\ \A i \in 1..m + n : Encoded(all)[i] = Encode(all[i])
      /\ Flatten(all) = Joined(Encoded(all))
  BY <1>1, EncodedIs
<1>5. PICK x, y, z : x = Encoded(payloads) /\ y = Encoded(more) /\ z = Encoded(all)
  OBVIOUS
<1>6. z = x \o y
  <2>1. /\ x \o y \in Seq(Seq(Byte)) /\ Len(x \o y) = m + n
        /\ \A i \in 1..m + n : (x \o y)[i] = IF i <= m THEN x[i] ELSE y[i - m]
    BY <1>2, <1>3, <1>5, ConcatProperties DEF Pieces
  <2>2. ASSUME NEW i \in 1..m + n PROVE z[i] = (x \o y)[i]
    <3>1. CASE i <= m
      <4>1. i \in 1..m
        BY <1>1, <3>1
      <4> QED BY <1>1, <1>2, <1>4, <1>5, <2>1, <3>1, <4>1
    <3>2. CASE ~(i <= m)
      <4>1. i - m \in 1..n
        BY <1>1, <3>2
      <4> QED BY <1>1, <1>3, <1>4, <1>5, <2>1, <3>2, <4>1
    <3> QED BY <3>1, <3>2
  <2>3. z \in Seq(Seq(Byte)) /\ Len(z) = m + n
    BY <1>4, <1>5 DEF Pieces
  <2> QED BY <2>1, <2>2, <2>3, SeqEqual
<1>7. Joined(z) = Joined(x) \o Joined(y)
  BY <1>2, <1>3, <1>5, <1>6, JoinedConcat
<1> QED BY <1>1, <1>2, <1>3, <1>4, <1>5, <1>7 DEF all

LEMMA FlattenEmpty == <<>> \in Seq(Allowed) /\ Flatten(<<>>) = <<>>
<1>1. <<>> \in Seq(Allowed) /\ Len(<<>>) = 0
  BY EmptySeq
<1>2. Encoded(<<>>) \in Pieces /\ Len(Encoded(<<>>)) = 0 /\ Flatten(<<>>) = Joined(Encoded(<<>>))
  BY <1>1, EncodedIs
<1>3. Encoded(<<>>) = <<>>
  BY <1>2, EmptySeq DEF Pieces
<1> QED BY <1>1, <1>2, <1>3, JoinedEmpty

\* Sequences of bytes behind one another
Cat(a, b) == a \o b
LEMMA CatEmpty == <<>> \in Seq(Byte) /\ \A a \in Seq(Byte) : Cat(a, <<>>) = a /\ Cat(<<>>, a) = a
  BY Concatenation DEF Cat
LEMMA CatIs == \A a, b \in Seq(Byte) : Cat(a, b) \in Seq(Byte) /\ Len(Cat(a, b)) = Len(a) + Len(b)
  BY Concatenation DEF Cat
LEMMA CatAssociates == \A a, b, c \in Seq(Byte) : Cat(Cat(a, b), c) = Cat(a, Cat(b, c))
<1>1. \A a, b, c \in Seq(Byte) : (a \o b) \o c = a \o (b \o c)
  BY Concatenation
<1> QED BY <1>1, Zenon DEF Cat
LEMMA CatCancels == \A a, b, c \in Seq(Byte) : Cat(a, b) = Cat(a, c) => b = c
<1>1. \A a, b, c \in Seq(Byte) : a \o b = a \o c => b = c
  BY Concatenation
<1> QED BY <1>1, Zenon DEF Cat
LEMMA CatSame ==
    \A a, b, c, d \in Seq(Byte) : Cat(a, b) = Cat(c, d) /\ Len(a) = Len(c) => a = c /\ b = d
<1> SUFFICES ASSUME NEW a \in Seq(Byte), NEW b \in Seq(Byte), NEW c \in Seq(Byte), NEW d \in Seq(Byte),
                    Cat(a, b) = Cat(c, d), Len(a) = Len(c)
             PROVE  a = c /\ b = d
  OBVIOUS
<1>1. a \o b = c \o d
  BY DEF Cat
<1> QED BY ONLY a \in Seq(Byte), b \in Seq(Byte), c \in Seq(Byte), d \in Seq(Byte),
                Len(a) = Len(c), <1>1, SameCut

LEMMA FrameIs ==
    \A payload \in Allowed : \E h \in Seq(Byte) :
        /\ payload \in Seq(Byte) /\ Len(payload) \in Nat /\ Len(payload) <= MaxPayload
        /\ Len(h) = HeaderBytes /\ Length(h) = Len(payload)
        /\ Encode(payload) = Cat(h, payload) /\ Encode(payload) \in Seq(Byte)
<1> SUFFICES ASSUME NEW payload \in Allowed
             PROVE  \E h \in Seq(Byte) :
        /\ payload \in Seq(Byte) /\ Len(payload) \in Nat /\ Len(payload) <= MaxPayload
        /\ Len(h) = HeaderBytes /\ Length(h) = Len(payload)
        /\ Encode(payload) = Cat(h, payload) /\ Encode(payload) \in Seq(Byte)
  OBVIOUS
<1>1. Encode(payload) = Cat(Header(Len(payload)), payload)
  BY EncodeIs DEF Cat
<1> QED BY <1>1, EncodeIs
LEMMA FlattenIs ==
    /\ \A payloads \in Seq(Allowed) : Flatten(payloads) \in Seq(Byte)
    /\ \A payloads \in Seq(Allowed), payload \in Allowed :
          /\ Append(payloads, payload) \in Seq(Allowed)
          /\ Flatten(Append(payloads, payload)) = Cat(Flatten(payloads), Encode(payload))
    /\ \A payloads, more \in Seq(Allowed) :
          /\ payloads \o more \in Seq(Allowed)
          /\ Flatten(payloads \o more) = Cat(Flatten(payloads), Flatten(more))
<1>1. ASSUME NEW payloads \in Seq(Allowed) PROVE Flatten(payloads) \in Seq(Byte)
  BY EncodedIs, JoinedIs
<1>2. ASSUME NEW payloads \in Seq(Allowed), NEW payload \in Allowed
      PROVE  /\ Append(payloads, payload) \in Seq(Allowed)
             /\ Flatten(Append(payloads, payload)) = Cat(Flatten(payloads), Encode(payload))
  BY FlattenAppend DEF Cat
<1>3. ASSUME NEW payloads \in Seq(Allowed), NEW more \in Seq(Allowed)
      PROVE  /\ payloads \o more \in Seq(Allowed)
             /\ Flatten(payloads \o more) = Cat(Flatten(payloads), Flatten(more))
  BY FlattenConcat DEF Cat
<1> QED BY <1>1, <1>2, <1>3, Zenon

\* A complete header in front of a frame is the header of that frame.
LEMMA HeaderInFront ==
    ASSUME NEW header \in Seq(Byte), Len(header) = HeaderBytes, NEW s \in Seq(Byte),
           NEW payload \in Allowed, NEW t \in Seq(Byte), Cat(header, s) = Cat(Encode(payload), t)
    PROVE  Length(header) = Len(payload) /\ s = Cat(payload, t)
<1>1. PICK h \in Seq(Byte) :
        /\ payload \in Seq(Byte) /\ Len(h) = HeaderBytes /\ Length(h) = Len(payload)
        /\ Encode(payload) = Cat(h, payload)
  BY FrameIs
<1>2. Cat(payload, t) \in Seq(Byte) /\ Cat(Cat(h, payload), t) = Cat(h, Cat(payload, t))
  BY <1>1, CatIs, CatAssociates
<1>3. header = h /\ s = Cat(payload, t)
  BY <1>1, <1>2, CatSame
<1> QED BY <1>1, <1>3

LEMMA SameEncode ==
    ASSUME NEW p \in Allowed, NEW q \in Allowed, NEW s \in Seq(Byte), NEW t \in Seq(Byte),
           Cat(Encode(p), s) = Cat(Encode(q), t)
    PROVE  p = q
<1>1. PICK h \in Seq(Byte) :
        /\ p \in Seq(Byte) /\ Len(h) = HeaderBytes /\ Length(h) = Len(p)
        /\ Encode(p) = Cat(h, p)
  BY FrameIs
<1>2. Cat(p, s) \in Seq(Byte) /\ Cat(h, Cat(p, s)) = Cat(Encode(q), t)
  BY <1>1, CatIs, CatAssociates
<1>3. Length(h) = Len(q) /\ Cat(p, s) = Cat(q, t) /\ q \in Seq(Byte)
  BY <1>1, <1>2, HeaderInFront, FrameIs
<1> QED BY <1>1, <1>3, CatSame

\* A stream of frames goes on behind each of them with the next one.
LEMMA NextFrame ==
    ASSUME NEW payloads \in Seq(Allowed), NEW j, Joins(Encoded(payloads), j),
           NEW i \in 1..Len(payloads), NEW s \in Seq(Byte)
    PROVE  /\ j[i - 1] \in Seq(Byte) /\ payloads[i] \in Allowed
           /\ \E r \in Seq(Byte) :
                Cat(j[Len(payloads)], s) = Cat(j[i - 1], Cat(Encode(payloads[i]), Cat(r, s)))
<1> DEFINE n == Len(payloads)
<1>1. /\ Encoded(payloads) \in Pieces /\ Len(Encoded(payloads)) = n
      /\ Encoded(payloads)[i] = Encode(payloads[i]) /\ payloads[i] \in Allowed /\ n \in Nat
  BY EncodedIs, LenProperties
<1> HIDE DEF n
<1>2. i \in 1..n
  BY DEF n
<1>3. PICK r \in Seq(Byte) : j[n] = j[i] \o r
  <2>1. i \in 0..Len(Encoded(payloads))
    BY <1>1, <1>2
  <2>2. \E r \in Seq(Byte) : j[Len(Encoded(payloads))] = j[i] \o r
    BY <1>1, <2>1, JoinGoesOn
  <2> QED BY <1>1, <2>2
<1>4. PICK x, e : x = j[i - 1] /\ e = Encode(payloads[i])
  OBVIOUS
<1>5. j[i] = Cat(x, e) /\ x \in Seq(Byte) /\ e \in Seq(Byte) /\ j[n] = Cat(j[i], r)
  <2>1. i \in 1..Len(Encoded(payloads)) /\ i - 1 \in 0..Len(Encoded(payloads))
    BY <1>1, <1>2
  <2>2. j[i] = j[i - 1] \o Encoded(payloads)[i] /\ j[i - 1] \in Seq(Byte)
    BY ONLY Joins(Encoded(payloads), j), <2>1 DEF Joins
  <2>3. e \in Seq(Byte)
    BY <1>1, <1>4, FrameIs
  <2> QED BY <1>1, <1>3, <1>4, <2>2, <2>3 DEF Cat
<1>6. Cat(j[n], s) = Cat(x, Cat(e, Cat(r, s)))
  <2>1. Cat(x, e) \in Seq(Byte) /\ Cat(r, s) \in Seq(Byte)
    BY <1>5, CatIs
  <2>2. Cat(Cat(Cat(x, e), r), s) = Cat(Cat(x, e), Cat(r, s))
    BY <2>1, CatAssociates
  <2>3. Cat(Cat(x, e), Cat(r, s)) = Cat(x, Cat(e, Cat(r, s)))
    BY <1>5, <2>1, CatAssociates
  <2> QED BY <1>5, <2>2, <2>3
<1> QED BY <1>1, <1>4, <1>5, <1>6 DEF n

\* Two streams of frames that are the same, and what follows each of them: the
\* shorter one is the beginning of the longer one.
LEMMA FramesAgree ==
    ASSUME NEW got \in Seq(Allowed), NEW s \in Seq(Byte), NEW sent \in Seq(Allowed), NEW t \in Seq(Byte),
           Cat(Flatten(got), s) = Cat(Flatten(sent), t), Len(got) <= Len(sent)
    PROVE  /\ \A i \in 1..Len(got) : got[i] = sent[i]
           /\ Len(got) = Len(sent) => got = sent /\ s = t
           /\ Len(got) < Len(sent) =>
                \E p \in Allowed, d \in Seq(Byte) : s = Cat(Encode(p), Cat(d, t))
<1> DEFINE n == Len(got)
<1>1. /\ Encoded(got) \in Pieces /\ Len(Encoded(got)) = n /\ Flatten(got) = Joined(Encoded(got))
      /\ n \in Nat /\ Len(sent) \in Nat /\ n <= Len(sent)
      /\ \A i \in 1..n : Encoded(got)[i] = Encode(got[i])
      /\ Encoded(sent) \in Pieces /\ Len(Encoded(sent)) = Len(sent) /\ Flatten(sent) = Joined(Encoded(sent))
      /\ \A i \in 1..Len(sent) : Encoded(sent)[i] = Encode(sent[i])
  BY EncodedIs, LenProperties
<1>2. PICK j : Joins(Encoded(got), j) /\ Flatten(got) = j[Len(got)]
  BY <1>1, JoinedIs
<1>3. PICK k : Joins(Encoded(sent), k) /\ Flatten(sent) = k[Len(sent)]
  BY <1>1, JoinedIs
<1> HIDE DEF n
<1> DEFINE T == {i \in 0..n : \A m \in 1..i : got[m] = sent[m]}
<1>4. ASSUME NEW i \in 0..n, i \in T PROVE j[i] = k[i]
  <2>1. i \in 0..Len(Encoded(got)) /\ i <= Len(Encoded(sent))
    BY <1>1
  <2>2. \A m \in 1..i : Encoded(got)[m] = Encoded(sent)[m]
    <3> SUFFICES ASSUME NEW m \in 1..i PROVE Encoded(got)[m] = Encoded(sent)[m]
      OBVIOUS
    <3>1. m \in 1..n /\ m \in 1..Len(sent)
      BY <1>1
    <3>2. got[m] = sent[m]
      BY <1>4
    <3> QED BY <1>1, <3>1, <3>2
  <2> QED BY <1>1, <1>2, <1>3, <2>1, <2>2, JoinsAgree
<1>5. 0 \in T
  BY <1>1
<1>6. ASSUME NEW i \in 1..n, i - 1 \in T PROVE i \in T
  <2>1. i - 1 \in 0..n /\ i \in 0..n /\ i \in 1..Len(got) /\ i \in 1..Len(sent)
    BY <1>1 DEF n
  <2>2. j[i - 1] = k[i - 1]
    BY <1>4, <1>6, <2>1
  <2>3. /\ j[i - 1] \in Seq(Byte) /\ got[i] \in Allowed
        /\ \E r \in Seq(Byte) :
              Cat(j[Len(got)], s) = Cat(j[i - 1], Cat(Encode(got[i]), Cat(r, s)))
    BY <1>2, <2>1, NextFrame
  <2>4. /\ sent[i] \in Allowed
        /\ \E r \in Seq(Byte) :
              Cat(k[Len(sent)], t) = Cat(k[i - 1], Cat(Encode(sent[i]), Cat(r, t)))
    BY <1>3, <2>1, NextFrame
  <2>5. PICK r \in Seq(Byte) :
          Cat(j[Len(got)], s) = Cat(j[i - 1], Cat(Encode(got[i]), Cat(r, s)))
    BY <2>3
  <2>6. PICK q \in Seq(Byte) :
          Cat(k[Len(sent)], t) = Cat(k[i - 1], Cat(Encode(sent[i]), Cat(q, t)))
    BY <2>4
  <2>7. PICK x, y, z : x = j[i - 1] /\ y = Cat(r, s) /\ z = Cat(q, t)
    OBVIOUS
  <2>8. y \in Seq(Byte) /\ z \in Seq(Byte) /\ Encode(got[i]) \in Seq(Byte) /\ Encode(sent[i]) \in Seq(Byte)
    BY <2>3, <2>4, <2>7, CatIs, FrameIs
  <2>9. Cat(Encode(got[i]), y) \in Seq(Byte) /\ Cat(Encode(sent[i]), z) \in Seq(Byte)
    BY <2>8, CatIs
  <2>10. Cat(x, Cat(Encode(got[i]), y)) = Cat(x, Cat(Encode(sent[i]), z))
    BY ONLY <1>2, <1>3, <2>2, <2>5, <2>6, <2>7, Cat(Flatten(got), s) = Cat(Flatten(sent), t)
  <2>11. Cat(Encode(got[i]), y) = Cat(Encode(sent[i]), z)
    BY ONLY <2>3, <2>7, <2>9, <2>10, CatCancels
  <2>12. got[i] = sent[i]
    BY ONLY <2>3, <2>4, <2>8, <2>11, SameEncode
  <2>13. \A m \in 1..i : m \in 1..i - 1 \/ m = i
    BY <2>1
  <2> QED BY <1>6, <2>1, <2>12, <2>13
<1>7. \A i \in 0..n : i \in T
  <2> HIDE DEF T
  <2> QED BY <1>1, <1>5, <1>6, UpTo
<1>8. n \in 0..n /\ n \in T
  <2>1. n \in 0..n
    BY <1>1
  <2> HIDE DEF T
  <2> QED BY <1>7, <2>1
<1>9. \A i \in 1..n : got[i] = sent[i]
  BY <1>8
<1>10. j[n] = k[n] /\ j[n] \in Seq(Byte)
  <2>1. j[n] = k[n]
    BY <1>4, <1>8
  <2>2. n \in 0..Len(Encoded(got))
    BY <1>1
  <2>3. j[n] \in Seq(Byte)
    BY ONLY <1>2, <2>2 DEF Joins
  <2> QED BY <2>1, <2>3
<1>11. Cat(j[n], s) = Cat(k[Len(sent)], t)
  BY ONLY <1>2, <1>3, Cat(Flatten(got), s) = Cat(Flatten(sent), t) DEF n
<1>12. ASSUME n = Len(sent) PROVE got = sent /\ s = t
  <2>1. got = sent
    BY <1>9, <1>12, SeqEqual DEF n
  <2>2. Cat(j[n], s) = Cat(j[n], t)
    BY ONLY <1>10, <1>11, <1>12
  <2>3. s = t
    BY ONLY <1>10, <2>2, s \in Seq(Byte), t \in Seq(Byte), CatCancels
  <2> QED BY <2>1, <2>3
<1>13. ASSUME n < Len(sent)
       PROVE  \E p \in Allowed, d \in Seq(Byte) : s = Cat(Encode(p), Cat(d, t))
  <2>1. PICK i : i = n + 1
    OBVIOUS
  <2>2. i - 1 = n
    BY <1>1, <2>1
  <2>3. i \in 1..Len(sent)
    BY <1>1, <1>13, <2>1
  <2>4. /\ sent[i] \in Allowed
        /\ \E r \in Seq(Byte) :
              Cat(k[Len(sent)], t) = Cat(k[i - 1], Cat(Encode(sent[i]), Cat(r, t)))
    BY ONLY <1>3, <2>3, sent \in Seq(Allowed), t \in Seq(Byte), NextFrame
  <2>5. PICK d \in Seq(Byte) : Cat(k[Len(sent)], t) = Cat(k[n], Cat(Encode(sent[i]), Cat(d, t)))
    BY <2>2, <2>4
  <2>6. Cat(d, t) \in Seq(Byte) /\ Encode(sent[i]) \in Seq(Byte)
    BY <2>4, CatIs, FrameIs
  <2>7. Cat(Encode(sent[i]), Cat(d, t)) \in Seq(Byte)
    BY <2>6, CatIs
  <2>8. Cat(j[n], s) = Cat(j[n], Cat(Encode(sent[i]), Cat(d, t)))
    BY ONLY <1>10, <1>11, <2>5
  <2>9. s = Cat(Encode(sent[i]), Cat(d, t))
    BY ONLY <1>10, <2>7, <2>8, s \in Seq(Byte), CatCancels
  <2> QED BY <2>4, <2>9
<1> QED BY <1>9, <1>12, <1>13 DEF n

\* The decoder between two chunks, and the turns of push()
Decoders == [header : Seq(Byte), body : Seq(Byte), error : BOOLEAN]
Decoding(decoder) ==
    /\ decoder \in Decoders /\ ~decoder.error
    /\ Len(decoder.header) <= HeaderBytes
    /\ Len(decoder.header) < HeaderBytes => decoder.body = <<>>
    /\ Len(decoder.header) = HeaderBytes =>
         Length(decoder.header) <= MaxPayload /\ Len(decoder.body) < Length(decoder.header)
PushStates == [frames : Seq(Allowed), offset : Nat, decoder : Decoders]
TooLong(h) == h \in Seq(Byte) /\ Len(h) = HeaderBytes /\ MaxPayload < Length(h)
Refused(bytes) ==
    \E got \in Seq(Allowed), h, r \in Seq(Byte) :
        TooLong(h) /\ bytes = Cat(Flatten(got), Cat(h, r))

LEMMA RestIs ==
    ASSUME NEW a \in Seq(Byte), NEW b \in Seq(Byte), NEW c, c = Cat(a, b)
    PROVE  SubSeq(c, Len(a) + 1, Len(c)) = b
<1> DEFINE m == Len(a)
           n == Len(b)
           d == SubSeq(c, m + 1, m + n)
<1>1. /\ c \in Seq(Byte) /\ Len(c) = m + n /\ m \in Nat /\ n \in Nat
      /\ \A i \in 1..n : c[m + i] = b[i]
  BY ConcatProperties DEF Cat
<1>2. d \in Seq(Byte) /\ Len(d) = n /\ \A i \in 1..n : d[i] = c[m + i]
  <2> HIDE DEF m, n
  <2>1. m + 1 \in 1..Len(c) + 1 /\ m + n \in m..Len(c)
    BY <1>1
  <2>2. d \in Seq(Byte) /\ Len(d) = n
    BY <1>1, <2>1
  <2>3. ASSUME NEW i \in 1..n PROVE d[i] = c[m + i]
    BY <1>1, <2>1
  <2> QED BY <2>2, <2>3
<1> HIDE DEF d
<1>3. d = b
  BY <1>1, <1>2, SeqEqual
<1> QED BY <1>1, <1>3 DEF d

Taken(x, n, a, b) ==
    /\ x = Cat(a, b)
    /\ a = SubSeq(x, 1, Smaller(n, Len(x)))
    /\ n <= Len(x) => Len(a) = n /\ b = SubSeq(x, n + 1, Len(x))
    /\ Len(x) < n => b = <<>>
LEMMA TakenIs ==
    ASSUME NEW x \in Seq(Byte), NEW n \in Nat
    PROVE  \E a, b \in Seq(Byte) : Taken(x, n, a, b)
<1>1. Len(x) \in Nat
  OBVIOUS
<1>2. CASE n <= Len(x)
  <2> DEFINE a == SubSeq(x, 1, n)
             b == SubSeq(x, n + 1, Len(x))
  <2>1. a \in Seq(Byte) /\ Len(a) = n /\ b \in Seq(Byte)
    BY <1>1, <1>2
  <2>2. a \o b = SubSeq(x, 1, Len(x))
    <3>1. 1 \in 1..Len(x) + 1 /\ n \in 1 - 1..Len(x) /\ Len(x) \in n..Len(x)
      BY <1>1, <1>2
    <3> QED BY <3>1, ConcatAdjacentSubSeq
  <2>3. SubSeq(x, 1, Len(x)) = x
    BY SubSeqFull
  <2>4. Smaller(n, Len(x)) = n
    BY <1>1, <1>2 DEF Smaller
  <2>5. x = Cat(a, b) /\ a = SubSeq(x, 1, Smaller(n, Len(x)))
    BY <2>2, <2>3, <2>4 DEF Cat
  <2>6. b = SubSeq(x, n + 1, Len(x))
    OBVIOUS
  <2> HIDE DEF a, b
  <2>7. Taken(x, n, a, b)
    <3>1. ~(Len(x) < n)
      BY ONLY <1>1, <1>2, n \in Nat
    <3> QED BY <2>1, <2>5, <2>6, <3>1, Zenon DEF Taken
  <2> QED BY <2>1, <2>7
<1>3. CASE Len(x) < n
  <2>1. Smaller(n, Len(x)) = Len(x)
    BY <1>1, <1>3 DEF Smaller
  <2>2. SubSeq(x, 1, Smaller(n, Len(x))) = x
    BY <2>1, SubSeqFull
  <2>3. Cat(x, <<>>) = x /\ <<>> \in Seq(Byte)
    BY CatEmpty
  <2>4. Taken(x, n, x, <<>>)
    BY <1>1, <1>3, <2>2, <2>3 DEF Taken
  <2> QED BY <2>3, <2>4
<1> QED BY <1>1, <1>2, <1>3

\* What a turn does with the rest of a chunk
Waits(state, chunk, left, after) ==
    /\ Len(state.decoder.header) + Len(left) < HeaderBytes
    /\ after = [frames |-> state.frames, offset |-> Len(chunk),
                decoder |-> [header |-> Cat(state.decoder.header, left),
                             body |-> state.decoder.body, error |-> FALSE]]
Rejects(state, h, after) ==
    /\ TooLong(h)
    /\ after = [frames |-> state.frames, offset |-> state.offset,
                decoder |-> [header |-> <<>>, body |-> <<>>, error |-> TRUE]]
Yields(state, chunk, h, e, f, after) ==
    LET body == Cat(state.decoder.body, e)
    IN  /\ Length(h) <= MaxPayload /\ Len(body) = Length(h)
        /\ after = [frames |-> Append(state.frames, body), offset |-> Len(chunk) - Len(f),
                    decoder |-> NewDecoder]
Fills(state, chunk, h, behind, after) ==
    LET body == Cat(state.decoder.body, behind)
    IN  /\ Length(h) <= MaxPayload /\ Len(body) < Length(h)
        /\ after = [frames |-> state.frames, offset |-> Len(chunk),
                    decoder |-> [header |-> h, body |-> body, error |-> FALSE]]
Turned(state, chunk, left, after) ==
    \/ Waits(state, chunk, left, after)
    \/ \E a, behind \in Seq(Byte) :
         LET h == Cat(state.decoder.header, a)
         IN  /\ left = Cat(a, behind) /\ Len(h) = HeaderBytes
             /\ \/ Rejects(state, h, after)
                \/ \E e, f \in Seq(Byte) : behind = Cat(e, f) /\ Yields(state, chunk, h, e, f, after)
                \/ Fills(state, chunk, h, behind, after)

LEMMA LengthIsNat == \A header \in Seq(Byte) : Length(header) \in Nat
<1> SUFFICES ASSUME NEW header \in Seq(Byte) PROVE Length(header) \in Nat
  OBVIOUS
<1>1. Len(header) \in 0..Len(header)
  BY LenProperties
<1> QED BY <1>1, LengthIs

LEMMA TurnIs ==
    ASSUME NEW state \in PushStates, Decoding(state.decoder),
           NEW done \in Seq(Byte), NEW left \in Seq(Byte),
           NEW chunk, chunk = Cat(done, left), state.offset = Len(done)
    PROVE  Turned(state, chunk, left, Turn(state, chunk))
<1> DEFINE rest == SubSeq(chunk, state.offset + 1, Len(chunk))
           wanted == HeaderBytes - Len(state.decoder.header)
           header == state.decoder.header \o SubSeq(rest, 1, Smaller(wanted, Len(rest)))
           complete == Len(header) = HeaderBytes
           behind == IF complete THEN SubSeq(rest, wanted + 1, Len(rest)) ELSE <<>>
           missing == Length(header) - Len(state.decoder.body)
           body == state.decoder.body
                     \o (IF complete THEN SubSeq(behind, 1, Smaller(missing, Len(behind)))
                                     ELSE <<>>)
           offset == Len(chunk) - (IF complete /\ missing < Len(behind)
                                     THEN Len(behind) - missing ELSE 0)
           after == Turn(state, chunk)
           large == complete /\ Length(header) > MaxPayload
           whole == complete /\ Length(header) <= MaxPayload /\ Len(body) = Length(header)
           refused == [state EXCEPT !.decoder = [NewDecoder EXCEPT !.error = TRUE]]
           yielded == [frames |-> Append(state.frames, body), offset |-> offset, decoder |-> NewDecoder]
           filled == [state EXCEPT !.offset = offset,
                                   !.decoder = [@ EXCEPT !.header = header, !.body = body]]
<1>1. rest = left
  BY RestIs
<1>2. PICK held, had : held = state.decoder.header /\ had = state.decoder.body
  OBVIOUS
<1>3. /\ held \in Seq(Byte) /\ had \in Seq(Byte) /\ Len(held) \in Nat /\ Len(had) \in Nat
      /\ Len(held) <= HeaderBytes /\ HeaderBytes \in Nat
      /\ Len(held) < HeaderBytes => had = <<>>
      /\ Len(held) = HeaderBytes => Length(held) <= MaxPayload /\ Len(had) < Length(held)
      /\ wanted = HeaderBytes - Len(held) /\ wanted \in Nat
      /\ Len(left) \in Nat /\ Len(chunk) \in Nat /\ MaxPayload \in Nat
  <2>1. HeaderBytes \in Nat /\ MaxPayload \in Nat
    BY FramesAssumption
  <2>2. held \in Seq(Byte) /\ had \in Seq(Byte)
    BY <1>2 DEF Decoding, Decoders
  <2>3. chunk \in Seq(Byte)
    BY CatIs
  <2>4. Len(held) \in Nat /\ Len(had) \in Nat /\ Len(left) \in Nat /\ Len(chunk) \in Nat
    BY <2>2, <2>3, LenProperties
  <2> QED BY <1>2, <2>1, <2>2, <2>4 DEF Decoding
<1>4. PICK a, tl \in Seq(Byte) :
        /\ left = Cat(a, tl)
        /\ a = SubSeq(left, 1, Smaller(wanted, Len(left)))
        /\ wanted <= Len(left) => Len(a) = wanted /\ tl = SubSeq(left, wanted + 1, Len(left))
        /\ Len(left) < wanted => tl = <<>>
  <2> HIDE DEF wanted
  <2>1. PICK a, tl \in Seq(Byte) : Taken(left, wanted, a, tl)
    BY <1>3, TakenIs
  <2> QED BY <2>1 DEF Taken
<1>5. header = Cat(held, a) /\ header \in Seq(Byte) /\ Len(header) = Len(held) + Len(a)
      /\ Len(left) = Len(a) + Len(tl) /\ Len(a) \in Nat /\ Len(tl) \in Nat
      /\ Length(header) \in Nat
  <2>1. header = held \o a
    BY ONLY <1>1, <1>2, <1>4
  <2> HIDE DEF header, wanted
  <2>2. header = Cat(held, a)
    BY ONLY <2>1 DEF Cat
  <2>3. header \in Seq(Byte) /\ Len(header) = Len(held) + Len(a)
    BY <1>3, <1>4, <2>2, CatIs
  <2>4. Len(left) = Len(a) + Len(tl)
    BY <1>4, CatIs
  <2> QED BY <1>4, <2>2, <2>3, <2>4, LengthIsNat, LenProperties
<1>6. complete <=> wanted <= Len(left)
  <2>1. complete <=> Len(header) = HeaderBytes
    OBVIOUS
  <2> HIDE DEF complete, header
  <2>2. Len(left) < wanted => a = left
    <3> SUFFICES ASSUME Len(left) < wanted PROVE a = left
      OBVIOUS
    <3>1. tl = <<>>
      BY <1>4
    <3> QED BY ONLY <1>4, <3>1, CatEmpty, a \in Seq(Byte)
  <2>3. wanted <= Len(left) => Len(a) = wanted
    BY <1>4
  <2>4. wanted = HeaderBytes - Len(held)
    BY <1>3
  <2> HIDE DEF wanted
  <2> QED BY <1>3, <1>5, <2>1, <2>2, <2>3, <2>4
<1>7. complete => behind = tl
  BY <1>1, <1>4, <1>6
<1>8. after = CASE large -> refused [] whole -> yielded [] OTHER -> filled
  BY DEF Turn
<1>9. large \in BOOLEAN /\ whole \in BOOLEAN
  OBVIOUS
<1>10. ~(large /\ whole)
  <2>1. Length(header) \in Nat
    BY <1>5
  <2> HIDE DEF header, complete, body
  <2> QED BY <1>3, <2>1
<1>11. /\ large => after = refused
       /\ whole /\ ~large => after = yielded
       /\ ~large /\ ~whole => after = filled
  <2> HIDE DEF large, whole, refused, yielded, filled, after
  <2> QED BY <1>8, <1>9, <1>10
<1>12. PICK kept, at, dec : /\ state = [frames |-> kept, offset |-> at, decoder |-> dec]
                            /\ dec = [header |-> held, body |-> had, error |-> FALSE]
  <2>1. state = [frames |-> state.frames, offset |-> state.offset, decoder |-> state.decoder]
    BY DEF PushStates
  <2>2. state.decoder = [header |-> held, body |-> had, error |-> FALSE]
    BY <1>2 DEF Decoding, Decoders
  <2> QED BY <2>1, <2>2
<1>13. ASSUME ~complete PROVE Waits(state, chunk, left, after)
  <2>1. Len(left) < wanted
    <3> HIDE DEF complete, wanted
    <3> QED BY <1>3, <1>6, <1>13
  <2>2. tl = <<>> /\ a = left
    <3>1. tl = <<>>
      BY <1>4, <2>1
    <3> QED BY ONLY <1>4, <3>1, CatEmpty, a \in Seq(Byte)
  <2>3. body = had \o <<>>
    BY <1>2, <1>13
  <2>4. body = had /\ offset = Len(chunk)
    <3>1. had \o <<>> = had
      BY <1>3, ConcatEmptySeq
    <3> QED BY <1>3, <1>13, <2>3, <3>1
  <2>5. after = [state EXCEPT !.offset = offset,
                              !.decoder = [@ EXCEPT !.header = header, !.body = body]]
    <3>1. ~large /\ ~whole
      BY <1>13
    <3> QED BY <1>11, <3>1
  <2> HIDE DEF complete, header, body, offset, after
  <2>6. Len(held) + Len(left) < HeaderBytes
    BY <1>3, <2>1
  <2>7. after = [frames |-> kept, offset |-> Len(chunk),
                 decoder |-> [header |-> Cat(held, left), body |-> had, error |-> FALSE]]
    BY ONLY <1>5, <1>12, <2>2, <2>4, <2>5
  <2> QED BY <1>2, <1>12, <2>6, <2>7 DEF Waits
<1>14. ASSUME complete, Length(header) > MaxPayload PROVE Rejects(state, header, after)
  <2>1. Len(header) = HeaderBytes
    BY <1>14
  <2>2. after = [state EXCEPT !.decoder = [NewDecoder EXCEPT !.error = TRUE]]
    <3>1. large
      BY <1>14
    <3> QED BY <1>11, <3>1
  <2> HIDE DEF complete, header, after
  <2>3. after = [frames |-> state.frames, offset |-> state.offset,
                 decoder |-> [header |-> <<>>, body |-> <<>>, error |-> TRUE]]
    BY ONLY <1>12, <2>2 DEF NewDecoder
  <2> QED BY <1>3, <1>5, <1>14, <2>1, <2>3 DEF Rejects, TooLong
<1>15. ASSUME complete, ~(Length(header) > MaxPayload)
       PROVE  \/ \E e, f \in Seq(Byte) : tl = Cat(e, f) /\ Yields(state, chunk, header, e, f, after)
              \/ Fills(state, chunk, header, tl, after)
  <2>1. behind = tl
    BY <1>7, <1>15
  <2>2. Len(header) = HeaderBytes
    BY <1>15
  <2>3. missing = Length(header) - Len(had)
    BY <1>2
  <2>4. body = had \o SubSeq(tl, 1, Smaller(missing, Len(tl)))
    <3> HIDE DEF behind, header, missing
    <3> QED BY <1>2, <1>15, <2>1
  <2>5. offset = Len(chunk) - (IF missing < Len(tl) THEN Len(tl) - missing ELSE 0)
    <3> HIDE DEF behind, header, missing
    <3> QED BY <1>15, <2>1
  <2>6. after = IF Len(body) = Length(header)
                THEN [frames |-> Append(state.frames, body), offset |-> offset,
                      decoder |-> NewDecoder]
                ELSE [state EXCEPT !.offset = offset,
                                   !.decoder = [@ EXCEPT !.header = header, !.body = body]]
    <3>1. Length(header) <= MaxPayload
      <4> HIDE DEF header, complete
      <4> QED BY <1>3, <1>5, <1>15
    <3>2. ~large /\ (whole <=> Len(body) = Length(header))
      <4> HIDE DEF header, complete, body
      <4> QED BY <1>15, <3>1
    <3> QED BY <1>11, <3>2
  <2> HIDE DEF behind, header, body, offset, after, complete
  <2>7. missing \in Nat
    <3>1. CASE Len(held) = HeaderBytes
      <4>1. Len(a) = 0
        BY <1>3, <1>5, <2>2, <3>1
      <4>2. a = <<>>
        BY <4>1, EmptySeq
      <4>3. header = held
        BY <1>3, <1>5, <4>2, CatEmpty
      <4> QED BY <1>3, <1>5, <2>3, <3>1, <4>3
    <3>2. CASE Len(held) # HeaderBytes
      <4>1. had = <<>> /\ Len(had) = 0
        BY <1>3, <3>2, EmptySeq
      <4> QED BY <1>5, <2>3, <4>1
    <3> QED BY <3>1, <3>2
  <2> HIDE DEF missing
  <2>8. PICK e, f \in Seq(Byte) :
          /\ tl = Cat(e, f)
          /\ e = SubSeq(tl, 1, Smaller(missing, Len(tl)))
          /\ missing <= Len(tl) => Len(e) = missing
          /\ Len(tl) < missing => f = <<>>
    <3>1. PICK e, f \in Seq(Byte) : Taken(tl, missing, e, f)
      BY <2>7, TakenIs
    <3> QED BY <3>1 DEF Taken
  <2>9. body = Cat(had, e) /\ Len(body) = Len(had) + Len(e) /\ Len(tl) = Len(e) + Len(f)
        /\ Len(e) \in Nat /\ Len(f) \in Nat
    <3>1. body = Cat(had, e)
      BY ONLY <2>4, <2>8 DEF Cat
    <3> QED BY <1>3, <2>8, <3>1, CatIs, LenProperties
  <2>10. CASE missing <= Len(tl)
    <3>1. /\ Len(e) = missing /\ Len(e) \in Nat /\ Len(f) \in Nat /\ Len(tl) = Len(e) + Len(f)
          /\ Len(had) \in Nat /\ Len(chunk) \in Nat /\ Length(header) \in Nat
          /\ Len(body) = Len(had) + Len(e)
      BY <1>3, <1>5, <2>8, <2>9, <2>10
    <3>2. Len(body) = Length(header)
      BY ONLY <2>3, <3>1
    <3>3. offset = Len(chunk) - Len(f)
      BY ONLY <2>5, <3>1
    <3>4. Length(header) <= MaxPayload
      BY <1>3, <1>5, <1>15
    <3>5. Yields(state, chunk, header, e, f, after)
      BY <1>2, <2>6, <2>9, <3>2, <3>3, <3>4 DEF Yields
    <3> QED BY <2>8, <3>5
  <2>11. CASE Len(tl) < missing
    <3>1. f = <<>> /\ e = tl
      BY <2>8, <2>11, CatEmpty
    <3>2. Len(body) < Length(header)
      BY <1>3, <1>5, <2>3, <2>7, <2>9, <2>11, <3>1
    <3>3. offset = Len(chunk)
      BY <1>3, <1>5, <2>5, <2>7, <2>11
    <3>4. Length(header) <= MaxPayload
      BY <1>3, <1>5, <1>15
    <3>5. Len(body) # Length(header)
      BY <1>5, <2>9, <1>3, <3>2
    <3>6. after = [frames |-> kept, offset |-> Len(chunk),
                   decoder |-> [header |-> header, body |-> body, error |-> FALSE]]
      BY ONLY <1>12, <2>6, <3>3, <3>5
    <3>7. Fills(state, chunk, header, tl, after)
      BY <1>2, <1>12, <2>9, <3>1, <3>2, <3>4, <3>6 DEF Fills
    <3> QED BY <3>7
  <2> QED BY <1>5, <2>7, <2>10, <2>11
<1>16. complete => Len(header) = HeaderBytes
  OBVIOUS
<1> HIDE DEF complete, header, after
<1>17. CASE ~complete
  BY <1>13, <1>17 DEF Turned, after
<1>18. CASE complete
  <2>1. header = Cat(state.decoder.header, a) /\ Len(header) = HeaderBytes
    BY <1>2, <1>5, <1>16, <1>18
  <2> QED BY <1>4, <1>14, <1>15, <1>18, <2>1, Zenon DEF Turned, after
<1> QED BY <1>17, <1>18

LEMMA GoesOn ==
    ASSUME NEW a \in Seq(Byte), NEW b \in Seq(Byte), NEW c \in Seq(Byte), NEW d \in Seq(Byte),
           NEW x \in Seq(Byte), Cat(a, b) = Cat(c, d)
    PROVE  Cat(a, Cat(b, x)) = Cat(c, Cat(d, x))
<1>1. Cat(Cat(a, b), x) = Cat(a, Cat(b, x))
  BY CatAssociates
<1>2. Cat(Cat(c, d), x) = Cat(c, Cat(d, x))
  BY CatAssociates
<1> QED BY <1>1, <1>2

\* Nothing stands between a header and its body.
LEMMA Adjacent ==
    ASSUME NEW held \in Seq(Byte), NEW had \in Seq(Byte), NEW a \in Seq(Byte), NEW e \in Seq(Byte),
           a = <<>> \/ had = <<>>
    PROVE  Cat(Cat(held, had), Cat(a, e)) = Cat(Cat(held, a), Cat(had, e))
<1>1. CASE a = <<>>
  <2>1. Cat(a, e) = e /\ Cat(held, a) = held
    BY <1>1, CatEmpty
  <2> QED BY <2>1, CatAssociates
<1>2. CASE had = <<>>
  <2>1. Cat(had, e) = e /\ Cat(held, had) = held
    BY <1>2, CatEmpty
  <2> QED BY <2>1, CatAssociates
<1> QED BY <1>1, <1>2

LEMMA EmptyIs == \A a \in Seq(Byte) : Len(a) = 0 <=> a = <<>>
  BY EmptySeq

At(before, chunk, i, state, done, left) ==
    /\ chunk = Cat(done, left) /\ state.offset = Len(done)
    /\ left = <<>> \/ i <= Len(done)
    /\ Cat(before, done)
         = Cat(Flatten(state.frames), Cat(state.decoder.header, state.decoder.body))
Pushing(before, chunk, i, state) ==
    /\ state \in PushStates
    /\ state.decoder.error => Refused(Cat(before, chunk))
    /\ ~state.decoder.error =>
         Decoding(state.decoder)
           /\ \E done, left \in Seq(Byte) : At(before, chunk, i, state, done, left)

LEMMA NewDecoding == Decoding(NewDecoder) /\ NewDecoder \in Decoders
<1>1. <<>> \in Seq(Byte) /\ Len(<<>>) = 0 /\ HeaderBytes \in Nat \ {0}
  BY CatEmpty, EmptyIs, FramesAssumption
<1> QED BY <1>1 DEF Decoding, Decoders, NewDecoder

\* A turn takes a byte at least, and what it has taken is in the frames and in
\* the decoder.
LEMMA TurnKeeps ==
    ASSUME NEW before \in Seq(Byte), NEW chunk \in Seq(Byte), NEW i \in Nat, NEW state,
           state \in PushStates, ~state.decoder.error, Decoding(state.decoder),
           NEW done \in Seq(Byte), NEW left \in Seq(Byte), left # <<>>,
           At(before, chunk, i, state, done, left),
           NEW after, Turned(state, chunk, left, after)
    PROVE  Pushing(before, chunk, i + 1, after)
<1>1. PICK held, had, F : /\ held = state.decoder.header /\ had = state.decoder.body
                          /\ F = Flatten(state.frames)
  OBVIOUS
<1>2. /\ held \in Seq(Byte) /\ had \in Seq(Byte) /\ Len(held) <= HeaderBytes
      /\ Len(held) < HeaderBytes => had = <<>>
      /\ Len(held) = HeaderBytes => Length(held) <= MaxPayload /\ Len(had) < Length(held)
  BY <1>1 DEF Decoding, Decoders
<1>3. /\ F \in Seq(Byte) /\ state.frames \in Seq(Allowed)
      /\ chunk = Cat(done, left) /\ state.offset = Len(done) /\ i <= Len(done)
      /\ Cat(before, done) = Cat(F, Cat(held, had))
      /\ Cat(held, had) \in Seq(Byte)
  BY <1>1, <1>2, FlattenIs, CatIs DEF At, PushStates
<1>4. /\ Len(held) \in Nat /\ Len(had) \in Nat /\ Len(done) \in Nat /\ Len(left) \in Nat /\ Len(left) # 0
      /\ Len(chunk) = Len(done) + Len(left) /\ HeaderBytes \in Nat \ {0} /\ MaxPayload \in Nat
  BY <1>2, <1>3, CatIs, EmptyIs, FramesAssumption, LenProperties
<1>5. \A x \in Seq(Byte) : Cat(before, Cat(done, x)) = Cat(F, Cat(Cat(held, had), x))
  <2> SUFFICES ASSUME NEW x \in Seq(Byte)
               PROVE  Cat(before, Cat(done, x)) = Cat(F, Cat(Cat(held, had), x))
    OBVIOUS
  <2>1. PICK d : d = Cat(held, had)
    OBVIOUS
  <2> QED BY ONLY <1>3, <2>1, before \in Seq(Byte), done \in Seq(Byte), x \in Seq(Byte), GoesOn
<1>6. CASE Waits(state, chunk, left, after)
  <2>1. /\ Len(held) + Len(left) < HeaderBytes
        /\ after = [frames |-> state.frames, offset |-> Len(chunk),
                    decoder |-> [header |-> Cat(held, left), body |-> had, error |-> FALSE]]
    BY <1>1, <1>6 DEF Waits
  <2>2. Cat(held, left) \in Seq(Byte) /\ Len(Cat(held, left)) = Len(held) + Len(left)
    BY <1>2, CatIs
  <2>3. had = <<>>
    BY <1>2, <1>4, <2>1
  <2>4. Decoding(after.decoder) /\ after \in PushStates /\ ~after.decoder.error
    BY <1>2, <1>3, <1>4, <2>1, <2>2, <2>3 DEF Decoding, Decoders, PushStates
  <2>5. Cat(before, chunk) = Cat(F, Cat(Cat(held, left), had))
    <3>1. Cat(held, had) = held /\ Cat(Cat(held, left), had) = Cat(held, left)
      BY <1>2, <2>2, <2>3, CatEmpty
    <3> QED BY <1>3, <1>5, <3>1
  <2>6. At(before, chunk, i + 1, after, chunk, <<>>)
    <3>1. Cat(chunk, <<>>) = chunk
      BY CatEmpty
    <3> QED BY <1>1, <2>1, <2>5, <3>1 DEF At
  <2> QED BY <2>4, <2>6, CatEmpty DEF Pushing
<1>7. ASSUME NEW a \in Seq(Byte), NEW behind \in Seq(Byte), left = Cat(a, behind),
             NEW h, h = Cat(held, a), Len(h) = HeaderBytes,
             \/ Rejects(state, h, after)
             \/ \E e, f \in Seq(Byte) : behind = Cat(e, f) /\ Yields(state, chunk, h, e, f, after)
             \/ Fills(state, chunk, h, behind, after)
      PROVE  Pushing(before, chunk, i + 1, after)
  <2>1. /\ h \in Seq(Byte) /\ Len(h) = Len(held) + Len(a) /\ Len(left) = Len(a) + Len(behind)
        /\ Len(a) \in Nat /\ Len(behind) \in Nat /\ Length(h) \in Nat
    BY <1>2, <1>7, CatIs, LengthIsNat, LenProperties
  <2>2. a = <<>> \/ had = <<>>
    <3>1. Len(a) = 0 \/ Len(held) < HeaderBytes
      BY <1>4, <1>7, <2>1
    <3> QED BY <1>2, <3>1, EmptyIs
  <2>3. a = <<>> => h = held
    BY <1>2, <1>7, CatEmpty
  <2>4. \A e \in Seq(Byte) : Cat(before, Cat(done, Cat(a, e))) = Cat(F, Cat(h, Cat(had, e)))
    <3> SUFFICES ASSUME NEW e \in Seq(Byte)
                 PROVE  Cat(before, Cat(done, Cat(a, e))) = Cat(F, Cat(h, Cat(had, e)))
      OBVIOUS
    <3>1. Cat(a, e) \in Seq(Byte)
      BY CatIs
    <3>2. Cat(Cat(held, had), Cat(a, e)) = Cat(Cat(held, a), Cat(had, e))
      BY <1>2, <2>2, Adjacent
    <3> QED BY <1>5, <1>7, <3>1, <3>2
  <2>5. CASE Rejects(state, h, after)
    <3>1. /\ TooLong(h)
          /\ after = [frames |-> state.frames, offset |-> state.offset,
                      decoder |-> [header |-> <<>>, body |-> <<>>, error |-> TRUE]]
      BY <2>5 DEF Rejects
    <3>2. after \in PushStates /\ after.decoder.error
      BY <3>1, CatEmpty DEF PushStates, Decoders
    <3>3. Cat(before, chunk) = Cat(F, Cat(h, Cat(had, behind))) /\ Cat(had, behind) \in Seq(Byte)
      BY <1>2, <1>3, <1>7, <2>4, CatIs
    <3>4. Refused(Cat(before, chunk))
      BY <1>1, <1>3, <2>1, <3>1, <3>3 DEF Refused
    <3> QED BY <3>2, <3>4 DEF Pushing
  <2>6. ASSUME NEW e \in Seq(Byte), NEW f \in Seq(Byte), behind = Cat(e, f),
               Yields(state, chunk, h, e, f, after)
        PROVE  Pushing(before, chunk, i + 1, after)
    <3>1. PICK b : b = Cat(had, e)
      OBVIOUS
    <3>2. /\ Length(h) <= MaxPayload /\ Len(b) = Length(h)
          /\ after = [frames |-> Append(state.frames, b), offset |-> Len(chunk) - Len(f),
                      decoder |-> NewDecoder]
      BY <1>1, <2>6, <3>1 DEF Yields
    <3>3. b \in Seq(Byte) /\ Len(b) = Len(had) + Len(e) /\ Len(e) \in Nat /\ Len(f) \in Nat
          /\ Len(behind) = Len(e) + Len(f)
      BY <1>2, <2>6, <3>1, CatIs, LenProperties
    <3>4. b \in Allowed /\ Encode(b) = Cat(h, b)
      <4>1. b \in Allowed
        BY <3>2, <3>3 DEF Allowed
      <4>2. h = Header(Length(h))
        BY <1>7, <2>1, HeaderOfLength
      <4>3. Encode(b) = Cat(Header(Len(b)), b)
        BY DEF Encode, Cat
      <4> QED BY <3>2, <4>1, <4>2, <4>3
    <3>5. /\ Append(state.frames, b) \in Seq(Allowed)
          /\ Flatten(Append(state.frames, b)) = Cat(F, Cat(h, b))
      BY <1>1, <1>3, <3>4, FlattenIs
    <3>6. PICK x : x = Cat(done, Cat(a, e))
      OBVIOUS
    <3>7. x \in Seq(Byte) /\ Cat(a, e) \in Seq(Byte) /\ Len(x) = Len(done) + (Len(a) + Len(e))
      <4>1. Cat(a, e) \in Seq(Byte) /\ Len(Cat(a, e)) = Len(a) + Len(e)
        BY CatIs
      <4>2. PICK c : c = Cat(a, e)
        OBVIOUS
      <4>3. x = Cat(done, c) /\ c \in Seq(Byte) /\ Len(c) = Len(a) + Len(e)
        BY ONLY <3>6, <4>1, <4>2
      <4>4. x \in Seq(Byte) /\ Len(x) = Len(done) + Len(c)
        BY ONLY <4>3, CatIs, done \in Seq(Byte)
      <4> QED BY ONLY <4>1, <4>3, <4>4
    <3>8. chunk = Cat(x, f)
      <4>1. Cat(Cat(a, e), f) = Cat(a, Cat(e, f))
        BY CatAssociates
      <4>2. Cat(Cat(done, Cat(a, e)), f) = Cat(done, Cat(Cat(a, e), f))
        BY <3>7, CatAssociates
      <4> QED BY ONLY <1>3, <1>7, <2>6, <3>6, <4>1, <4>2
    <3>9. Len(chunk) - Len(f) = Len(x) /\ Len(x) \in Nat
      BY ONLY <1>4, <2>1, <3>3, <3>7
    <3>10. Len(a) + Len(e) # 0
      <4> SUFFICES ASSUME Len(a) = 0, Len(e) = 0 PROVE FALSE
        BY <2>1, <3>3
      <4>1. h = held
        BY <2>3, EmptyIs
      <4>2. Len(held) = HeaderBytes
        BY <1>7, <4>1
      <4>3. Len(had) < Length(h)
        BY <1>2, <4>1, <4>2
      <4>4. Len(had) + 0 = Length(h)
        BY <3>2, <3>3
      <4> QED BY ONLY <1>4, <2>1, <4>3, <4>4
    <3>11. i + 1 <= Len(x)
      <4>1. /\ i <= Len(done) /\ Len(done) \in Nat /\ Len(a) \in Nat /\ Len(e) \in Nat
            /\ Len(x) = Len(done) + (Len(a) + Len(e))
        BY <1>3, <1>4, <2>1, <3>3, <3>7
      <4> QED BY ONLY <3>10, <4>1, i \in Nat
    <3>12. after \in PushStates /\ ~after.decoder.error /\ Decoding(after.decoder)
      BY <3>2, <3>5, <3>9, NewDecoding DEF PushStates, NewDecoder
    <3>13. Cat(before, x) = Cat(Flatten(after.frames), Cat(after.decoder.header, after.decoder.body))
      <4>1. Cat(before, x) = Cat(F, Cat(h, b))
        BY <2>4, <3>1, <3>6
      <4>2. Cat(F, Cat(h, b)) \in Seq(Byte)
        BY <1>3, <2>1, <3>3, CatIs
      <4>3. Cat(<<>>, <<>>) = <<>>
        BY CatEmpty
      <4>4. Cat(Flatten(after.frames), <<>>) = Cat(F, Cat(h, b))
        BY <3>2, <3>5, <4>2, CatEmpty
      <4> QED BY <3>2, <4>1, <4>3, <4>4 DEF NewDecoder
    <3>14. At(before, chunk, i + 1, after, x, f)
      BY <3>2, <3>8, <3>9, <3>11, <3>13 DEF At
    <3> QED BY <3>7, <3>12, <3>14 DEF Pushing
  <2>7. CASE Fills(state, chunk, h, behind, after)
    <3>1. PICK b : b = Cat(had, behind)
      OBVIOUS
    <3>2. /\ Length(h) <= MaxPayload /\ Len(b) < Length(h)
          /\ after = [frames |-> state.frames, offset |-> Len(chunk),
                      decoder |-> [header |-> h, body |-> b, error |-> FALSE]]
      BY <1>1, <2>7, <3>1 DEF Fills
    <3>3. b \in Seq(Byte)
      BY <1>2, <3>1, CatIs
    <3>4. after \in PushStates /\ ~after.decoder.error /\ Decoding(after.decoder)
      <4>1. Len(h) = HeaderBytes
        BY <1>7
      <4>2. Len(chunk) \in Nat
        BY <1>4
      <4>3. HeaderBytes <= HeaderBytes /\ ~(HeaderBytes < HeaderBytes)
        BY <1>4
      <4>4. Decoding([header |-> h, body |-> b, error |-> FALSE])
        BY <2>1, <3>2, <3>3, <4>1, <4>3 DEF Decoding, Decoders
      <4>5. [header |-> h, body |-> b, error |-> FALSE] \in Decoders
        BY <2>1, <3>3 DEF Decoders
      <4> QED BY <1>3, <3>2, <4>2, <4>4, <4>5 DEF PushStates
    <3>5. Cat(before, chunk) = Cat(F, Cat(h, b))
      BY <1>3, <1>7, <2>4, <3>1
    <3>6. At(before, chunk, i + 1, after, chunk, <<>>)
      <4>1. Cat(chunk, <<>>) = chunk
        BY CatEmpty
      <4> QED BY <1>1, <3>2, <3>5, <4>1 DEF At
    <3> QED BY <3>4, <3>6, CatEmpty DEF Pushing
  <2> QED BY <1>7, <2>5, <2>6, <2>7
<1>8. CASE \E a, behind \in Seq(Byte) :
             LET h == Cat(state.decoder.header, a)
             IN  /\ left = Cat(a, behind) /\ Len(h) = HeaderBytes
                 /\ \/ Rejects(state, h, after)
                    \/ \E e, f \in Seq(Byte) : behind = Cat(e, f) /\ Yields(state, chunk, h, e, f, after)
                    \/ Fills(state, chunk, h, behind, after)
  BY <1>1, <1>7, <1>8, Zenon
<1> QED BY <1>6, <1>8, Zenon DEF Turned

LEMMA TurnIfMoreKeeps ==
    ASSUME NEW before \in Seq(Byte), NEW chunk \in Seq(Byte), NEW i \in Nat, NEW state,
           Pushing(before, chunk, i, state)
    PROVE  Pushing(before, chunk, i + 1, TurnIfMore(state, chunk))
<1>1. state \in PushStates /\ state.decoder.error \in BOOLEAN /\ Len(chunk) \in Nat
  BY DEF Pushing, PushStates, Decoders
<1>2. CASE state.decoder.error
  <2>1. TurnIfMore(state, chunk) = state
    BY <1>2 DEF TurnIfMore
  <2> QED BY <1>2, <2>1 DEF Pushing
<1>3. CASE ~state.decoder.error
  <2>1. Decoding(state.decoder)
    BY <1>3 DEF Pushing
  <2>2. PICK done, left \in Seq(Byte) : At(before, chunk, i, state, done, left)
    BY <1>3 DEF Pushing
  <2>3. chunk = Cat(done, left) /\ state.offset = Len(done)
    BY <2>2 DEF At
  <2>4. Len(chunk) = Len(done) + Len(left) /\ Len(done) \in Nat /\ Len(left) \in Nat
    BY <2>3, CatIs, LenProperties
  <2>5. CASE left = <<>>
    <3>1. Len(left) = 0
      BY <2>5, EmptyIs
    <3>2. ~(state.offset < Len(chunk))
      BY <2>3, <2>4, <3>1
    <3>3. TurnIfMore(state, chunk) = state
      BY <3>2 DEF TurnIfMore
    <3>4. At(before, chunk, i + 1, state, done, left)
      BY <2>2, <2>5 DEF At
    <3> QED BY <1>1, <1>3, <2>1, <3>3, <3>4 DEF Pushing
  <2>6. CASE left # <<>>
    <3>1. Len(left) # 0
      BY <2>6, EmptyIs
    <3>2. state.offset < Len(chunk)
      BY <2>3, <2>4, <3>1
    <3>3. TurnIfMore(state, chunk) = Turn(state, chunk)
      BY <1>3, <3>2 DEF TurnIfMore
    <3>4. Turned(state, chunk, left, Turn(state, chunk))
      BY <1>1, <2>1, <2>3, TurnIs
    <3>5. PICK after : after = Turn(state, chunk)
      OBVIOUS
    <3>6. Pushing(before, chunk, i + 1, after)
      BY <1>1, <1>3, <2>1, <2>2, <2>6, <3>4, <3>5, TurnKeeps
    <3> QED BY <3>3, <3>5, <3>6
  <2> QED BY <2>5, <2>6
<1> QED BY <1>1, <1>2, <1>3

LEMMA PushIs ==
    ASSUME NEW decoder, Decoding(decoder), NEW chunk \in Seq(Byte)
    PROVE  Pushing(Cat(decoder.header, decoder.body), chunk, Len(chunk), Push(decoder, chunk))
<1> DEFINE n == Len(chunk)
           go(s) == [k \in 0..Len(chunk) |->
                       IF k = 0 THEN Started(decoder) ELSE TurnIfMore(s[k - 1], chunk)]
           V == CHOOSE s : s = go(s)
           before == Cat(decoder.header, decoder.body)
           States(i) == {s \in PushStates : Pushing(before, chunk, i, s)}
           S == [i \in 0..n |-> States(i)]
           next == [p \in PushStates \X (1..n) |-> TurnIfMore(p[1], chunk)]
<1>1. n \in Nat /\ before \in Seq(Byte)
  BY CatIs, LenProperties DEF Decoding, Decoders
<1>2. Push(decoder, chunk) = V[n]
  BY DEF Push
<1>3. ASSUME NEW i \in 1..n, NEW s \in States(i - 1)
      PROVE  next[<<s, i>>] = TurnIfMore(s, chunk) /\ TurnIfMore(s, chunk) \in States(i)
  <2>1. s \in PushStates /\ Pushing(before, chunk, i - 1, s) /\ i - 1 \in Nat /\ (i - 1) + 1 = i
    BY <1>1
  <2>2. Pushing(before, chunk, i, TurnIfMore(s, chunk))
    <3> HIDE DEF before
    <3>1. Pushing(before, chunk, (i - 1) + 1, TurnIfMore(s, chunk))
      BY <1>1, <2>1, TurnIfMoreKeeps
    <3> QED BY <2>1, <3>1
  <2>3. TurnIfMore(s, chunk) \in PushStates
    BY <2>2 DEF Pushing
  <2>4. next[<<s, i>>] = TurnIfMore(s, chunk)
    BY <2>1
  <2> HIDE DEF before
  <2> QED BY <2>2, <2>3, <2>4
<1>4. Started(decoder) \in States(0)
  <2>1. Started(decoder) \in PushStates /\ Started(decoder).decoder = decoder
        /\ Started(decoder).frames = <<>> /\ Started(decoder).offset = 0 /\ ~decoder.error
    BY FlattenEmpty DEF Decoding, Started, PushStates
  <2>2. Cat(<<>>, chunk) = chunk /\ <<>> \in Seq(Byte) /\ Len(<<>>) = 0
    BY CatEmpty, EmptyIs
  <2>3. Cat(before, <<>>) = before /\ Cat(<<>>, before) = before
    BY <1>1, CatEmpty
  <2> HIDE DEF before
  <2>4. At(before, chunk, 0, Started(decoder), <<>>, chunk)
    <3>1. Flatten(<<>>) = <<>>
      BY FlattenEmpty
    <3>2. before = Cat(decoder.header, decoder.body)
      BY DEF before
    <3> QED BY <2>1, <2>2, <2>3, <3>1, <3>2 DEF At
  <2>5. Pushing(before, chunk, 0, Started(decoder))
    BY <2>1, <2>2, <2>4 DEF Pushing
  <2> QED BY <2>1, <2>5
<1> HIDE DEF before
<1>5. \E f : Follows(f, n, Started(decoder), next, S)
  <2>1. Started(decoder) \in S[0]
    BY <1>1, <1>4
  <2>2. ASSUME NEW i \in 1..n, NEW s \in S[i - 1] PROVE next[<<s, i>>] \in S[i]
    <3>1. S[i] = States(i) /\ S[i - 1] = States(i - 1)
      BY <1>1
    <3> HIDE DEF S, next, States
    <3> QED BY <1>3, <3>1
  <2> HIDE DEF S, next, n
  <2>3. Keeps(n, next, S)
    BY <2>2 DEF Keeps
  <2> QED BY <1>1, <2>1, <2>3, Recursion
<1>6. PICK f : /\ f = [i \in 0..n |-> f[i]] /\ f[0] = Started(decoder)
               /\ \A i \in 0..n : f[i] \in States(i)
               /\ \A i \in 1..n : f[i] = next[<<f[i - 1], i>>]
  <2>1. \A i \in 0..n : S[i] = States(i)
    OBVIOUS
  <2> HIDE DEF S, next, n, States
  <2> QED BY <1>5, <2>1 DEF Follows
<1> HIDE DEF States
<1>7. f = go(f)
  <2>1. ASSUME NEW i \in 1..n PROVE f[i] = TurnIfMore(f[i - 1], chunk)
    <3>1. i - 1 \in 0..n
      BY <1>1
    <3> HIDE DEF next, n
    <3> QED BY <1>3, <1>6, <3>1
  <2>2. \A i \in 0..n : i # 0 => i \in 1..n
    BY <1>1
  <2>3. \A i \in 0..n : f[i] = IF i = 0 THEN Started(decoder) ELSE TurnIfMore(f[i - 1], chunk)
    <3> HIDE DEF next, n
    <3> QED BY <1>6, <2>1, <2>2
  <2> HIDE DEF next
  <2> QED BY <1>6, <2>3
<1>8. V = go(V)
  <2> HIDE DEF go
  <2> QED BY <1>7
<1> HIDE DEF V, S
<1>9. V[0] = Started(decoder) /\ \A i \in 1..n : V[i] = TurnIfMore(V[i - 1], chunk)
  <2>1. 0 \in 0..n /\ \A i \in 1..n : i \in 0..n /\ i # 0
    BY <1>1
  <2> QED BY <1>8, <2>1
<1>10. V[n] \in States(n)
  <2> HIDE DEF go, n, next
  <2> DEFINE T == {i \in 0..n : V[i] \in States(i)}
  <2>1. 0 \in T
    <3>1. V[0] = Started(decoder) /\ 0 \in 0..n
      BY <1>1, <1>9
    <3> QED BY ONLY <1>4, <3>1 DEF T
  <2>2. ASSUME NEW i \in 1..n, i - 1 \in T PROVE i \in T
    <3>1. V[i] = TurnIfMore(V[i - 1], chunk) /\ V[i - 1] \in States(i - 1) /\ i \in 0..n
      BY <1>1, <1>9, <2>2
    <3>2. V[i] \in States(i)
      BY <1>3, <3>1
    <3> QED BY <3>1, <3>2
  <2> HIDE DEF T
  <2>3. \A i \in 0..n : i \in T
    BY <1>1, <2>1, <2>2, UpTo
  <2>4. n \in T
    BY <1>1, <2>3
  <2> QED BY <2>4 DEF T
<1> QED BY <1>2, <1>10 DEF States, before

\* A connection that has received a stream: what it has of the frames, and the
\* rest of the stream.
Results == [frames : Seq(Allowed), decoder : Decoders, error : BOOLEAN]
Receiving(bytes, result) ==
    /\ result \in Results
    /\ result.error =>
         \E s \in Seq(Byte) : Refused(s) /\ bytes = Cat(Flatten(result.frames), s)
    /\ ~result.error =>
         /\ Decoding(result.decoder)
         /\ bytes = Cat(Flatten(result.frames), Cat(result.decoder.header, result.decoder.body))

LEMMA RefusedGoesOn ==
    ASSUME NEW s \in Seq(Byte), Refused(s), NEW x \in Seq(Byte)
    PROVE  Refused(Cat(s, x))
<1>1. PICK got \in Seq(Allowed), h, r \in Seq(Byte) :
        TooLong(h) /\ s = Cat(Flatten(got), Cat(h, r))
  BY DEF Refused
<1>2. PICK F : F = Flatten(got)
  OBVIOUS
<1>3. F \in Seq(Byte) /\ Cat(h, r) \in Seq(Byte) /\ Cat(r, x) \in Seq(Byte)
  BY <1>2, FlattenIs, CatIs
<1>4. Cat(Cat(F, Cat(h, r)), x) = Cat(F, Cat(Cat(h, r), x))
  BY <1>3, CatAssociates
<1>5. Cat(Cat(h, r), x) = Cat(h, Cat(r, x))
  BY CatAssociates
<1> QED BY <1>1, <1>2, <1>3, <1>4, <1>5 DEF Refused

LEMMA ReceivedKeeps ==
    ASSUME NEW bytes \in Seq(Byte), NEW result, Receiving(bytes, result), NEW chunk \in Seq(Byte)
    PROVE  Receiving(Cat(bytes, chunk), Received(result, chunk))
<1>1. PICK F : F = Flatten(result.frames)
  OBVIOUS
<1>2. result \in Results /\ F \in Seq(Byte) /\ result.frames \in Seq(Allowed) /\ result.error \in BOOLEAN
  BY <1>1, FlattenIs DEF Receiving, Results
<1>3. CASE result.error
  <2>1. Received(result, chunk) = result
    BY <1>3 DEF Received
  <2>2. PICK s \in Seq(Byte) : Refused(s) /\ bytes = Cat(F, s)
    BY <1>1, <1>3 DEF Receiving
  <2>3. Cat(s, chunk) \in Seq(Byte) /\ Refused(Cat(s, chunk))
    BY <2>2, CatIs, RefusedGoesOn
  <2>4. Cat(bytes, chunk) = Cat(F, Cat(s, chunk))
    BY <1>2, <2>2, CatAssociates
  <2> QED BY <1>1, <1>2, <1>3, <2>1, <2>3, <2>4 DEF Receiving
<1>4. CASE ~result.error
  <2>1. PICK before, pushed : /\ before = Cat(result.decoder.header, result.decoder.body)
                              /\ pushed = Push(result.decoder, chunk)
    OBVIOUS
  <2>2. Decoding(result.decoder) /\ bytes = Cat(F, before)
    BY <1>1, <1>4, <2>1 DEF Receiving
  <2>3. Pushing(before, chunk, Len(chunk), pushed)
    BY <2>1, <2>2, PushIs
  <2>4. before \in Seq(Byte) /\ Cat(before, chunk) \in Seq(Byte)
    BY <2>1, <2>2, CatIs DEF Decoding, Decoders
  <2>5. Cat(bytes, chunk) = Cat(F, Cat(before, chunk))
    BY <1>2, <2>2, <2>4, CatAssociates
  <2>6. /\ pushed \in PushStates /\ pushed.frames \in Seq(Allowed)
        /\ pushed.decoder \in Decoders /\ pushed.decoder.error \in BOOLEAN
    BY <2>3 DEF Pushing, PushStates, Decoders
  <2>7. CASE pushed.decoder.error
    <3>1. Received(result, chunk)
            = [frames |-> result.frames, decoder |-> pushed.decoder, error |-> TRUE]
      BY <1>4, <2>1, <2>6, <2>7 DEF Received
    <3>2. Refused(Cat(before, chunk))
      BY <2>3, <2>7 DEF Pushing
    <3>3. Received(result, chunk) \in Results
      BY <1>2, <2>6, <3>1 DEF Results
    <3> QED BY <1>1, <2>4, <2>5, <3>1, <3>2, <3>3 DEF Receiving
  <2>8. CASE ~pushed.decoder.error
    <3>1. Received(result, chunk)
            = [frames |-> result.frames \o pushed.frames, decoder |-> pushed.decoder, error |-> FALSE]
      BY <1>4, <2>1, <2>6, <2>8 DEF Received
    <3>2. Decoding(pushed.decoder)
      BY <2>3, <2>8 DEF Pushing
    <3>3. PICK done, left \in Seq(Byte) : At(before, chunk, Len(chunk), pushed, done, left)
      BY <2>3, <2>8 DEF Pushing
    <3>4. PICK G, k : /\ G = Flatten(pushed.frames)
                      /\ k = Cat(pushed.decoder.header, pushed.decoder.body)
      OBVIOUS
    <3>5. /\ chunk = Cat(done, left) /\ (left = <<>> \/ Len(chunk) <= Len(done))
          /\ Cat(before, done) = Cat(G, k)
      BY <3>3, <3>4 DEF At
    <3>6. chunk = done
      <4>1. Len(chunk) = Len(done) + Len(left) /\ Len(done) \in Nat /\ Len(left) \in Nat
        BY <3>5, CatIs, LenProperties
      <4>2. left = <<>>
        BY <3>5, <4>1, EmptyIs
      <4> QED BY <3>5, <4>2, CatEmpty
    <3>7. G \in Seq(Byte) /\ k \in Seq(Byte)
      BY <2>6, <3>2, <3>4, FlattenIs, CatIs DEF Decoding, Decoders
    <3>8. Cat(F, Cat(G, k)) = Cat(Cat(F, G), k)
      BY <1>2, <3>7, CatAssociates
    <3>9. PICK joined : joined = result.frames \o pushed.frames
      OBVIOUS
    <3>10. joined \in Seq(Allowed) /\ Flatten(joined) = Cat(F, G)
      <4>1. /\ result.frames \o pushed.frames \in Seq(Allowed)
            /\ Flatten(result.frames \o pushed.frames)
                 = Cat(Flatten(result.frames), Flatten(pushed.frames))
        BY <1>2, <2>6, FlattenIs, Zenon
      <4> QED BY ONLY <1>1, <3>4, <3>9, <4>1
    <3>11. PICK after : after = Received(result, chunk)
      OBVIOUS
    <3>12. after = [frames |-> joined, decoder |-> pushed.decoder, error |-> FALSE]
      BY <3>1, <3>9, <3>11
    <3>13. after \in Results
      BY <2>6, <3>10, <3>12 DEF Results
    <3>14. Cat(bytes, chunk) = Cat(Flatten(joined), k)
      BY ONLY <2>5, <3>5, <3>6, <3>8, <3>10
    <3>15. Receiving(Cat(bytes, chunk), after)
      BY <3>2, <3>4, <3>12, <3>13, <3>14 DEF Receiving
    <3> QED BY <3>11, <3>15
  <2> QED BY <2>6, <2>7, <2>8
<1> QED BY <1>2, <1>3, <1>4

LEMMA ReceiveIs ==
    ASSUME NEW chunks \in Pieces
    PROVE  Receiving(Joined(chunks), Receive(chunks))
<1> DEFINE n == Len(chunks)
           go(r) == [i \in 0..Len(chunks) |->
                       IF i = 0 THEN Connected ELSE Received(r[i - 1], chunks[i])]
           V == CHOOSE r : r = go(r)
           next == [p \in Results \X (1..n) |-> Received(p[1], chunks[p[2]])]
<1>1. n \in Nat
  BY DEF Pieces
<1>2. Receive(chunks) = V[n]
  BY DEF Receive
<1>3. PICK j : Joins(chunks, j) /\ Joined(chunks) = j[n]
  BY JoinedIs
<1> DEFINE States(i) == {r \in Results : Receiving(j[i], r)}
           S == [i \in 0..n |-> States(i)]
<1>4. ASSUME NEW i \in 1..n, NEW r \in States(i - 1)
      PROVE  next[<<r, i>>] = Received(r, chunks[i]) /\ Received(r, chunks[i]) \in States(i)
  <2>1. r \in Results /\ Receiving(j[i - 1], r) /\ i - 1 \in 0..n
    BY <1>1
  <2>2. chunks[i] \in Seq(Byte) /\ j[i - 1] \in Seq(Byte) /\ j[i] = Cat(j[i - 1], chunks[i])
    <3>1. chunks[i] \in Seq(Byte)
      BY ElementOfSeq DEF Pieces
    <3>2. j[i - 1] \in Seq(Byte) /\ j[i] = j[i - 1] \o chunks[i]
      BY <1>3, <2>1 DEF Joins
    <3> QED BY <3>1, <3>2 DEF Cat
  <2>3. PICK x, c : x = j[i - 1] /\ c = chunks[i]
    OBVIOUS
  <2>4. Receiving(Cat(x, c), Received(r, c))
    BY <2>1, <2>2, <2>3, ReceivedKeeps
  <2>5. Receiving(j[i], Received(r, chunks[i]))
    BY ONLY <2>2, <2>3, <2>4
  <2>6. Received(r, chunks[i]) \in Results
    BY <2>5 DEF Receiving
  <2>7. next[<<r, i>>] = Received(r, chunks[i])
    BY <2>1
  <2> QED BY <2>5, <2>6, <2>7
<1>5. Connected \in States(0)
  <2>1. Connected \in Results /\ ~Connected.error /\ Connected.frames = <<>> /\ Connected.decoder = NewDecoder
    BY FlattenEmpty, NewDecoding DEF Connected, Results
  <2>2. j[0] = <<>>
    BY <1>3 DEF Joins
  <2>3. Cat(<<>>, Cat(<<>>, <<>>)) = <<>>
    BY CatEmpty
  <2>4. Receiving(<<>>, Connected)
    BY <2>1, <2>3, FlattenEmpty, NewDecoding DEF Receiving, NewDecoder
  <2> QED BY <2>1, <2>2, <2>4
<1>6. \E f : Follows(f, n, Connected, next, S)
  <2>1. Connected \in S[0]
    BY <1>1, <1>5
  <2>2. ASSUME NEW i \in 1..n, NEW r \in S[i - 1] PROVE next[<<r, i>>] \in S[i]
    <3>1. S[i] = States(i) /\ S[i - 1] = States(i - 1)
      BY <1>1
    <3> HIDE DEF S, next, States
    <3> QED BY <1>4, <3>1
  <2> HIDE DEF S, next, n
  <2>3. Keeps(n, next, S)
    BY <2>2 DEF Keeps
  <2> QED BY <1>1, <2>1, <2>3, Recursion
<1>7. PICK f : /\ f = [i \in 0..n |-> f[i]] /\ f[0] = Connected
               /\ \A i \in 0..n : f[i] \in States(i)
               /\ \A i \in 1..n : f[i] = next[<<f[i - 1], i>>]
  <2>1. \A i \in 0..n : S[i] = States(i)
    OBVIOUS
  <2> HIDE DEF S, next, n, States
  <2> QED BY <1>6, <2>1 DEF Follows
<1> HIDE DEF States
<1>8. f = go(f)
  <2>1. ASSUME NEW i \in 1..n PROVE f[i] = Received(f[i - 1], chunks[i])
    <3>1. i - 1 \in 0..n
      BY <1>1
    <3> HIDE DEF next, n
    <3> QED BY <1>4, <1>7, <3>1
  <2>2. \A i \in 0..n : i # 0 => i \in 1..n
    BY <1>1
  <2>3. \A i \in 0..n : f[i] = IF i = 0 THEN Connected ELSE Received(f[i - 1], chunks[i])
    <3> HIDE DEF next, n
    <3> QED BY <1>7, <2>1, <2>2
  <2> HIDE DEF next
  <2> QED BY <1>7, <2>3
<1>9. V = go(V)
  <2> HIDE DEF go
  <2> QED BY <1>8
<1> HIDE DEF V, S
<1>10. V[0] = Connected /\ \A i \in 1..n : V[i] = Received(V[i - 1], chunks[i])
  <2>1. 0 \in 0..n /\ \A i \in 1..n : i \in 0..n /\ i # 0
    BY <1>1
  <2> QED BY <1>9, <2>1
<1>11. V[n] \in States(n)
  <2> HIDE DEF go, n, next
  <2> DEFINE T == {i \in 0..n : V[i] \in States(i)}
  <2>1. 0 \in T
    <3>1. V[0] = Connected /\ 0 \in 0..n
      BY <1>1, <1>10
    <3> QED BY ONLY <1>5, <3>1 DEF T
  <2>2. ASSUME NEW i \in 1..n, i - 1 \in T PROVE i \in T
    <3>1. V[i] = Received(V[i - 1], chunks[i]) /\ V[i - 1] \in States(i - 1) /\ i \in 0..n
      BY <1>1, <1>10, <2>2
    <3>2. V[i] \in States(i)
      BY <1>4, <3>1
    <3> QED BY <3>1, <3>2
  <2> HIDE DEF T
  <2>3. \A i \in 0..n : i \in T
    BY <1>1, <2>1, <2>2, UpTo
  <2>4. n \in T
    BY <1>1, <2>3
  <2> QED BY <2>4 DEF T
<1> QED BY <1>2, <1>3, <1>11 DEF States

\* What a decoder keeps is not a whole frame, and a length that is refused is
\* not the length of one.
LEMMA Unfinished ==
    ASSUME NEW decoder, Decoding(decoder), NEW p \in Allowed, NEW r \in Seq(Byte),
           Cat(decoder.header, decoder.body) = Cat(Encode(p), r)
    PROVE  FALSE
<1>1. PICK h, b : h = decoder.header /\ b = decoder.body
  OBVIOUS
<1>2. /\ h \in Seq(Byte) /\ b \in Seq(Byte) /\ Len(h) <= HeaderBytes
      /\ Len(h) < HeaderBytes => b = <<>>
      /\ Len(h) = HeaderBytes => Len(b) < Length(h)
      /\ Cat(h, b) = Cat(Encode(p), r)
  BY <1>1 DEF Decoding, Decoders
<1>3. PICK g \in Seq(Byte) :
        /\ p \in Seq(Byte) /\ Len(g) = HeaderBytes /\ Encode(p) = Cat(g, p) /\ Encode(p) \in Seq(Byte)
  BY FrameIs
<1>4. Len(Cat(h, b)) = Len(h) + Len(b)
  BY <1>2, CatIs
<1>5. Len(Encode(p)) = HeaderBytes + Len(p)
  BY <1>3, CatIs
<1>6. Len(Cat(Encode(p), r)) = Len(Encode(p)) + Len(r)
  BY <1>3, CatIs
<1>7. /\ Len(h) \in Nat /\ Len(b) \in Nat /\ Len(p) \in Nat /\ Len(r) \in Nat /\ HeaderBytes \in Nat
      /\ Len(h) + Len(b) = (HeaderBytes + Len(p)) + Len(r)
  BY <1>2, <1>3, <1>4, <1>5, <1>6, FramesAssumption, LenProperties
<1>8. Len(h) = HeaderBytes
  <2>1. CASE Len(h) < HeaderBytes
    <3>1. Len(b) = 0
      BY <1>2, <2>1, EmptyIs
    <3> QED BY ONLY <1>7, <2>1, <3>1
  <2>2. Len(h) <= HeaderBytes
    BY <1>2
  <2> QED BY ONLY <1>7, <2>1, <2>2
<1>9. Length(h) = Len(p)
  BY <1>2, <1>8, HeaderInFront
<1>10. Len(b) < Len(p)
  BY <1>2, <1>8, <1>9
<1> QED BY ONLY <1>7, <1>8, <1>10

LEMMA NotAFrame ==
    ASSUME NEW h, TooLong(h), NEW r \in Seq(Byte), NEW p \in Allowed, NEW s \in Seq(Byte),
           Cat(h, r) = Cat(Encode(p), s)
    PROVE  FALSE
<1>1. h \in Seq(Byte) /\ Len(h) = HeaderBytes /\ MaxPayload < Length(h)
  BY DEF TooLong
<1>2. Length(h) = Len(p)
  BY <1>1, HeaderInFront
<1>3. Len(p) <= MaxPayload /\ Len(p) \in Nat /\ MaxPayload \in Nat
  BY FrameIs, FramesAssumption
<1> QED BY <1>1, <1>2, <1>3

LEMMA FrameIsNotEmpty ==
    ASSUME NEW p \in Allowed, NEW r \in Seq(Byte)
    PROVE  Cat(Encode(p), r) # <<>>
<1>1. PICK g \in Seq(Byte) :
        /\ p \in Seq(Byte) /\ Len(g) = HeaderBytes /\ Encode(p) = Cat(g, p) /\ Encode(p) \in Seq(Byte)
  BY FrameIs
<1>2. Len(Encode(p)) = HeaderBytes + Len(p)
  BY <1>1, CatIs
<1>3. Len(Cat(Encode(p), r)) = Len(Encode(p)) + Len(r)
  BY <1>1, CatIs
<1>4. Len(p) \in Nat /\ Len(r) \in Nat /\ HeaderBytes \in Nat \ {0}
  BY <1>1, FramesAssumption, LenProperties
<1>5. Len(Cat(Encode(p), r)) # 0
  BY ONLY <1>2, <1>3, <1>4
<1> QED BY <1>5, EmptySeq

\* The streams that a connection has received are its frames and what is behind
\* them: there are no more of them than were sent.
LEMMA ReceivedIsSent ==
    ASSUME NEW got \in Seq(Allowed), NEW s \in Seq(Byte), NEW sent \in Seq(Allowed), NEW t \in Seq(Byte),
           Cat(Flatten(got), s) = Cat(Flatten(sent), t),
           \A p \in Allowed, r \in Seq(Byte) : t # Cat(Encode(p), r)
    PROVE  /\ Len(got) <= Len(sent) /\ \A i \in 1..Len(got) : got[i] = sent[i]
           /\ (got = sent /\ s = t) \/ \E p \in Allowed, r \in Seq(Byte) : s = Cat(Encode(p), r)
<1>1. Len(got) \in Nat /\ Len(sent) \in Nat
  BY LenProperties
<1>2. Len(got) <= Len(sent)
  <2>1. CASE Len(sent) < Len(got)
    <3>1. \E p \in Allowed, d \in Seq(Byte) : t = Cat(Encode(p), Cat(d, s))
      <4>1. Len(sent) <= Len(got)
        BY <1>1, <2>1
      <4> QED BY <2>1, <4>1, FramesAgree
    <3>2. \A d \in Seq(Byte) : Cat(d, s) \in Seq(Byte)
      BY CatIs
    <3> QED BY <3>1, <3>2
  <2> QED BY <1>1, <2>1
<1>3. \A i \in 1..Len(got) : got[i] = sent[i]
  BY <1>2, FramesAgree
<1>4. Len(got) = Len(sent) => got = sent /\ s = t
  BY <1>2, FramesAgree
<1>5. Len(got) < Len(sent) => \E p \in Allowed, r \in Seq(Byte) : s = Cat(Encode(p), r)
  <2> SUFFICES ASSUME Len(got) < Len(sent)
               PROVE  \E p \in Allowed, r \in Seq(Byte) : s = Cat(Encode(p), r)
    OBVIOUS
  <2>1. \E p \in Allowed, d \in Seq(Byte) : s = Cat(Encode(p), Cat(d, t))
    BY <1>2, FramesAgree
  <2>2. \A d \in Seq(Byte) : Cat(d, t) \in Seq(Byte)
    BY CatIs
  <2> QED BY <2>1, <2>2
<1> QED BY <1>1, <1>2, <1>3, <1>4, <1>5

\* However a stream of frames is cut into chunks, at any byte of a header or of a
\* body, several frames in a chunk or a frame in many, push() yields what was sent,
\* in order, empty payloads included, and the decoder ends where it began.
THEOREM PayloadsSurvive ==
    ASSUME NEW payloads \in Seq(Allowed)
    PROVE  FramesSurvive(payloads)
<1>1. PICK bytes : bytes = Flatten(payloads)
  OBVIOUS
<1>2. bytes \in Seq(Byte) /\ Cat(bytes, <<>>) = bytes /\ <<>> \in Seq(Byte)
  BY <1>1, FlattenIs, CatEmpty
<1>3. \A p \in Allowed, r \in Seq(Byte) : <<>> # Cat(Encode(p), r)
  BY FrameIsNotEmpty
<1>4. ASSUME NEW result, Receiving(bytes, result)
      PROVE  ~result.error /\ result.frames = payloads /\ result.decoder = NewDecoder
  <2>1. result \in Results /\ result.frames \in Seq(Allowed) /\ result.error \in BOOLEAN
    BY <1>4 DEF Receiving, Results
  <2>2. ASSUME result.error PROVE FALSE
    <3>1. PICK s \in Seq(Byte) : Refused(s) /\ bytes = Cat(Flatten(result.frames), s)
      BY <1>4, <2>2 DEF Receiving
    <3>2. PICK got \in Seq(Allowed), h, r \in Seq(Byte) :
            TooLong(h) /\ s = Cat(Flatten(got), Cat(h, r))
      BY <3>1 DEF Refused
    <3>3. PICK t, G : t = Cat(h, r) /\ G = Flatten(got)
      OBVIOUS
    <3>4. t \in Seq(Byte) /\ G \in Seq(Byte) /\ Flatten(result.frames) \in Seq(Byte)
      BY <2>1, <3>3, CatIs, FlattenIs
    <3>5. PICK all : all = result.frames \o got
      OBVIOUS
    <3>6. all \in Seq(Allowed) /\ Flatten(all) = Cat(Flatten(result.frames), G)
      BY <2>1, <3>3, <3>5, FlattenIs, Zenon
    <3>7. Cat(Cat(Flatten(result.frames), G), t) = Cat(Flatten(result.frames), Cat(G, t))
      BY <3>4, CatAssociates
    <3>8. Cat(Flatten(all), t) = Cat(Flatten(payloads), <<>>)
      BY ONLY <1>1, <1>2, <3>1, <3>2, <3>3, <3>6, <3>7
    <3>9. t = <<>> \/ \E p \in Allowed, q \in Seq(Byte) : t = Cat(Encode(p), q)
      <4>1. PICK nil : nil = <<>>
        OBVIOUS
      <4>2. nil \in Seq(Byte) /\ \A p \in Allowed, q \in Seq(Byte) : nil # Cat(Encode(p), q)
        BY <1>2, <1>3, <4>1
      <4>3. Cat(Flatten(all), t) = Cat(Flatten(payloads), nil)
        BY ONLY <3>8, <4>1
      <4>4. t = nil \/ \E p \in Allowed, q \in Seq(Byte) : t = Cat(Encode(p), q)
        <5>1. t \in Seq(Byte) /\ all \in Seq(Allowed)
          BY <3>4, <3>6
        <5> QED BY ONLY <4>2, <4>3, <5>1, payloads \in Seq(Allowed), ReceivedIsSent
      <4> QED BY ONLY <4>1, <4>4
    <3>10. t # <<>>
      <4>1. h \in Seq(Byte) /\ Len(h) = HeaderBytes /\ HeaderBytes \in Nat \ {0}
        BY <3>2, FramesAssumption DEF TooLong
      <4>2. Len(t) = Len(h) + Len(r) /\ Len(r) \in Nat
        BY <3>3, <4>1, CatIs, LenProperties
      <4>3. Len(t) # 0
        BY ONLY <4>1, <4>2
      <4> QED BY <4>3, EmptySeq
    <3> QED BY <3>2, <3>3, <3>9, <3>10, NotAFrame
  <2>3. ~result.error
    BY <2>2
  <2>4. PICK k : k = Cat(result.decoder.header, result.decoder.body)
    OBVIOUS
  <2>5. Decoding(result.decoder) /\ bytes = Cat(Flatten(result.frames), k)
    BY <1>4, <2>3, <2>4 DEF Receiving
  <2>6. k \in Seq(Byte)
    BY <2>4, <2>5, CatIs DEF Decoding, Decoders
  <2>7. Cat(Flatten(result.frames), k) = Cat(Flatten(payloads), <<>>)
    BY ONLY <1>1, <1>2, <2>5
  <2>8. \/ result.frames = payloads /\ k = <<>>
        \/ \E p \in Allowed, q \in Seq(Byte) : k = Cat(Encode(p), q)
    <3>1. PICK nil, few : nil = <<>> /\ few = result.frames
      OBVIOUS
    <3>2. nil \in Seq(Byte) /\ \A p \in Allowed, q \in Seq(Byte) : nil # Cat(Encode(p), q)
      BY <1>2, <1>3, <3>1
    <3>3. Cat(Flatten(few), k) = Cat(Flatten(payloads), nil) /\ few \in Seq(Allowed)
      BY ONLY <2>1, <2>7, <3>1
    <3>4. \/ few = payloads /\ k = nil
          \/ \E p \in Allowed, q \in Seq(Byte) : k = Cat(Encode(p), q)
      BY ONLY <2>6, <3>2, <3>3, payloads \in Seq(Allowed), ReceivedIsSent
    <3> QED BY ONLY <3>1, <3>4
  <2>9. result.frames = payloads /\ k = <<>>
    BY <2>4, <2>5, <2>8, Unfinished
  <2>10. result.decoder = NewDecoder
    <3>1. PICK h, b : h = result.decoder.header /\ b = result.decoder.body
      OBVIOUS
    <3>2. h \in Seq(Byte) /\ b \in Seq(Byte) /\ result.decoder = [header |-> h, body |-> b, error |-> FALSE]
      BY <2>5, <3>1 DEF Decoding, Decoders
    <3>3. Len(h) + Len(b) = 0 /\ Len(h) \in Nat /\ Len(b) \in Nat
      <4>1. Len(Cat(h, b)) = Len(h) + Len(b) /\ Len(h) \in Nat /\ Len(b) \in Nat
        BY <3>2, CatIs, LenProperties
      <4>2. k = Cat(h, b) /\ Len(k) = 0
        BY <2>4, <2>6, <2>9, <3>1, EmptyIs
      <4> QED BY ONLY <4>1, <4>2
    <3>4. h = <<>> /\ b = <<>>
      <4>1. Len(h) = 0 /\ Len(b) = 0
        BY ONLY <3>3
      <4> QED BY <3>2, <4>1, EmptyIs
    <3> QED BY <3>2, <3>4 DEF NewDecoder
  <2> QED BY <2>3, <2>9, <2>10
<1>5. ASSUME NEW positions \in SUBSET (1..(Len(bytes) - 1))
      PROVE  Receiving(bytes, Receive(CutAt(bytes, positions)))
  <2>1. CutAt(bytes, positions) \in Pieces /\ Joined(CutAt(bytes, positions)) = bytes
    BY <1>2, CutAtIs
  <2>2. PICK chunks : chunks = CutAt(bytes, positions)
    OBVIOUS
  <2>3. Receiving(Joined(chunks), Receive(chunks))
    BY <2>1, <2>2, ReceiveIs
  <2> QED BY <2>1, <2>2, <2>3
<1>6. \A positions \in SUBSET (1..(Len(bytes) - 1)) :
        LET result == Receive(CutAt(bytes, positions))
        IN  ~result.error /\ result.frames = payloads /\ result.decoder = NewDecoder
  BY <1>4, <1>5, Zenon
<1> QED BY <1>1, <1>6, Zenon DEF FramesSurvive

\* A header with a length over MAX_MESSAGE_SIZE behind any frames is refused, however
\* the stream is cut, and nothing but a beginning of what was sent is yielded.
THEOREM LengthIsRefused ==
    ASSUME NEW payloads \in Seq(Allowed), NEW length \in Nat,
           MaxPayload < length, length < Power[HeaderBytes]
    PROVE  OversizeRefused(payloads, length)
<1>1. PICK good, t : good = Flatten(payloads) /\ t = Header(length)
  OBVIOUS
<1>2. PICK bytes : bytes = Cat(good, t)
  OBVIOUS
<1>3. good \in Seq(Byte) /\ TooLong(t) /\ t \in Seq(Byte)
  <2>1. Header(length) \in Seq(Byte) /\ Len(Header(length)) = HeaderBytes /\ Length(Header(length)) = length
    BY HeaderIs, LengthOfHeader
  <2> QED BY <1>1, <2>1, FlattenIs DEF TooLong
<1>4. \A p \in Allowed, r \in Seq(Byte) : t # Cat(Encode(p), r)
  <2> SUFFICES ASSUME NEW p \in Allowed, NEW r \in Seq(Byte), t = Cat(Encode(p), r) PROVE FALSE
    OBVIOUS
  <2>1. Cat(t, <<>>) = t /\ <<>> \in Seq(Byte)
    BY <1>3, CatEmpty
  <2> QED BY <1>3, <2>1, NotAFrame
<1>5. bytes \in Seq(Byte)
  BY <1>2, <1>3, CatIs
<1>6. ASSUME NEW result, Receiving(bytes, result)
      PROVE  result.error /\ IsPrefix(result.frames, payloads)
  <2>1. result \in Results /\ result.frames \in Seq(Allowed) /\ result.error \in BOOLEAN
    BY <1>6 DEF Receiving, Results
  <2>2. ASSUME ~result.error PROVE FALSE
    <3>1. PICK k : k = Cat(result.decoder.header, result.decoder.body)
      OBVIOUS
    <3>2. Decoding(result.decoder) /\ bytes = Cat(Flatten(result.frames), k)
      BY <1>6, <2>2, <3>1 DEF Receiving
    <3>3. k \in Seq(Byte)
      BY <3>1, <3>2, CatIs DEF Decoding, Decoders
    <3>4. Cat(Flatten(result.frames), k) = Cat(Flatten(payloads), t)
      BY ONLY <1>1, <1>2, <3>2
    <3>5. k = t \/ \E p \in Allowed, q \in Seq(Byte) : k = Cat(Encode(p), q)
      BY <1>3, <1>4, <2>1, <3>3, <3>4, ReceivedIsSent
    <3>6. k = t
      BY <3>1, <3>2, <3>5, Unfinished
    <3>7. PICK h, b : h = result.decoder.header /\ b = result.decoder.body
      OBVIOUS
    <3>8. /\ h \in Seq(Byte) /\ b \in Seq(Byte) /\ Len(h) <= HeaderBytes
          /\ Len(h) < HeaderBytes => b = <<>>
          /\ Len(h) = HeaderBytes => Length(h) <= MaxPayload
      BY <3>2, <3>7 DEF Decoding, Decoders
    <3>9. Len(t) = HeaderBytes /\ Len(t) = Len(h) + Len(b) /\ Len(h) \in Nat /\ Len(b) \in Nat
          /\ HeaderBytes \in Nat /\ MaxPayload < Length(t)
      <4>1. t = Cat(h, b)
        BY <3>1, <3>6, <3>7
      <4>2. Len(Cat(h, b)) = Len(h) + Len(b) /\ Len(h) \in Nat /\ Len(b) \in Nat
        BY <3>8, CatIs, LenProperties
      <4>3. Len(t) = HeaderBytes /\ MaxPayload < Length(t) /\ HeaderBytes \in Nat
        BY <1>3, FramesAssumption DEF TooLong
      <4> QED BY ONLY <4>1, <4>2, <4>3
    <3>10. Len(h) = HeaderBytes /\ Len(b) = 0
      <4>1. Len(h) < HeaderBytes => Len(b) = 0
        BY <3>8, EmptyIs
      <4>2. Len(h) <= HeaderBytes
        BY <3>8
      <4> QED BY ONLY <3>9, <4>1, <4>2
    <3>11. h = t
      <4>1. b = <<>>
        BY <3>8, <3>10, EmptyIs
      <4>2. Cat(h, b) = h
        BY <3>8, <4>1, CatEmpty
      <4> QED BY <3>1, <3>6, <3>7, <4>2
    <3>12. Length(t) \in Nat /\ MaxPayload \in Nat /\ Length(t) <= MaxPayload /\ MaxPayload < Length(t)
      BY <1>3, <3>8, <3>9, <3>10, <3>11, LengthIsNat, FramesAssumption
    <3> QED BY ONLY <3>12
  <2>3. result.error
    BY <2>2
  <2>4. PICK s \in Seq(Byte) : Refused(s) /\ bytes = Cat(Flatten(result.frames), s)
    BY <1>6, <2>3 DEF Receiving
  <2>5. PICK got \in Seq(Allowed), h, r \in Seq(Byte) :
          TooLong(h) /\ s = Cat(Flatten(got), Cat(h, r))
    BY <2>4 DEF Refused
  <2>6. PICK u, G : u = Cat(h, r) /\ G = Flatten(got)
    OBVIOUS
  <2>7. u \in Seq(Byte) /\ G \in Seq(Byte) /\ Flatten(result.frames) \in Seq(Byte)
    BY <2>1, <2>6, CatIs, FlattenIs
  <2>8. PICK all : all = result.frames \o got
    OBVIOUS
  <2>9. all \in Seq(Allowed) /\ Flatten(all) = Cat(Flatten(result.frames), G)
    BY <2>1, <2>6, <2>8, FlattenIs, Zenon
  <2>10. Cat(Cat(Flatten(result.frames), G), u) = Cat(Flatten(result.frames), Cat(G, u))
    BY <2>7, CatAssociates
  <2>11. Cat(Flatten(all), u) = Cat(Flatten(payloads), t)
    BY ONLY <1>1, <1>2, <2>4, <2>5, <2>6, <2>9, <2>10
  <2>12. Len(all) <= Len(payloads) /\ \A i \in 1..Len(all) : all[i] = payloads[i]
    BY <1>3, <1>4, <2>7, <2>9, <2>11, ReceivedIsSent
  <2>13. /\ Len(all) = Len(result.frames) + Len(got)
         /\ \A i \in 1..Len(result.frames) : all[i] = result.frames[i]
    BY <2>1, <2>8, ConcatProperties
  <2>14. Len(result.frames) \in Nat /\ Len(got) \in Nat /\ Len(payloads) \in Nat
    BY <2>1, LenProperties
  <2>15. Len(result.frames) <= Len(payloads) /\ Len(result.frames) <= Len(all)
    BY <2>12, <2>13, <2>14
  <2>16. \A i \in 1..Len(result.frames) : result.frames[i] = payloads[i]
    BY <2>12, <2>13, <2>14, <2>15
  <2>17. PICK few : few = result.frames
    OBVIOUS
  <2>18. IsPrefix(few, payloads)
    <3>1. few \in Seq(Allowed) /\ Len(few) \in Nat /\ Len(few) <= Len(payloads) /\ Len(payloads) \in Nat
          /\ \A i \in 1..Len(few) : few[i] = payloads[i]
      BY <2>1, <2>14, <2>15, <2>16, <2>17
    <3>2. 1 \in 1..Len(payloads) + 1 /\ Len(few) \in 1 - 1..Len(payloads)
      BY <3>1
    <3>3. /\ SubSeq(payloads, 1, Len(few)) \in Seq(Allowed)
          /\ Len(SubSeq(payloads, 1, Len(few))) = Len(few)
          /\ \A i \in 1..Len(few) : SubSeq(payloads, 1, Len(few))[i] = payloads[i]
      BY <3>1
    <3>4. few = SubSeq(payloads, 1, Len(few))
      BY <3>1, <3>3, SeqEqual
    <3> QED BY <3>1, <3>4 DEF IsPrefix
  <2> QED BY <2>3, <2>17, <2>18
<1>7. ASSUME NEW positions \in SUBSET (1..(Len(bytes) - 1))
      PROVE  Receiving(bytes, Receive(CutAt(bytes, positions)))
  <2>1. CutAt(bytes, positions) \in Pieces /\ Joined(CutAt(bytes, positions)) = bytes
    BY <1>5, CutAtIs
  <2>2. PICK chunks : chunks = CutAt(bytes, positions)
    OBVIOUS
  <2>3. Receiving(Joined(chunks), Receive(chunks))
    BY <2>1, <2>2, ReceiveIs
  <2> QED BY <2>1, <2>2, <2>3
<1>8. \A positions \in SUBSET (1..(Len(bytes) - 1)) :
        LET result == Receive(CutAt(bytes, positions))
        IN  result.error /\ IsPrefix(result.frames, payloads)
  BY <1>6, <1>7, Zenon
<1>9. bytes = Flatten(payloads) \o Header(length)
  BY <1>1, <1>2 DEF Cat
<1> QED BY <1>8, <1>9, Zenon DEF OversizeRefused

\* Both, for the payloads and the lengths of an instance.
THEOREM FramingIsExact == FramingExact
<1>1. ASSUME NEW payloads \in Payloads PROVE payloads \in Seq(Allowed)
  <2>1. payloads \in Seq(Seq(Byte)) /\ \A i \in DOMAIN payloads : Len(payloads[i]) <= MaxPayload
    BY WireFormatsAssumption
  <2>2. Len(payloads) \in Nat /\ payloads = [i \in 1..Len(payloads) |-> payloads[i]]
        /\ \A i \in 1..Len(payloads) : payloads[i] \in Seq(Byte) /\ i \in DOMAIN payloads
    BY <2>1
  <2>3. \A i \in 1..Len(payloads) : payloads[i] \in Allowed
    BY <2>1, <2>2 DEF Allowed
  <2> QED BY <2>2, <2>3, IsASeq
<1>2. \A length \in Oversize : length \in Nat /\ MaxPayload < length /\ length < Power[HeaderBytes]
  BY WireFormatsAssumption
<1> QED BY <1>1, <1>2, PayloadsSurvive, LengthIsRefused DEF FramingExact

\* The percentage of the cache, for the prompts of an instance.
THEOREM PercentagesAreExact == PercentagesExact
<1>1. \A prompt \in Prompts : prompt.all \in Nat \ {0} /\ prompt.misses \in 0..prompt.all
  BY WireFormatsAssumption
<1> QED BY <1>1, CachePercentIsExact DEF PercentagesExact

\* FormatsExact holds whatever the leader does: codec.ts frames and projection.ts
\* rounds without its state.
THEOREM FormatsAreExact == WireSpec => []FormatsExact
<1>1. FormatsExact
  BY FramingIsExact, PercentagesAreExact DEF FormatsExact
<1> QED BY <1>1, PTL
=============================================================================
