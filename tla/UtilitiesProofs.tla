-------------------------- MODULE UtilitiesProofs --------------------------
(***************************************************************************)
(* Proofs about the calls that keep no state: the wait with a deadline,    *)
(* for every scale of its clock, every timeout and every schedule; the     *)
(* order of values, for all values; ranges, for integers of every width.   *)
(***************************************************************************)
EXTENDS Utilities, SequenceTheorems, NaturalsInduction, WellFoundedInduction, TLAPS

-----------------------------------------------------------------------------
\* Numbers.

\* What is false of some natural number is false of a first.
LEMMA FirstOf ==
  ASSUME NEW P, P \subseteq Nat, P # {}
  PROVE  \E n \in P : \A m \in P : n <= m
<1>1. PICK n \in P : \A m \in P : ~(<<m, n>> \in OpToRel(<, Nat))
  BY NatLessThanWellFounded, WFMin
<1>2. ASSUME NEW m \in P
      PROVE  n <= m
  <2>1. ~(m < n)
    BY <1>1 DEF OpToRel
  <2>2. QED
    BY <2>1
<1>3. QED
  BY <1>2

\* A function can be defined step by step: g gives the next value.
Steps(f, a, g, S) == /\ f \in [Nat -> S] /\ f[0] = a
                     /\ \A n \in Nat : f[n + 1] = g[n][f[n]]

\* There is such a function.
LEMMA StepsExist ==
  ASSUME NEW S, NEW a \in S, NEW g \in [Nat -> [S -> S]]
  PROVE  \E f : Steps(f, a, g, S)
<1>. DEFINE Upto(h, n) == /\ h \in [0..n -> S] /\ h[0] = a
                          /\ \A i \in 0..(n - 1) : h[i + 1] = g[i][h[i]]
            Bad == {n \in Nat : ~\E h : Upto(h, n)}
<1>1. Bad = {}
  <2>1. SUFFICES ASSUME Bad # {} PROVE FALSE
    OBVIOUS
  <2>2. PICK n \in Bad : \A m \in Bad : n <= m
    <3>1. Bad \subseteq Nat
      OBVIOUS
    <3>. HIDE DEF Bad
    <3>2. QED
      BY <2>1, <3>1, FirstOf
  <2>3. n \in Nat
    OBVIOUS
  <2>4. CASE n = 0
    <3>. DEFINE h == [i \in 0..0 |-> a]
    <3>1. Upto(h, 0)
      OBVIOUS
    <3>. HIDE DEF h, Upto
    <3>2. QED
      BY <2>2, <2>4, <3>1
  <2>5. CASE n # 0
    <3>1. n - 1 \in Nat /\ n - 1 \notin Bad
      <4>. HIDE DEF Bad
      <4>1. QED
        BY <2>2, <2>3, <2>5
    <3>2. PICK e : Upto(e, n - 1)
      <4>. HIDE DEF Upto
      <4>1. QED
        BY <3>1
    <3>. DEFINE h == [i \in 0..n |-> IF i = n THEN g[n - 1][e[n - 1]] ELSE e[i]]
    <3>3. e \in [0..(n - 1) -> S] /\ g[n - 1] \in [S -> S] /\ e[n - 1] \in S
      BY <2>3, <2>5, <3>1, <3>2
    <3>4. /\ \A i \in 0..(n - 1) : h[i] = e[i]
          /\ h[n] = g[n - 1][e[n - 1]] /\ h \in [0..n -> S]
      BY <2>3, <2>5, <3>1, <3>3
    <3>. HIDE DEF h
    <3>5. Upto(h, n)
      <4>1. h[0] = a
        BY <2>3, <2>5, <3>2, <3>4
      <4>2. ASSUME NEW i \in 0..(n - 1)
            PROVE  h[i + 1] = g[i][h[i]]
        <5>1. CASE i = n - 1
          BY <2>3, <2>5, <3>4, <5>1
        <5>2. CASE i # n - 1
          BY <2>3, <2>5, <3>2, <3>4, <5>2
        <5>3. QED
          BY <5>1, <5>2
      <4>3. QED
        BY <3>4, <4>1, <4>2
    <3>. HIDE DEF Upto
    <3>6. QED
      BY <2>2, <3>5
  <2>6. QED
    BY <2>4, <2>5
<1>2. \A n \in Nat : \E h : Upto(h, n)
  <2>. HIDE DEF Upto
  <2>1. QED
    BY <1>1
\* Two of them agree as far as both go.
<1>3. ASSUME NEW m \in Nat, NEW n \in Nat, m <= n, NEW h, NEW k, Upto(h, m), Upto(k, n)
      PROVE  h[m] = k[m]
  <2>. DEFINE D == {i \in 0..m : h[i] # k[i]}
  <2>1. ASSUME D # {}
        PROVE  FALSE
    <3>1. PICK i \in D : \A j \in D : i <= j
      <4>1. D \subseteq Nat
        OBVIOUS
      <4>. HIDE DEF D
      <4>2. QED
        BY <2>1, <4>1, FirstOf
    <3>2. i \in 0..m /\ h[i] # k[i] /\ i # 0
      BY <1>3, <3>1
    <3>3. i - 1 \in 0..(m - 1) /\ i - 1 \in 0..(n - 1) /\ h[i - 1] = k[i - 1]
      BY <1>3, <3>1, <3>2
    <3>4. h[i - 1 + 1] = g[i - 1][h[i - 1]] /\ k[i - 1 + 1] = g[i - 1][k[i - 1]] /\ i - 1 + 1 = i
      BY <1>3, <3>3
    <3>5. QED
      BY <3>2, <3>3, <3>4
  <2>2. QED
    BY <2>1
<1>4. PICK H : H = [n \in Nat |-> CHOOSE h : Upto(h, n)]
  OBVIOUS
<1>5. \A n \in Nat : Upto(H[n], n)
  <2>. HIDE DEF Upto
  <2>1. QED
    BY <1>2, <1>4
<1>6. PICK f : f = [n \in Nat |-> H[n][n]]
  OBVIOUS
<1>7. Steps(f, a, g, S)
  <2>1. ASSUME NEW n \in Nat
        PROVE  f[n] \in S /\ f[n + 1] = g[n][f[n]]
    <3>1. Upto(H[n], n) /\ Upto(H[n + 1], n + 1) /\ n + 1 \in Nat /\ n <= n + 1
      <4>. HIDE DEF Upto
      <4>1. QED
        BY <1>5
    <3>2. H[n][n] = H[n + 1][n]
      <4>. HIDE DEF Upto
      <4>1. QED
        BY <1>3, <3>1
    <3>3. H[n + 1][n + 1] = g[n][H[n + 1][n]]
      BY <3>1
    <3>4. QED
      BY <1>6, <3>1, <3>2, <3>3
  <2>2. f[0] = a
    BY <1>5, <1>6
  <2>3. f \in [Nat -> S]
    BY <1>6, <2>1
  <2>4. QED
    BY <2>1, <2>2, <2>3 DEF Steps
<1>8. QED
  BY <1>7

\* Powers of two double.
LEMMA PowersOfTwo ==
  \A k \in Nat : /\ Pow2[k] \in Nat \ {0} /\ Pow2[0] = 1
                 /\ Pow2[k + 1] = 2 * Pow2[k]
<1>. DEFINE g == [n \in Nat |-> [x \in Nat \ {0} |-> 2 * x]]
            Rec(f) == f = [k \in Nat |-> IF k = 0 THEN 1 ELSE 2 * f[k - 1]]
<1>1. PICK f : Steps(f, 1, g, Nat \ {0})
  <2>1. g \in [Nat -> [Nat \ {0} -> Nat \ {0}]]
    OBVIOUS
  <2>. HIDE DEF g
  <2>2. 1 \in Nat \ {0}
    OBVIOUS
  <2>3. QED
    BY <2>1, <2>2, StepsExist
<1>2. f \in [Nat -> Nat \ {0}] /\ f[0] = 1 /\ \A n \in Nat : f[n + 1] = 2 * f[n]
  BY <1>1 DEF Steps
<1>3. \A k \in Nat : f[k] = IF k = 0 THEN 1 ELSE 2 * f[k - 1]
  <2>1. ASSUME NEW k \in Nat, k # 0
        PROVE  f[k] = 2 * f[k - 1]
    <3>1. k - 1 \in Nat /\ k - 1 + 1 = k
      BY <2>1
    <3>2. QED
      BY <1>2, <3>1
  <2>2. QED
    BY <1>2, <2>1
<1>4. Rec(f)
  BY <1>2, <1>3
<1>5. Rec(Pow2)
  <2>1. Pow2 = CHOOSE e : Rec(e)
    BY DEF Pow2
  <2>. HIDE DEF Rec
  <2>2. QED
    BY <1>4, <2>1
<1>6. /\ DOMAIN Pow2 = Nat
      /\ \A k \in Nat : Pow2[k] = IF k = 0 THEN 1 ELSE 2 * Pow2[k - 1]
  BY <1>5
<1>7. \A k \in Nat : Pow2[k] \in Nat \ {0}
  <2>. DEFINE Bad == {k \in Nat : Pow2[k] \notin Nat \ {0}}
  <2>1. ASSUME Bad # {}
        PROVE  FALSE
    <3>1. PICK k \in Bad : \A j \in Bad : k <= j
      <4>1. Bad \subseteq Nat
        OBVIOUS
      <4>. HIDE DEF Bad
      <4>2. QED
        BY <2>1, <4>1, FirstOf
    <3>2. k # 0
      BY <1>6
    <3>3. k - 1 \in Nat /\ k - 1 \notin Bad
      <4>. HIDE DEF Bad
      <4>1. k \in Nat
        BY DEF Bad
      <4>2. QED
        BY <3>1, <3>2, <4>1
    <3>4. QED
      BY <1>6, <3>2, <3>3
  <2>2. QED
    BY <2>1
<1>8. QED
  BY <1>6, <1>7

\* Division.
LEMMA Divided ==
  ASSUME NEW x \in Nat, NEW n \in Nat \ {0}
  PROVE  /\ x \div n \in Nat /\ x % n \in 0..(n - 1)
         /\ (x \div n) * n + (x % n) = x
<1>1. x \div n \in Int /\ x % n \in 0..(n - 1)
  BY SMT
<1>2. x = n * (x \div n) + (x % n)
  BY SMT
<1>3. x \div n >= 0
  BY SMT
<1>4. (x \div n) * n = n * (x \div n)
  BY <1>1, SMT
<1>5. QED
  BY <1>1, <1>2, <1>3, <1>4, SMT

\* A rest is not divided.
LEMMA Undivided ==
  ASSUME NEW n \in Nat \ {0}, NEW x \in 0..(n - 1)
  PROVE  x \div n = 0 /\ x % n = x
<1>1. x \in Nat
  OBVIOUS
<1>2. /\ x \div n \in Nat /\ x % n \in 0..(n - 1)
      /\ (x \div n) * n + (x % n) = x
  BY <1>1, Divided
<1>3. x \div n = 0
  <2>1. SUFFICES ASSUME x \div n >= 1 PROVE FALSE
    BY <1>2
  <2>2. (x \div n) * n >= n
    BY <1>2, <2>1
  <2>3. QED
    BY <1>2, <2>2
<1>4. QED
  BY <1>2, <1>3

-----------------------------------------------------------------------------
\* Multiples keep the order of what is multiplied.
LEMMA Multiples ==
  ASSUME NEW k \in Int, NEW m \in Int, NEW d \in Nat \ {0}
  PROVE  k < m <=> k * d < m * d
<1>1. ASSUME NEW x \in Int, NEW y \in Int, x < y
      PROVE  x * d + d <= y * d
  <2>1. PICK e : e = y - x - 1
    OBVIOUS
  <2>2. e \in Nat /\ y = x + 1 + e
    BY <1>1, <2>1
  <2>3. (x + 1 + e) * d = x * d + d + e * d
    BY <2>2
  <2>4. x * d \in Int /\ y * d \in Int /\ e * d \in Nat
    BY <2>2
  <2>5. QED
    BY <2>2, <2>3, <2>4
<1>2. k * d \in Int /\ m * d \in Int
  OBVIOUS
<1>3. CASE k < m
  <2>1. k * d + d <= m * d
    BY <1>1, <1>3
  <2>2. QED
    BY <1>2, <1>3, <2>1
<1>4. CASE k = m
  BY <1>2, <1>4
<1>5. CASE m < k
  <2>1. m * d + d <= k * d
    BY <1>1, <1>5
  <2>2. QED
    BY <1>2, <1>5, <2>1
<1>6. QED
  BY <1>3, <1>4, <1>5

\* A multiple is what leaves no rest.
LEMMA NoRest ==
  ASSUME NEW x \in Nat, NEW d \in Nat \ {0}
  PROVE  x % d = 0 <=> \E k \in 0..x : x = k * d
<1>. DEFINE q == x \div d
            r == x % d
<1>1. q \in Nat /\ r \in 0..(d - 1) /\ q * d + r = x
  BY Divided
<1>. HIDE DEF q, r
<1>2. ASSUME r = 0
      PROVE  \E k \in 0..x : x = k * d
  <2>1. x = q * d
    BY <1>1, <1>2
  <2>2. q <= q * d
    BY <1>1
  <2>3. q \in 0..x
    BY <1>1, <2>1, <2>2
  <2>4. QED
    BY <2>1, <2>3
<1>3. ASSUME NEW k \in 0..x, x = k * d
      PROVE  r = 0
  <2>1. k * d = q * d + r /\ k \in Nat /\ k * d \in Nat /\ q * d \in Nat
    BY <1>1, <1>3
  <2>2. ~(k < q)
    BY <1>1, <2>1, Multiples
  <2>3. ~(q + 1 < k) /\ q + 1 # k
    <3>1. (q + 1) * d = q * d + d
      BY <1>1
    <3>2. ~(q + 1 < k)
      BY <1>1, <2>1, <3>1, Multiples
    <3>3. QED
      BY <1>1, <2>1, <3>1, <3>2
  <2>4. k = q
    BY <1>1, <2>1, <2>2, <2>3
  <2>5. QED
    BY <1>1, <2>1, <2>4
<1>4. QED
  BY <1>2, <1>3 DEF r

-----------------------------------------------------------------------------
\* The wait.

\* What a struct timespec stands for, in ns, and the ones that are normalised.
Ns(ts) == ts.sec * NSEC_PER_SEC + ts.nsec
Normal == [sec : Nat, nsec : 0..(NSEC_PER_SEC - 1)]

\* No unit is zero.
LEMMA Units == /\ NSEC_PER_SEC \in Nat \ {0} /\ NSEC_PER_MSEC \in Nat \ {0}
               /\ MSEC_PER_SEC \in Nat \ {0}
<1>1. /\ MSEC_PER_SEC \in Nat \ {0} /\ NSEC_PER_MSEC \in Nat \ {0}
  BY UnitAssumption
<1>2. MSEC_PER_SEC * NSEC_PER_MSEC \in Nat /\ MSEC_PER_SEC * NSEC_PER_MSEC # 0
  BY <1>1
<1>3. QED
  BY <1>1, <1>2 DEF NSEC_PER_SEC

-----------------------------------------------------------------------------
\* Times.

\* The clock shows the time.
LEMMA Clock ==
  ASSUME now \in Nat
  PROVE  clock_gettime \in Normal /\ Ns(clock_gettime) = now
<1>1. /\ now \div NSEC_PER_SEC \in Nat /\ now % NSEC_PER_SEC \in 0..(NSEC_PER_SEC - 1)
      /\ (now \div NSEC_PER_SEC) * NSEC_PER_SEC + (now % NSEC_PER_SEC) = now
  BY Units, Divided
<1>2. QED
  BY <1>1 DEF clock_gettime, Second, Ns, Normal

\* Nothing is lost when nanoseconds are carried over.
LEMMA Carried ==
  ASSUME NEW s \in Nat, NEW n \in Nat
  PROVE  /\ timespec_normalise(Second(s, n)) \in Normal
         /\ Ns(timespec_normalise(Second(s, n))) = s * NSEC_PER_SEC + n
<1>. DEFINE q == n \div NSEC_PER_SEC
            r == n % NSEC_PER_SEC
<1>1. q \in Nat /\ r \in 0..(NSEC_PER_SEC - 1) /\ q * NSEC_PER_SEC + r = n
  BY Units, Divided
<1>2. timespec_normalise(Second(s, n)) = Second(s + q, r)
  BY DEF timespec_normalise, Second
<1>3. s + q \in Nat
  BY <1>1
<1>4. (s + q) * NSEC_PER_SEC = s * NSEC_PER_SEC + q * NSEC_PER_SEC
  BY <1>1, Units
<1>. HIDE DEF q, r
<1>5. Second(s + q, r) \in Normal
  BY <1>1, <1>3 DEF Second, Normal
<1>6. Ns(Second(s + q, r)) = (s + q) * NSEC_PER_SEC + r
  BY DEF Second, Ns
<1>7. s * NSEC_PER_SEC \in Nat /\ q * NSEC_PER_SEC \in Nat
  BY <1>1, Units
<1>8. (s + q) * NSEC_PER_SEC + r = s * NSEC_PER_SEC + n
  BY <1>1, <1>4, <1>7, Units
<1>9. QED
  BY <1>2, <1>5, <1>6, <1>8

\* Normalised stays normalised.
LEMMA NormalStays ==
  ASSUME NEW ts \in Normal
  PROVE  timespec_normalise(ts) = ts
<1>1. ts.nsec \div NSEC_PER_SEC = 0 /\ ts.nsec % NSEC_PER_SEC = ts.nsec
  BY Units, Undivided DEF Normal
<1>2. ts = Second(ts.sec + 0, ts.nsec)
  BY DEF Normal, Second
<1>3. QED
  BY <1>1, <1>2 DEF timespec_normalise

\* The sum of two times.
LEMMA Added ==
  ASSUME NEW a \in Normal, NEW b \in Normal
  PROVE  timespec_add(a, b) \in Normal /\ Ns(timespec_add(a, b)) = Ns(a) + Ns(b)
<1>1. timespec_add(a, b) = timespec_normalise(Second(a.sec + b.sec, a.nsec + b.nsec))
  BY NormalStays DEF timespec_add
<1>2. /\ a.sec \in Nat /\ b.sec \in Nat /\ a.nsec \in Nat /\ b.nsec \in Nat
      /\ a.sec + b.sec \in Nat /\ a.nsec + b.nsec \in Nat
  BY Units DEF Normal
<1>3. /\ timespec_add(a, b) \in Normal
      /\ Ns(timespec_add(a, b)) = (a.sec + b.sec) * NSEC_PER_SEC + (a.nsec + b.nsec)
  BY <1>1, <1>2, Carried
<1>4. (a.sec + b.sec) * NSEC_PER_SEC = a.sec * NSEC_PER_SEC + b.sec * NSEC_PER_SEC
  BY <1>2, Units
<1>5. a.sec * NSEC_PER_SEC \in Nat /\ b.sec * NSEC_PER_SEC \in Nat
  BY <1>2, Units
<1>6. QED
  BY <1>2, <1>3, <1>4, <1>5 DEF Ns

\* A time that is greater is later.
LEMMA Later ==
  ASSUME NEW a \in Normal, NEW b \in Normal, timespec_gt(a, b)
  PROVE  Ns(a) > Ns(b)
<1>1. a.sec > b.sec \/ (a.sec = b.sec /\ a.nsec > b.nsec)
  BY NormalStays DEF timespec_gt
<1>2. /\ a.sec \in Nat /\ b.sec \in Nat
      /\ a.nsec \in 0..(NSEC_PER_SEC - 1) /\ b.nsec \in 0..(NSEC_PER_SEC - 1)
      /\ NSEC_PER_SEC \in Nat
  BY Units DEF Normal
<1>3. a.sec * NSEC_PER_SEC \in Nat /\ b.sec * NSEC_PER_SEC \in Nat
  BY <1>2
<1>4. CASE a.sec > b.sec
  <2>1. PICK d \in Nat : a.sec = b.sec + 1 + d
    <3>1. a.sec - b.sec - 1 \in Nat /\ a.sec = b.sec + 1 + (a.sec - b.sec - 1)
      BY <1>2, <1>4
    <3>2. QED
      BY <3>1
  <2>2. (b.sec + 1 + d) * NSEC_PER_SEC = b.sec * NSEC_PER_SEC + NSEC_PER_SEC + d * NSEC_PER_SEC
    BY <1>2, <2>1
  <2>3. d * NSEC_PER_SEC \in Nat
    BY <1>2, <2>1
  <2>4. QED
    BY <1>2, <1>3, <2>1, <2>2, <2>3 DEF Ns
<1>5. CASE a.sec = b.sec /\ a.nsec > b.nsec
  BY <1>2, <1>3, <1>5 DEF Ns
<1>6. QED
  BY <1>1, <1>4, <1>5

\* The time limit as a struct timespec.
LEMMA Milliseconds ==
  ASSUME ms \in Nat
  PROVE  timeout \in Normal /\ Ns(timeout) = ms * NSEC_PER_MSEC
<1>. DEFINE q == ms \div MSEC_PER_SEC
            r == ms % MSEC_PER_SEC
            M == MSEC_PER_SEC
            P == NSEC_PER_MSEC
<1>1. q \in Nat /\ r \in 0..(M - 1) /\ q * M + r = ms
  BY Units, Divided
<1>2. M \in Nat /\ P \in Nat \ {0} /\ NSEC_PER_SEC = M * P
  BY Units DEF NSEC_PER_SEC
<1>3. timeout = Second(q, r * P)
  BY DEF timeout
<1>. HIDE DEF q, r, M, P
<1>4. r * P \in 0..(M * P - 1)
  <2>1. PICK d \in Nat : M = r + 1 + d
    <3>1. M - r - 1 \in Nat /\ M = r + 1 + (M - r - 1)
      BY <1>1, <1>2
    <3>2. QED
      BY <3>1
  <2>2. (r + 1 + d) * P = r * P + P + d * P
    BY <1>1, <1>2
  <2>3. r * P \in Nat /\ d * P \in Nat
    BY <1>1, <1>2
  <2>4. QED
    BY <1>2, <2>1, <2>2, <2>3
<1>5. q * (M * P) + r * P = (q * M + r) * P
  <2>1. q * (M * P) = (q * M) * P
    BY <1>1, <1>2
  <2>2. (q * M + r) * P = (q * M) * P + r * P
    BY <1>1, <1>2
  <2>3. QED
    BY <2>1, <2>2
<1>6. QED
  BY <1>1, <1>2, <1>3, <1>4, <1>5 DEF Second, Ns, Normal, P

-----------------------------------------------------------------------------
\* The invariant.

\* t_cur was read before the program was looked at, so a program that was found
\* running then has not ended before t_cur.
WaitInv ==
    /\ at \notin {"begin", "done"} => Ns(t_dst) = deadline
    /\ at \in {"look", "check"} => Ns(t_cur) <= now
    /\ at = "check" => program = "running" \/ ended >= Ns(t_cur)
    /\ at # "done" => result = "none"
    /\ TimeoutIsTrue

TimeInv == TimeTypeOK /\ WaitInv

\* The numbers of the wait.
LEMMA TimeTypes ==
  ASSUME TimeTypeOK
  PROVE  /\ now \in Nat /\ ms \in Nat /\ began \in Nat /\ deadline \in Nat
         /\ t_cur \in Normal /\ t_dst \in Normal /\ Ns(t_cur) \in Nat /\ Ns(t_dst) \in Nat
<1>1. now \in Nat /\ ms \in Nat /\ began \in Nat /\ t_cur \in Normal /\ t_dst \in Normal
  BY TimeoutAssumption, LastTimeAssumption DEF TimeTypeOK, Normal
<1>2. deadline \in Nat
  BY <1>1, Units DEF deadline
<1>3. ASSUME NEW ts \in Normal
      PROVE  Ns(ts) \in Nat
  <2>1. ts.sec \in Nat /\ ts.nsec \in Nat
    BY Units DEF Normal
  <2>2. QED
    BY <2>1, Units DEF Ns
<1>4. QED
  BY <1>1, <1>2, <1>3

\* The wait begins with its invariant.
LEMMA TimeStart == TimeInit => TimeInv
<1>. SUFFICES ASSUME TimeInit PROVE TimeInv
  OBVIOUS
<1>. USE DEF TimeInit
<1>1. now \in 0..LastTime
  <2>1. /\ now \in Nat /\ ms \in Nat /\ LastTime \in Nat
        /\ now + ms * NSEC_PER_MSEC < LastTime
    BY TimeoutAssumption, LastTimeAssumption
  <2>2. ms * NSEC_PER_MSEC \in Nat
    BY <2>1, Units
  <2>3. QED
    BY <2>1, <2>2
<1>2. Second(0, 0) \in [sec : Nat, nsec : 0..(NSEC_PER_SEC - 1)]
  BY Units DEF Second
<1>3. 0 \in 0..LastTime /\ -1 \in -1..LastTime
  BY LastTimeAssumption
<1>4. TimeTypeOK
  BY <1>1, <1>2, <1>3 DEF TimeTypeOK
<1>5. QED
  BY <1>4 DEF TimeInv, WaitInv, TimeoutIsTrue

\* Every step of the wait keeps it.
LEMMA TimeStep == TimeInv /\ [TimeNext]_timeVars => TimeInv'
<1>. SUFFICES ASSUME TimeInv, [TimeNext]_timeVars PROVE TimeInv'
  OBVIOUS
<1>. USE DEF TimeInv
<1>0. /\ now \in Nat /\ ms \in Nat /\ began \in Nat /\ deadline \in Nat
      /\ t_cur \in Normal /\ t_dst \in Normal /\ Ns(t_cur) \in Nat /\ Ns(t_dst) \in Nat
      /\ ended \in Int /\ LastTime \in Nat
  BY TimeTypes, LastTimeAssumption DEF TimeTypeOK
<1>1. CASE Tick
  <2>1. now' = now + 1 /\ now' \in 0..LastTime
    BY <1>0, <1>1 DEF Tick
  <2>2. UNCHANGED <<ms, program, began, ended, at, t_cur, t_dst, wake, result>>
    BY <1>1 DEF Tick
  <2>3. TimeTypeOK'
    BY <2>1, <2>2 DEF TimeTypeOK
  <2>4. UNCHANGED <<Ns(t_cur), Ns(t_dst), deadline>>
    BY <2>2 DEF Ns, deadline
  <2>5. WaitInv'
    BY <1>0, <2>1, <2>2, <2>4 DEF WaitInv, TimeoutIsTrue
  <2>6. QED
    BY <2>3, <2>5
<1>2. CASE ProgramEnds
  <2>1. /\ at # "done" /\ program = "running" /\ program' \in {"zombie", "reaped"} /\ ended' = now
        /\ UNCHANGED <<now, ms, began, at, t_cur, t_dst, wake, result>>
    BY <1>2 DEF ProgramEnds
  <2>2. TimeTypeOK'
    BY <1>0, <2>1 DEF TimeTypeOK
  <2>3. UNCHANGED <<Ns(t_cur), Ns(t_dst), deadline>>
    BY <2>1 DEF Ns, deadline
  <2>4. WaitInv'
    BY <1>0, <2>1, <2>3 DEF WaitInv, TimeoutIsTrue
  <2>5. QED
    BY <2>2, <2>4
<1>3. CASE Deadline
  <2>1. /\ clock_gettime \in Normal /\ Ns(clock_gettime) = now
        /\ timeout \in Normal /\ Ns(timeout) = ms * NSEC_PER_MSEC
    BY <1>0, Clock, Milliseconds
  <2>2. /\ at = "begin" /\ at' = "clock" /\ began' = now
        /\ UNCHANGED <<now, ms, program, ended, t_cur, wake, result>>
        /\ t_dst' = timespec_add(clock_gettime, timeout)
    BY <1>3 DEF Deadline
  <2>3. t_dst' \in Normal /\ Ns(t_dst)' = now + ms * NSEC_PER_MSEC
    BY <2>1, <2>2, Added DEF Ns
  <2>4. TimeTypeOK'
    BY <2>2, <2>3 DEF TimeTypeOK, Normal
  <2>5. Ns(t_dst)' = deadline'
    BY <2>2, <2>3 DEF deadline
  <2>6. WaitInv'
    BY <2>2, <2>5 DEF WaitInv, TimeoutIsTrue
  <2>7. QED
    BY <2>4, <2>6
<1>4. CASE ReadClock
  <2>1. clock_gettime \in Normal /\ Ns(clock_gettime) = now
    BY <1>0, Clock
  <2>2. /\ at = "clock" /\ at' = "look" /\ t_cur' = clock_gettime
        /\ UNCHANGED <<now, ms, program, began, ended, t_dst, wake, result>>
    BY <1>4 DEF ReadClock
  <2>3. Ns(t_cur)' = now /\ UNCHANGED <<Ns(t_dst), deadline>>
    BY <2>1, <2>2 DEF Ns, deadline
  <2>4. TimeTypeOK'
    BY <2>1, <2>2 DEF TimeTypeOK, Normal
  <2>5. WaitInv'
    BY <1>0, <2>2, <2>3 DEF WaitInv, TimeoutIsTrue
  <2>6. QED
    BY <2>4, <2>5
<1>5. CASE Look
  <2>1. /\ at = "look" /\ UNCHANGED <<now, ms, began, ended, t_cur, t_dst, wake>>
        /\ \/ program' = "reaped" /\ result' = "ended" /\ at' = "done"
           \/ program = "running" /\ at' = "check" /\ UNCHANGED <<program, result>>
    BY <1>5 DEF Look
  <2>2. TimeTypeOK'
    BY <2>1 DEF TimeTypeOK
  <2>3. UNCHANGED <<Ns(t_cur), Ns(t_dst), deadline>>
    BY <2>1 DEF Ns, deadline
  <2>4. WaitInv'
    BY <1>0, <2>1, <2>3 DEF WaitInv, TimeoutIsTrue
  <2>5. QED
    BY <2>2, <2>4
<1>6. CASE Check
  <2>1. at = "check" /\ UNCHANGED <<now, ms, program, began, ended, t_cur, t_dst>>
    BY <1>6 DEF Check
  <2>2. UNCHANGED <<Ns(t_cur), Ns(t_dst), deadline>>
    BY <2>1 DEF Ns, deadline
  <2>3. CASE timespec_gt(t_cur, t_dst)
    <3>1. at' = "done" /\ result' = "INFRA_ETIMEDOUT" /\ UNCHANGED wake
      BY <1>6, <2>3 DEF Check
    <3>2. Ns(t_cur) > Ns(t_dst)
      BY <1>0, <2>3, Later
    <3>3. TimeoutIsTrue'
      BY <1>0, <2>1, <2>2, <3>2 DEF WaitInv, TimeoutIsTrue
    <3>4. TimeTypeOK'
      BY <2>1, <3>1 DEF TimeTypeOK
    <3>5. QED
      BY <2>1, <2>2, <3>1, <3>3, <3>4 DEF WaitInv
  <2>4. CASE ~timespec_gt(t_cur, t_dst)
    <3>1. at' = "sleep" /\ wake' = now + Sleep * NSEC_PER_MSEC /\ UNCHANGED result
      BY <1>6, <2>4 DEF Check
    <3>2. wake' \in Nat
      BY <1>0, <3>1, Units, TimeoutAssumption
    <3>3. TimeTypeOK'
      BY <2>1, <3>1, <3>2 DEF TimeTypeOK
    <3>4. QED
      BY <2>1, <2>2, <3>1, <3>3 DEF WaitInv, TimeoutIsTrue
  <2>5. QED
    BY <2>3, <2>4
<1>7. CASE Wake
  <2>1. /\ at = "sleep" /\ at' = "clock" /\ wake' = 0
        /\ UNCHANGED <<now, ms, program, began, ended, t_cur, t_dst, result>>
    BY <1>7 DEF Wake
  <2>2. UNCHANGED <<Ns(t_cur), Ns(t_dst), deadline>>
    BY <2>1 DEF Ns, deadline
  <2>3. QED
    BY <2>1, <2>2 DEF TimeTypeOK, WaitInv, TimeoutIsTrue
<1>8. CASE UNCHANGED timeVars
  <2>1. UNCHANGED <<Ns(t_cur), Ns(t_dst), deadline>>
    BY <1>8 DEF timeVars, Ns, deadline
  <2>2. QED
    BY <1>8, <2>1 DEF timeVars, TimeTypeOK, WaitInv, TimeoutIsTrue
<1>9. CASE NoClock \/ NoChild
  <2>1. /\ at' = "done" /\ result' = "aborted"
        /\ UNCHANGED <<now, ms, program, began, ended, t_cur, t_dst, wake>>
    BY <1>9 DEF NoClock, NoChild, Fail
  <2>2. QED
    BY <2>1 DEF TimeTypeOK, WaitInv, TimeoutIsTrue
<1>10. QED
  BY <1>1, <1>2, <1>3, <1>4, <1>5, <1>6, <1>7, <1>8, <1>9 DEF TimeNext, Returned

\* It holds throughout the wait.
LEMMA TimeInvariant == TimeSpec => []TimeInv
BY TimeStart, TimeStep, PTL DEF TimeSpec

\* The variables of the wait have their types; both times stay normalised.
THEOREM TimeTypeCorrect == TimeSpec => []TimeTypeOK
BY TimeInvariant, PTL DEF TimeInv

\* The wait by itself: what is said of a time limit is true.
THEOREM TimeoutAlone == TimeSpec => []TimeoutIsTrue
<1>1. TimeInv => TimeoutIsTrue
  BY DEF TimeInv, WaitInv
<1>2. QED
  BY <1>1, TimeInvariant, PTL

-----------------------------------------------------------------------------
\* The order of values.

Sign == {-1, 0, 1}

\* ThreeWay is an order.
LEMMA ThreeWayOrder ==
  ASSUME NEW m \in Int, NEW n \in Int, NEW k \in Int
  PROVE  /\ ThreeWay(m, n) \in Sign /\ ThreeWay(n, m) = 0 - ThreeWay(m, n)
         /\ ThreeWay(m, m) = 0
         /\ ThreeWay(m, n) <= 0 <=> m <= n
         /\ ThreeWay(m, n) = 0 <=> m = n
BY DEF ThreeWay, Sign

\* The number made of an integer is one.
LEMMA ToNumberTypes ==
  ASSUME NEW n \in Nat
  PROVE  lua_tonumber(n) \in Int
<1>. DEFINE b == Bits(n)
<1>1. CASE b <= Mantissa
  BY <1>1 DEF lua_tonumber
<1>2. CASE ~(b <= Mantissa)
  <2>. DEFINE ulp == Pow2[b - Mantissa]
  <2>1. b \in Nat
    <3>1. \E c \in 0..n : Pow2[c] > n /\ (c = 0 \/ Pow2[c - 1] <= n)
      <4>. DEFINE P == {c \in Nat : Pow2[c] > n}
      <4>1. ASSUME NEW c \in Nat
            PROVE  Pow2[c] > c
        <5>. DEFINE Q == {d \in Nat : ~(Pow2[d] > d)}
        <5>1. ASSUME Q # {}
              PROVE  FALSE
          <6>1. PICK d \in Q : \A e \in Q : d <= e
            <7>1. Q \subseteq Nat
              OBVIOUS
            <7>. HIDE DEF Q
            <7>2. QED
              BY <5>1, <7>1, FirstOf
          <6>2. d \in Nat /\ ~(Pow2[d] > d) /\ d # 0
            BY PowersOfTwo
          <6>3. d - 1 \in Nat /\ d - 1 \notin Q
            <7>. HIDE DEF Q
            <7>1. QED
              BY <6>1, <6>2
          <6>4. Pow2[d - 1] > d - 1 /\ Pow2[d - 1 + 1] = 2 * Pow2[d - 1] /\ Pow2[d - 1] \in Nat
                /\ d - 1 + 1 = d
            BY <6>2, <6>3, PowersOfTwo
          <6>5. QED
            BY <6>2, <6>4
        <5>2. QED
          BY <5>1
      <4>2. PICK c \in P : \A e \in P : c <= e
        <5>1. P \subseteq Nat /\ n \in P
          BY <4>1
        <5>. HIDE DEF P
        <5>2. QED
          BY <5>1, FirstOf
      <4>3. c \in 0..n
        <5>1. n \in P
          BY <4>1
        <5>. HIDE DEF P
        <5>2. c \in Nat
          BY DEF P
        <5>3. QED
          BY <4>2, <5>1, <5>2
      <4>4. c # 0 => Pow2[c - 1] <= n
        <5>1. ASSUME c # 0
              PROVE  Pow2[c - 1] <= n
          <6>1. c - 1 \in Nat
            BY <4>3, <5>1
          <6>2. c - 1 \notin P
            <7>. HIDE DEF P
            <7>1. QED
              BY <4>2, <4>3, <6>1
          <6>3. ~(Pow2[c - 1] > n) /\ Pow2[c - 1] \in Nat
            BY <6>1, <6>2, PowersOfTwo
          <6>4. QED
            BY <6>3
        <5>2. QED
          BY <5>1
      <4>5. QED
        BY <4>3, <4>4
    <3>2. Bits(n) \in 0..n
      BY <3>1 DEF Bits
    <3>3. QED
      BY <3>2
  <2>. HIDE DEF b
  <2>2. b - Mantissa \in Nat
    BY <1>2, <2>1, MantissaAssumption
  <2>3. ulp \in Nat \ {0}
    BY <2>2, PowersOfTwo
  <2>. HIDE DEF ulp
  <2>4. n \div ulp \in Int /\ n \div ulp + 1 \in Int
    BY <2>3
  <2>5. ulp * (n \div ulp) \in Int /\ ulp * (n \div ulp + 1) \in Int
    BY <2>3, <2>4
  <2>6. lua_tonumber(n) = ulp * (IF 2 * (n % ulp) > ulp \/ (2 * (n % ulp) = ulp /\ (n \div ulp) % 2 = 1)
                                 THEN n \div ulp + 1 ELSE n \div ulp)
    BY <1>2 DEF lua_tonumber, b, ulp
  <2>7. QED
    BY <2>5, <2>6
<1>3. QED
  BY <1>1, <1>2

-----------------------------------------------------------------------------
\* Strings.  A string is read as one without an end: after it comes what is less
\* than every character.
Byte == 0..255
Read(s, i) == IF i <= Len(s) THEN Char(s[i]) ELSE -1000
Precedes(s, t) == \E k \in Nat \ {0} : /\ Read(s, k) < Read(t, k)
                                       /\ \A j \in 1..(k - 1) : Read(s, j) = Read(t, j)

\* A character for each byte.
LEMMA ReadTypes ==
  ASSUME NEW s \in Seq(Byte), NEW i \in Nat \ {0}
  PROVE  /\ Read(s, i) \in Int
         /\ i <= Len(s) <=> Read(s, i) > -1000
         /\ \A t \in Seq(Byte) : i <= Len(s) /\ i <= Len(t) =>
                                   (s[i] = t[i] <=> Read(s, i) = Read(t, i))
<1>1. \A b \in Byte : Char(b) \in Int /\ Char(b) > -1000
  BY DEF Byte, Char
<1>2. \A b, c \in Byte : Char(b) = Char(c) => b = c
  BY DEF Byte, Char
<1>3. \A t \in Seq(Byte) : Len(t) \in Nat /\ \A k \in 1..Len(t) : t[k] \in Byte
  BY LenProperties
<1>4. ASSUME NEW t \in Seq(Byte), i <= Len(s), i <= Len(t)
      PROVE  s[i] = t[i] <=> Read(s, i) = Read(t, i)
  <2>1. i \in 1..Len(s) /\ i \in 1..Len(t)
    BY <1>3, <1>4
  <2>2. s[i] \in Byte /\ t[i] \in Byte
    BY <1>3, <2>1
  <2>3. QED
    BY <1>2, <1>4, <2>2 DEF Read
<1>5. /\ Read(s, i) \in Int
      /\ i <= Len(s) <=> Read(s, i) > -1000
  <2>1. CASE i <= Len(s)
    <3>1. i \in 1..Len(s)
      BY <1>3, <2>1
    <3>2. s[i] \in Byte
      BY <1>3, <3>1
    <3>3. QED
      BY <1>1, <2>1, <3>2 DEF Read
  <2>2. CASE ~(i <= Len(s))
    BY <2>2 DEF Read
  <2>3. QED
    BY <2>1, <2>2
<1>6. QED
  BY <1>4, <1>5

\* This order has no cycles.
LEMMA PrecedesOrder ==
  ASSUME NEW s \in Seq(Byte), NEW t \in Seq(Byte), NEW u \in Seq(Byte)
  PROVE  /\ ~(Precedes(s, t) /\ Precedes(t, s))
         /\ ~Precedes(s, s)
         /\ Precedes(s, t) /\ Precedes(t, u) => Precedes(s, u)
<1>1. \A i \in Nat \ {0} : Read(s, i) \in Int /\ Read(t, i) \in Int /\ Read(u, i) \in Int
  BY ReadTypes
<1>2. ~Precedes(s, s)
  BY <1>1 DEF Precedes
<1>3. ASSUME Precedes(s, t), Precedes(t, u)
      PROVE  Precedes(s, u)
  <2>1. PICK k \in Nat \ {0} : Read(s, k) < Read(t, k) /\ \A j \in 1..(k - 1) : Read(s, j) = Read(t, j)
    BY <1>3 DEF Precedes
  <2>2. PICK l \in Nat \ {0} : Read(t, l) < Read(u, l) /\ \A j \in 1..(l - 1) : Read(t, j) = Read(u, j)
    BY <1>3 DEF Precedes
  <2>3. CASE k <= l
    <3>1. Read(s, k) < Read(u, k)
      <4>1. CASE k = l
        BY <1>1, <2>1, <2>2, <4>1
      <4>2. CASE k < l
        <5>1. k \in 1..(l - 1)
          BY <4>2
        <5>2. QED
          BY <2>1, <2>2, <5>1
      <4>3. QED
        BY <2>3, <4>1, <4>2
    <3>2. \A j \in 1..(k - 1) : Read(s, j) = Read(u, j)
      <4>1. \A j \in 1..(k - 1) : j \in 1..(l - 1)
        BY <2>3
      <4>2. QED
        BY <2>1, <2>2, <4>1
    <3>3. QED
      BY <3>1, <3>2 DEF Precedes
  <2>4. CASE l < k
    <3>1. l \in 1..(k - 1)
      BY <2>4
    <3>2. Read(s, l) < Read(u, l)
      BY <2>1, <2>2, <3>1
    <3>3. \A j \in 1..(l - 1) : Read(s, j) = Read(u, j)
      <4>1. \A j \in 1..(l - 1) : j \in 1..(k - 1)
        BY <2>4
      <4>2. QED
        BY <2>1, <2>2, <4>1
    <3>4. QED
      BY <3>2, <3>3 DEF Precedes
  <2>5. QED
    BY <2>3, <2>4
<1>4. ASSUME Precedes(s, t), Precedes(t, s)
      PROVE  FALSE
  <2>1. PICK k \in Nat \ {0} : Read(s, k) < Read(t, k) /\ \A j \in 1..(k - 1) : Read(s, j) = Read(t, j)
    BY <1>4 DEF Precedes
  <2>2. PICK l \in Nat \ {0} : Read(t, l) < Read(s, l) /\ \A j \in 1..(l - 1) : Read(t, j) = Read(s, j)
    BY <1>4 DEF Precedes
  <2>3. k = l \/ l \in 1..(k - 1) \/ k \in 1..(l - 1)
    OBVIOUS
  <2>4. QED
    BY <1>1, <2>1, <2>2, <2>3
<1>5. QED
  BY <1>2, <1>3, <1>4

\* The comparison of strings decides by this order.
LEMMA StringOrder ==
  ASSUME NEW v1, NEW v2, v1.at \in Seq(Byte), v2.at \in Seq(Byte)
  PROVE  \/ _internal_compare_as_string(v1, v2) = 0 /\ v1.at = v2.at
         \/ _internal_compare_as_string(v1, v2) = -1 /\ Precedes(v1.at, v2.at)
         \/ _internal_compare_as_string(v1, v2) = 1 /\ Precedes(v2.at, v1.at)
<1>. DEFINE s == v1.at
            t == v2.at
            outcome == _internal_compare_as_string(v1, v2)
            differ == {i \in 1..Shorter(Len(s), Len(t)) : s[i] # t[i]}
<1>1. /\ Len(s) \in Nat /\ Len(t) \in Nat /\ Shorter(Len(s), Len(t)) \in Nat
      /\ \A i \in Nat : i <= Shorter(Len(s), Len(t)) <=> i <= Len(s) /\ i <= Len(t)
  <2>1. Len(s) \in Nat /\ Len(t) \in Nat
    BY LenProperties
  <2>2. QED
    BY <2>1 DEF Shorter
<1>2. \A i \in Nat \ {0} : i <= Len(s) /\ i <= Len(t) /\ i \notin differ => Read(s, i) = Read(t, i)
  <2>1. ASSUME NEW i \in Nat \ {0}, i <= Len(s), i <= Len(t), i \notin differ
        PROVE  Read(s, i) = Read(t, i)
    <3>1. s[i] = t[i]
      BY <1>1, <2>1
    <3>. HIDE DEF s, t
    <3>2. QED
      BY <2>1, <3>1, ReadTypes, SMTT(20) DEF s, t
  <2>2. QED
    BY <2>1
<1>3. CASE differ = {}
  <2>0. outcome = ThreeWay(Len(s), Len(t))
    BY <1>3 DEF _internal_compare_as_string
  <2>. HIDE DEF s, t, differ, outcome
  <2>1. ASSUME Len(s) = Len(t)
        PROVE  s = t
    <3>1. \A i \in 1..Len(s) : s[i] = t[i]
      BY <1>1, <1>3, <2>1 DEF differ
    <3>2. QED
      BY <2>1, <3>1, SeqEqual DEF s, t
  <2>2. ASSUME Len(s) < Len(t)
        PROVE  Precedes(s, t)
    <3>1. PICK k : k = Len(s) + 1
      OBVIOUS
    <3>2. k \in Nat \ {0} /\ ~(k <= Len(s)) /\ k <= Len(t)
      BY <1>1, <2>2, <3>1
    <3>3. Read(s, k) = -1000 /\ Read(t, k) > -1000
      BY <3>2, ReadTypes DEF Read, s, t
    <3>4. \A j \in 1..(k - 1) : Read(s, j) = Read(t, j)
      BY <1>1, <1>2, <1>3, <2>2, <3>1
    <3>5. QED
      BY <3>2, <3>3, <3>4 DEF Precedes
  <2>3. ASSUME Len(t) < Len(s)
        PROVE  Precedes(t, s)
    <3>1. PICK k : k = Len(t) + 1
      OBVIOUS
    <3>2. k \in Nat \ {0} /\ ~(k <= Len(t)) /\ k <= Len(s)
      BY <1>1, <2>3, <3>1
    <3>3. Read(t, k) = -1000 /\ Read(s, k) > -1000
      BY <3>2, ReadTypes DEF Read, s, t
    <3>4. \A j \in 1..(k - 1) : Read(t, j) = Read(s, j)
      BY <1>1, <1>2, <1>3, <2>3, <3>1
    <3>5. QED
      BY <3>2, <3>3, <3>4 DEF Precedes
  <2>4. /\ Len(s) = Len(t) => outcome = 0
        /\ Len(s) < Len(t) => outcome = -1
        /\ Len(t) < Len(s) => outcome = 1
    BY <1>1, <2>0 DEF ThreeWay
  <2>5. Len(s) = Len(t) \/ Len(s) < Len(t) \/ Len(t) < Len(s)
    BY <1>1
  <2>6. QED
    BY <2>1, <2>2, <2>3, <2>4, <2>5 DEF s, t, outcome
<1>4. CASE differ # {}
  <2>1. PICK f : f = CHOOSE i \in differ : \A j \in differ : i <= j
    OBVIOUS
  <2>2. f \in differ /\ \A j \in differ : f <= j
    <3>1. differ \subseteq Nat
      BY <1>1
    <3>. HIDE DEF differ
    <3>2. QED
      BY <1>4, <2>1, <3>1, FirstOf
  <2>3. outcome = ThreeWay(Char(s[f]), Char(t[f]))
    BY <1>4, <2>1 DEF _internal_compare_as_string
  <2>4. f \in Nat \ {0} /\ f <= Len(s) /\ f <= Len(t) /\ s[f] # t[f]
    BY <1>1, <2>2
  <2>5. Read(s, f) = Char(s[f]) /\ Read(t, f) = Char(t[f])
    BY <2>4 DEF Read
  <2>6. \A j \in 1..(f - 1) : Read(s, j) = Read(t, j)
    <3>1. ASSUME NEW j \in 1..(f - 1)
          PROVE  Read(s, j) = Read(t, j)
      <4>1. j \in Nat \ {0} /\ j < f /\ j <= Len(s) /\ j <= Len(t)
        BY <1>1, <2>4
      <4>2. j \notin differ
        <5>. HIDE DEF differ
        <5>1. QED
          BY <2>2, <2>4, <4>1
      <4>. HIDE DEF differ, s, t
      <4>3. QED
        BY <1>2, <4>1, <4>2
    <3>2. QED
      BY <3>1
  <2>7. Read(s, f) \in Int /\ Read(t, f) \in Int /\ Read(s, f) # Read(t, f)
    <3>1. s \in Seq(Byte) /\ t \in Seq(Byte)
      OBVIOUS
    <3>. HIDE DEF s, t
    <3>2. Read(s, f) \in Int /\ Read(t, f) \in Int
      BY <2>4, <3>1, ReadTypes
    <3>3. s[f] = t[f] <=> Read(s, f) = Read(t, f)
      BY <2>4, <3>1, ReadTypes
    <3>4. QED
      BY <2>4, <3>2, <3>3
  <2>. HIDE DEF s, t, differ, outcome
  <2>8. \/ outcome = -1 /\ Read(s, f) < Read(t, f)
        \/ outcome = 1 /\ Read(t, f) < Read(s, f)
    BY <2>3, <2>5, <2>7 DEF ThreeWay
  <2>9. QED
    BY <2>4, <2>6, <2>8 DEF Precedes, s, t, outcome
<1>5. QED
  BY <1>3, <1>4

-----------------------------------------------------------------------------
\* The number a value is compared by, if it is not a string.
Measure(v) == CASE v.type = "nil"    -> 0
                [] v.type = "number" -> lua_tonumber(v.at)
                [] OTHER             -> v.at

Without(v1, v2) == _internal_compare_without_meta(v1, v2)

\* What a value is made of.
LEMMA ValueTypes ==
  ASSUME NEW v \in Value
  PROVE  /\ v.type \in DOMAIN Type /\ Type[v.type] \in Int
         /\ v.type = "string" => v.at \in Seq(Byte)
         /\ v.type # "string" /\ ~IsNaN(v) => Measure(v) \in Int
         /\ v.type # "number" => ~IsNaN(v)
         /\ v.type \notin {"string", "number"} => v.at \in Int
<1>1. v.type \in DOMAIN Type
  BY ValueAssumption
<1>2. Type[v.type] \in Int
  BY <1>1 DEF Type
<1>3. v.type = "string" => v.at \in Seq(Byte)
  BY ValueAssumption DEF Byte
<1>4. v.type = "number" => v.at \in Nat \cup {NaN}
  BY ValueAssumption
<1>5. v.type \notin {"string", "number"} => v.at \in Int
  BY ValueAssumption
<1>6. v.type # "number" => ~IsNaN(v)
  BY DEF IsNaN
<1>7. ASSUME v.type # "string", ~IsNaN(v)
      PROVE  Measure(v) \in Int
  <2>1. CASE v.type = "nil"
    BY <2>1 DEF Measure
  <2>2. CASE v.type = "number"
    <3>1. v.at \in Nat
      BY <1>4, <1>7, <2>2 DEF IsNaN
    <3>2. lua_tonumber(v.at) \in Int
      BY <3>1, ToNumberTypes
    <3>3. QED
      BY <2>2, <3>2 DEF Measure
  <2>3. CASE v.type \notin {"nil", "number"}
    BY <1>5, <1>7, <2>3 DEF Measure
  <2>4. QED
    BY <2>1, <2>2, <2>3
<1>8. QED
  BY <1>1, <1>2, <1>3, <1>5, <1>6, <1>7

\* What two values have to do with each other for each answer.
LEMMA WithoutIs ==
  ASSUME NEW v1 \in Value, NEW v2 \in Value
  PROVE  /\ v1.type # v2.type => Without(v1, v2) = ThreeWay(Type[v1.type], Type[v2.type])
         /\ v1.type = v2.type /\ (IsNaN(v1) \/ IsNaN(v2)) => Without(v1, v2) = 0
         /\ v1.type = v2.type /\ v1.type = "string" =>
              \/ Without(v1, v2) = 0 /\ v1.at = v2.at
              \/ Without(v1, v2) = -1 /\ Precedes(v1.at, v2.at)
              \/ Without(v1, v2) = 1 /\ Precedes(v2.at, v1.at)
         /\ v1.type = v2.type /\ v1.type = "lightuserdata" =>
              Without(v1, v2) = IF v1.at = v2.at THEN 0 ELSE RAISED
         /\ v1.type = v2.type /\ v1.type \notin {"string", "lightuserdata"} /\ ~IsNaN(v1) /\ ~IsNaN(v2) =>
              Without(v1, v2) = ThreeWay(Measure(v1), Measure(v2))
<1>1. v1.type # v2.type => Without(v1, v2) = ThreeWay(Type[v1.type], Type[v2.type])
  BY DEF Without, _internal_compare_without_meta, lua_rawequal, Same
<1>2. v1.type = v2.type => Without(v1, v2) = IF v1.at = v2.at /\ ~IsNaN(v1) THEN 0
                                             ELSE _internal_compare_same_type(v1, v2)
  BY DEF Without, _internal_compare_without_meta, lua_rawequal, Same
<1>3. ASSUME v1.type = v2.type, IsNaN(v1) \/ IsNaN(v2)
      PROVE  Without(v1, v2) = 0
  <2>1. v1.type = "number"
    BY <1>3 DEF IsNaN
  <2>2. _internal_compare_same_type(v1, v2) = _internal_compare_as_number(v1, v2)
    BY <2>1 DEF _internal_compare_same_type
  <2>3. _internal_compare_as_number(v1, v2) = 0
    BY <1>3 DEF _internal_compare_as_number
  <2>4. QED
    BY <1>2, <1>3, <2>2, <2>3
<1>4. ASSUME v1.type = v2.type, v1.type = "string"
      PROVE  \/ Without(v1, v2) = 0 /\ v1.at = v2.at
             \/ Without(v1, v2) = -1 /\ Precedes(v1.at, v2.at)
             \/ Without(v1, v2) = 1 /\ Precedes(v2.at, v1.at)
  <2>1. v1.at \in Seq(Byte) /\ v2.at \in Seq(Byte) /\ ~IsNaN(v1)
    BY <1>4, ValueTypes DEF IsNaN
  <2>2. _internal_compare_same_type(v1, v2) = _internal_compare_as_string(v1, v2)
    BY <1>4 DEF _internal_compare_same_type
  <2>3. CASE v1.at = v2.at
    BY <1>2, <1>4, <2>1, <2>3
  <2>4. CASE v1.at # v2.at
    <3>1. Without(v1, v2) = _internal_compare_as_string(v1, v2)
      BY <1>2, <1>4, <2>2, <2>4
    <3>2. QED
      BY <2>1, <3>1, StringOrder
  <2>5. QED
    BY <2>3, <2>4
<1>5. ASSUME v1.type = v2.type, v1.type = "lightuserdata"
      PROVE  Without(v1, v2) = IF v1.at = v2.at THEN 0 ELSE RAISED
  <2>1. ~IsNaN(v1)
    BY <1>5 DEF IsNaN
  <2>2. _internal_compare_same_type(v1, v2) = RAISED
    BY <1>5 DEF _internal_compare_same_type
  <2>3. QED
    BY <1>2, <1>5, <2>1, <2>2
<1>6. ASSUME v1.type = v2.type, v1.type \notin {"string", "lightuserdata"}, ~IsNaN(v1), ~IsNaN(v2)
      PROVE  Without(v1, v2) = ThreeWay(Measure(v1), Measure(v2))
  <2>1. Measure(v1) \in Int /\ Measure(v2) \in Int
    BY <1>6, ValueTypes
  <2>2. CASE v1.type = "nil"
    <3>1. _internal_compare_same_type(v1, v2) = 0 /\ Measure(v1) = 0 /\ Measure(v2) = 0
      BY <1>6, <2>2 DEF _internal_compare_same_type, Measure
    <3>2. QED
      BY <1>2, <1>6, <3>1, ThreeWayOrder
  <2>3. CASE v1.type = "number"
    <3>1. _internal_compare_same_type(v1, v2) = _internal_compare_as_number(v1, v2)
      BY <2>3 DEF _internal_compare_same_type
    <3>2. _internal_compare_as_number(v1, v2) = ThreeWay(lua_tonumber(v1.at), lua_tonumber(v2.at))
      BY <1>6 DEF _internal_compare_as_number
    <3>3. Measure(v1) = lua_tonumber(v1.at) /\ Measure(v2) = lua_tonumber(v2.at)
      BY <1>6, <2>3 DEF Measure
    <3>4. v1.at = v2.at => ThreeWay(Measure(v1), Measure(v2)) = 0
      BY <2>1, <3>3, ThreeWayOrder
    <3>5. QED
      BY <1>2, <1>6, <3>1, <3>2, <3>3, <3>4
  <2>4. CASE v1.type \notin {"nil", "number"}
    <3>1. _internal_compare_same_type(v1, v2) = ThreeWay(v1.at, v2.at)
      BY <1>6, <2>4 DEF _internal_compare_same_type, _internal_compare_as_boolean,
                        _internal_compare_as_pointer
    <3>2. Measure(v1) = v1.at /\ Measure(v2) = v2.at
      BY <1>6, <2>4 DEF Measure
    <3>3. v1.at = v2.at => ThreeWay(Measure(v1), Measure(v2)) = 0
      BY <2>1, <3>2, ThreeWayOrder
    <3>4. QED
      BY <1>2, <1>6, <3>1, <3>2, <3>3
  <2>5. QED
    BY <2>2, <2>3, <2>4
<1>7. QED
  BY <1>1, <1>3, <1>4, <1>5, <1>6

\* Turned round, the answer is the opposite.
LEMMA WithoutTurns ==
  ASSUME NEW v1 \in Value, NEW v2 \in Value
  PROVE  /\ Without(v1, v2) \in Sign \cup {RAISED}
         /\ Without(v1, v2) = RAISED <=> Light(v1) /\ Light(v2) /\ v1.at # v2.at
         /\ Without(v1, v2) # RAISED => Without(v2, v1) = 0 - Without(v1, v2)
<1>0. RAISED = 2
  BY DEF RAISED
<1>1. CASE v1.type # v2.type
  <2>1. Type[v1.type] \in Int /\ Type[v2.type] \in Int
    BY ValueTypes
  <2>2. /\ Without(v1, v2) = ThreeWay(Type[v1.type], Type[v2.type])
        /\ Without(v2, v1) = ThreeWay(Type[v2.type], Type[v1.type])
    BY <1>1, WithoutIs
  <2>3. Without(v1, v2) \in Sign /\ Without(v2, v1) = 0 - Without(v1, v2)
    BY <2>1, <2>2, ThreeWayOrder
  <2>4. QED
    BY <1>0, <1>1, <2>3 DEF Light, Sign
<1>2. CASE v1.type = v2.type /\ (IsNaN(v1) \/ IsNaN(v2))
  <2>1. Without(v1, v2) = 0 /\ Without(v2, v1) = 0 /\ ~Light(v1)
    BY <1>2, WithoutIs DEF IsNaN, Light
  <2>2. QED
    BY <1>0, <2>1 DEF Sign
<1>3. CASE v1.type = v2.type /\ v1.type = "string"
  <2>1. v1.at \in Seq(Byte) /\ v2.at \in Seq(Byte) /\ ~Light(v1)
    BY <1>3, ValueTypes DEF Light
  <2>2. /\ ~(Precedes(v1.at, v2.at) /\ Precedes(v2.at, v1.at))
        /\ ~Precedes(v1.at, v1.at)
    BY <2>1, PrecedesOrder
  <2>3. /\ \/ Without(v1, v2) = 0 /\ v1.at = v2.at
           \/ Without(v1, v2) = -1 /\ Precedes(v1.at, v2.at)
           \/ Without(v1, v2) = 1 /\ Precedes(v2.at, v1.at)
        /\ \/ Without(v2, v1) = 0 /\ v1.at = v2.at
           \/ Without(v2, v1) = -1 /\ Precedes(v2.at, v1.at)
           \/ Without(v2, v1) = 1 /\ Precedes(v1.at, v2.at)
    BY <1>3, WithoutIs, ZenonT(30)
  <2>4. QED
    BY <1>0, <2>1, <2>2, <2>3 DEF Sign
<1>4. CASE v1.type = v2.type /\ v1.type = "lightuserdata"
  <2>1. /\ Without(v1, v2) = IF v1.at = v2.at THEN 0 ELSE RAISED
        /\ Without(v2, v1) = IF v1.at = v2.at THEN 0 ELSE RAISED
    BY <1>4, WithoutIs
  <2>2. Light(v1) /\ Light(v2)
    BY <1>4 DEF Light
  <2>3. CASE v1.at = v2.at
    BY <1>0, <2>1, <2>3 DEF Sign
  <2>4. CASE v1.at # v2.at
    BY <1>0, <2>1, <2>2, <2>4 DEF Sign
  <2>5. QED
    BY <2>3, <2>4
<1>5. CASE v1.type = v2.type /\ v1.type \notin {"string", "lightuserdata"} /\ ~IsNaN(v1) /\ ~IsNaN(v2)
  <2>1. Measure(v1) \in Int /\ Measure(v2) \in Int /\ ~Light(v1)
    BY <1>5, ValueTypes DEF Light
  <2>2. /\ Without(v1, v2) = ThreeWay(Measure(v1), Measure(v2))
        /\ Without(v2, v1) = ThreeWay(Measure(v2), Measure(v1))
    BY <1>5, WithoutIs
  <2>3. Without(v1, v2) \in Sign /\ Without(v2, v1) = 0 - Without(v1, v2)
    BY <2>1, <2>2, ThreeWayOrder
  <2>4. QED
    BY <1>0, <2>1, <2>3 DEF Sign
<1>6. QED
  BY <1>1, <1>2, <1>3, <1>4, <1>5

\* The answers are transitive, NaN left out.
LEMMA WithoutTransitive ==
  ASSUME NEW v1 \in Value, NEW v2 \in Value, NEW v3 \in Value,
         ~IsNaN(v1), ~IsNaN(v2), ~IsNaN(v3),
         Without(v1, v2) # RAISED, Without(v2, v3) # RAISED,
         Without(v1, v2) <= 0, Without(v2, v3) <= 0
  PROVE  Without(v1, v3) # RAISED /\ Without(v1, v3) <= 0
<1>0. /\ \A a, b \in DOMAIN Type : Type[a] = Type[b] => a = b
      /\ RAISED = 2
  BY DEF Type, RAISED
<1>1. /\ v1.type \in DOMAIN Type /\ v2.type \in DOMAIN Type /\ v3.type \in DOMAIN Type
      /\ Type[v1.type] \in Int /\ Type[v2.type] \in Int /\ Type[v3.type] \in Int
  BY ValueTypes
<1>2. Type[v1.type] <= Type[v2.type] /\ Type[v2.type] <= Type[v3.type]
  <2>1. v1.type # v2.type => Type[v1.type] <= Type[v2.type]
    BY <1>1, WithoutIs, ThreeWayOrder
  <2>2. v2.type # v3.type => Type[v2.type] <= Type[v3.type]
    BY <1>1, WithoutIs, ThreeWayOrder
  <2>3. QED
    BY <1>1, <2>1, <2>2
<1>3. CASE v1.type # v3.type
  <2>1. Without(v1, v3) = ThreeWay(Type[v1.type], Type[v3.type])
    BY <1>3, WithoutIs
  <2>2. Type[v1.type] <= Type[v3.type]
    BY <1>1, <1>2
  <2>3. ThreeWay(Type[v1.type], Type[v3.type]) <= 0 /\ ThreeWay(Type[v1.type], Type[v3.type]) \in Sign
    BY <1>1, <2>2, ThreeWayOrder
  <2>4. QED
    BY <1>0, <2>1, <2>3 DEF Sign
<1>4. CASE v1.type = v3.type
  <2>1. v1.type = v2.type
    <3>1. Type[v1.type] = Type[v2.type]
      BY <1>1, <1>2, <1>4
    <3>2. QED
      BY <1>0, <1>1, <3>1
  <2>2. CASE v1.type = "string"
    <3>1. v1.at \in Seq(Byte) /\ v2.at \in Seq(Byte) /\ v3.at \in Seq(Byte)
      BY <1>4, <2>1, <2>2, ValueTypes
    <3>2. v1.at = v2.at \/ Precedes(v1.at, v2.at)
      <4>1. \/ Without(v1, v2) = 0 /\ v1.at = v2.at
            \/ Without(v1, v2) = -1 /\ Precedes(v1.at, v2.at)
            \/ Without(v1, v2) = 1 /\ Precedes(v2.at, v1.at)
        BY <2>1, <2>2, WithoutIs
      <4>2. QED
        BY <4>1
    <3>3. v2.at = v3.at \/ Precedes(v2.at, v3.at)
      <4>0. v2.type = v3.type /\ v2.type = "string"
        BY <1>4, <2>1, <2>2
      <4>1. \/ Without(v2, v3) = 0 /\ v2.at = v3.at
            \/ Without(v2, v3) = -1 /\ Precedes(v2.at, v3.at)
            \/ Without(v2, v3) = 1 /\ Precedes(v3.at, v2.at)
        BY <4>0, WithoutIs
      <4>2. QED
        BY <4>1
    <3>4. v1.at = v3.at \/ Precedes(v1.at, v3.at)
      BY <3>1, <3>2, <3>3, PrecedesOrder
    <3>5. ~Precedes(v3.at, v1.at)
      BY <3>1, <3>4, PrecedesOrder
    <3>6. Without(v1, v3) = 0 \/ Without(v1, v3) = -1
      BY <1>4, <2>2, <3>5, WithoutIs
    <3>7. QED
      BY <1>0, <3>6
  <2>3. CASE v1.type = "lightuserdata"
    <3>1. v1.at = v2.at /\ v2.at = v3.at
      BY <1>4, <2>1, <2>3, WithoutIs
    <3>2. Without(v1, v3) = 0
      <4>1. Without(v1, v3) = IF v1.at = v3.at THEN 0 ELSE RAISED
        BY <1>4, <2>3, WithoutIs
      <4>2. QED
        BY <3>1, <4>1
    <3>3. QED
      BY <1>0, <3>2
  <2>4. CASE v1.type \notin {"string", "lightuserdata"}
    <3>1. Measure(v1) \in Int /\ Measure(v2) \in Int /\ Measure(v3) \in Int
      BY <1>4, <2>1, <2>4, ValueTypes
    <3>2. /\ Without(v1, v2) = ThreeWay(Measure(v1), Measure(v2))
          /\ Without(v2, v3) = ThreeWay(Measure(v2), Measure(v3))
          /\ Without(v1, v3) = ThreeWay(Measure(v1), Measure(v3))
      BY <1>4, <2>1, <2>4, WithoutIs, ZenonT(30)
    <3>3. Measure(v1) <= Measure(v2) /\ Measure(v2) <= Measure(v3)
      BY <3>1, <3>2, ThreeWayOrder
    <3>4. Measure(v1) <= Measure(v3)
      BY <3>1, <3>3
    <3>5. Without(v1, v3) <= 0 /\ Without(v1, v3) \in Sign
      BY <3>1, <3>2, <3>4, ThreeWayOrder
    <3>6. QED
      BY <1>0, <3>5 DEF Sign
  <2>5. QED
    BY <2>2, <2>3, <2>4
<1>5. QED
  BY <1>3, <1>4

-----------------------------------------------------------------------------
\* Metamethods that tell the truth: every rule that applies gives it.
LEMMA RulesTell ==
  ASSUME NEW o \in Sign, NEW A, NEW i \in 1..12, Rules(Says(o, A))[i][1]
  PROVE  Rules(Says(o, A))[i][2] \in {o, RAISED}
<1>. DEFINE m == Says(o, A)
<1>1. /\ \A c \in {"eq12", "eq21"} : m[c] = "yes" => o = 0
      /\ \A c \in {"eq12", "eq21"} : m[c] = "no" => o # 0
      /\ m["lt12"] = "yes" => o = -1
      /\ m["lt12"] = "no" => o \in {0, 1}
      /\ m["le12"] = "yes" => o \in {-1, 0}
      /\ m["le12"] = "no" => o = 1
      /\ m["lt21"] = "yes" => o = 1
      /\ m["lt21"] = "no" => o \in {-1, 0}
      /\ m["le21"] = "yes" => o \in {0, 1}
      /\ m["le21"] = "no" => o = -1
  BY DEF Says, MetaCall, Sign
<1>. HIDE DEF m
<1>2. PICK unequal : unequal = (m["eq12"] = "no" \/ m["eq21"] = "no")
  OBVIOUS
<1>3. PICK ge : ge = (m["lt12"] = "no")
  OBVIOUS
<1>4. PICK le : le = (m["le12"] = "yes" \/ m["lt21"] = "no")
  OBVIOUS
<1>5. (unequal => o # 0) /\ (ge => o \in {0, 1}) /\ (le => o \in {-1, 0})
  BY <1>1, <1>2, <1>3, <1>4
<1>6. PICK r : r = Rules(m)
  OBVIOUS
<1>7. /\ r[1][1] = (m["eq12"] = "yes" \/ m["eq21"] = "yes") /\ r[1][2] = 0
      /\ r[2][1] = (m["lt12"] = "yes") /\ r[2][2] = -1
      /\ r[3][1] = (ge /\ unequal) /\ r[3][2] = 1
      /\ r[4][1] = (m["le12"] = "no") /\ r[4][2] = 1
  BY <1>2, <1>3, <1>6 DEF Rules
<1>8. /\ r[5][1] = (m["le12"] = "yes" /\ unequal) /\ r[5][2] = -1
      /\ r[6][1] = (m["le12"] = "yes" /\ ge) /\ r[6][2] = 0
      /\ r[7][1] = (m["lt21"] = "yes") /\ r[7][2] = 1
      /\ r[8][1] = (m["lt21"] = "no" /\ unequal) /\ r[8][2] = -1
  BY <1>2, <1>3, <1>6 DEF Rules
<1>9. /\ r[9][1] = (m["le21"] = "no") /\ r[9][2] = -1
      /\ r[10][1] = (m["le21"] = "yes" /\ unequal) /\ r[10][2] = 1
      /\ r[11][1] = (m["le21"] = "yes" /\ le) /\ r[11][2] = 0
      /\ r[12][2] = RAISED
  BY <1>2, <1>4, <1>6 DEF Rules
<1>10. r[i][1]
  BY <1>6 DEF m
<1>11. \/ i = 1 \/ i = 2 \/ i = 3 \/ i = 4 \/ i = 5 \/ i = 6 \/ i = 7 \/ i = 8 \/ i = 9
       \/ i = 10 \/ i = 11 \/ i = 12
  OBVIOUS
<1>12. r[i][2] \in {o, RAISED}
  <2>1. CASE i \in 1..4
    <3>1. i = 1 \/ i = 2 \/ i = 3 \/ i = 4
      BY <2>1
    <3>2. QED
      BY <1>1, <1>5, <1>7, <1>10, <3>1 DEF Sign
  <2>2. CASE i = 5
    BY <1>1, <1>5, <1>8, <1>10, <2>2 DEF Sign
  <2>3. CASE i = 6
    <3>1. m["le12"] = "yes" /\ ge /\ r[i][2] = 0
      BY <1>8, <1>10, <2>3
    <3>2. o \in {-1, 0} /\ o \in {0, 1}
      BY <1>1, <1>5, <3>1
    <3>3. o = 0
      BY <3>2
    <3>4. QED
      BY <3>1, <3>3
  <2>4. CASE i = 7
    BY <1>1, <1>5, <1>8, <1>10, <2>4 DEF Sign
  <2>5. CASE i = 8
    BY <1>1, <1>5, <1>8, <1>10, <2>5 DEF Sign
  <2>6. CASE i = 9
    BY <1>1, <1>5, <1>9, <1>10, <2>6 DEF Sign
  <2>7. CASE i = 10
    BY <1>1, <1>5, <1>9, <1>10, <2>7 DEF Sign
  <2>8. CASE i = 11
    <3>1. m["le21"] = "yes" /\ le /\ r[i][2] = 0
      BY <1>9, <1>10, <2>8
    <3>2. o \in {-1, 0} /\ o \in {0, 1}
      BY <1>1, <1>5, <3>1
    <3>3. o = 0
      BY <3>2
    <3>4. QED
      BY <3>1, <3>3
  <2>9. CASE i = 12
    BY <1>1, <1>5, <1>9, <1>10, <2>9 DEF Sign
  <2>10. QED
    BY <1>11, <2>1, <2>2, <2>3, <2>4, <2>5, <2>6, <2>7, <2>8, <2>9
<1>13. QED
  BY <1>6, <1>12 DEF m

\* The first rule that applies gives it.
LEMMA MetaTells ==
  ASSUME NEW o \in Sign, NEW A
  PROVE  _internal_compare_with_meta(Says(o, A)) \in {o, RAISED}
<1>. DEFINE m == Says(o, A)
            applies == {i \in 1..12 : Rules(m)[i][1]}
<1>1. DOMAIN Rules(m) = 1..12 /\ Rules(m)[12][1]
  BY DEF Rules
<1>2. applies \subseteq Nat /\ applies # {}
  BY <1>1
<1>3. _internal_compare_with_meta(m) = Rules(m)[CHOOSE i \in applies : \A j \in applies : i <= j][2]
  BY <1>1 DEF _internal_compare_with_meta
<1>. HIDE DEF applies
<1>4. PICK i : i = CHOOSE k \in applies : \A j \in applies : k <= j
  OBVIOUS
<1>5. i \in applies
  BY <1>2, <1>4, FirstOf
<1>6. i \in 1..12 /\ Rules(m)[i][1]
  BY <1>5 DEF applies
<1>7. Rules(m)[i][2] \in {o, RAISED}
  BY <1>6, RulesTell
<1>8. QED
  BY <1>3, <1>4, <1>7

-----------------------------------------------------------------------------
\* What a call compares, and what it has answered when it is told.
Compared(v, o, A) ==
    /\ v \in [1..3 -> Value] /\ o \in Sign
    /\ \/ Light(v[1]) /\ Light(v[2]) /\ v[3] = v[1]
       \/ o = 0
Seen(v, o, p) == IF v[p[1]].at <= v[p[2]].at THEN o ELSE -o
Results(v, o, A) ==
    [p \in Pair |-> _internal_compare(v[p[1]], v[p[2]], Says(Seen(v, o, p), A))]

\* The answer for each pair.
LEMMA ResultIs ==
  ASSUME NEW v, NEW o, NEW A, Compared(v, o, A), NEW i \in 1..3, NEW j \in 1..3
  PROVE  LET w == Without(v[i], v[j])
             r == Results(v, o, A)[<<i, j>>]
         IN  /\ v[i] \in Value /\ v[j] \in Value
             /\ w # RAISED => r = w
             /\ w = RAISED => /\ Light(v[i]) /\ Light(v[j]) /\ v[i].at # v[j].at
                              /\ v[i].at \in Int /\ v[j].at \in Int
                              /\ v[i].at < v[j].at => r \in {o, RAISED}
                              /\ v[j].at < v[i].at => r \in {0 - o, RAISED}
<1>. DEFINE w == Without(v[i], v[j])
            r == Results(v, o, A)[<<i, j>>]
            q == Seen(v, o, <<i, j>>)
<1>1. v[i] \in Value /\ v[j] \in Value /\ o \in Sign
  BY DEF Compared
<1>2. r = _internal_compare(v[i], v[j], Says(q, A))
  BY DEF Results, Pair
<1>3. r = IF w # RAISED THEN w ELSE _internal_compare_with_meta(Says(q, A))
  BY <1>2 DEF _internal_compare, Without
<1>4. ASSUME w = RAISED
      PROVE  /\ Light(v[i]) /\ Light(v[j]) /\ v[i].at # v[j].at
             /\ v[i].at \in Int /\ v[j].at \in Int
             /\ v[i].at < v[j].at => r \in {o, RAISED}
             /\ v[j].at < v[i].at => r \in {0 - o, RAISED}
  <2>1. Light(v[i]) /\ Light(v[j]) /\ v[i].at # v[j].at
    BY <1>1, <1>4, WithoutTurns
  <2>2. v[i].at \in Int /\ v[j].at \in Int
    BY <1>1, <2>1, ValueTypes DEF Light
  <2>3. q = IF v[i].at <= v[j].at THEN o ELSE -o
    BY DEF Seen
  <2>4. o \in Sign /\ -o = 0 - o /\ 0 - o \in Sign
    BY <1>1 DEF Sign
  <2>5. q = IF v[i].at <= v[j].at THEN o ELSE 0 - o
    BY <2>3, <2>4
  <2>. HIDE DEF q, r
  <2>6. q \in Sign
    BY <2>4, <2>5
  <2>7. r \in {q, RAISED}
    BY <1>3, <1>4, <2>6, MetaTells
  <2>8. QED
    BY <2>1, <2>2, <2>5, <2>7
<1>5. QED
  BY <1>1, <1>3, <1>4

-----------------------------------------------------------------------------
\* What OrderIsRight says of the nine results.
OrderOf(v, a, o) ==
    /\ \A i, j \in 1..3 : a[<<i, j>>] # RAISED /\ a[<<j, i>>] # RAISED =>
                             a[<<i, j>>] = -a[<<j, i>>]
    /\ Light(v[1]) /\ Light(v[2]) /\ v[1].at < v[2].at /\ a[<<1, 2>>] # RAISED =>
          a[<<1, 2>>] = o
    /\ (\A i \in 1..3 : ~IsNaN(v[i])) =>
          \A i, j, k \in 1..3 :
             /\ \A p \in {<<i, j>>, <<j, k>>, <<i, k>>} : a[p] # RAISED
             /\ a[<<i, j>>] <= 0 /\ a[<<j, k>>] <= 0
             => a[<<i, k>>] <= 0

\* Turned round, a result is the opposite.
LEMMA ResultsTurn ==
  ASSUME NEW v, NEW o, NEW A, Compared(v, o, A), NEW i \in 1..3, NEW j \in 1..3,
         Results(v, o, A)[<<i, j>>] # RAISED, Results(v, o, A)[<<j, i>>] # RAISED
  PROVE  Results(v, o, A)[<<i, j>>] = -Results(v, o, A)[<<j, i>>]
<1>. DEFINE a == Results(v, o, A)
<1>1. v[i] \in Value /\ v[j] \in Value /\ o \in Sign
  BY DEF Compared
<1>2. \A x \in Sign : 0 - x \in Sign /\ 0 - (0 - x) = x /\ -x = 0 - x
  BY DEF Sign
<1>3. RAISED \notin Sign
  BY DEF Sign, RAISED
<1>4. CASE Without(v[i], v[j]) # RAISED
  <2>1. a[<<i, j>>] = Without(v[i], v[j])
    BY <1>4, ResultIs
  <2>2. Without(v[i], v[j]) \in Sign /\ Without(v[j], v[i]) = 0 - Without(v[i], v[j])
    BY <1>1, <1>4, WithoutTurns
  <2>3. Without(v[j], v[i]) # RAISED
    BY <1>2, <1>3, <2>2
  <2>4. a[<<j, i>>] = Without(v[j], v[i])
    BY <2>3, ResultIs
  <2>5. QED
    BY <1>2, <2>1, <2>2, <2>4
<1>5. CASE Without(v[i], v[j]) = RAISED
  <2>1. /\ v[i].at # v[j].at /\ v[i].at \in Int /\ v[j].at \in Int
        /\ v[i].at < v[j].at => a[<<i, j>>] \in {o, RAISED}
        /\ v[j].at < v[i].at => a[<<i, j>>] \in {0 - o, RAISED}
        /\ Light(v[i]) /\ Light(v[j])
    BY <1>5, ResultIs
  <2>2. Without(v[j], v[i]) = RAISED
    BY <1>1, <2>1, WithoutTurns
  <2>3. /\ v[j].at < v[i].at => a[<<j, i>>] \in {o, RAISED}
        /\ v[i].at < v[j].at => a[<<j, i>>] \in {0 - o, RAISED}
    BY <2>2, ResultIs
  <2>4. v[i].at < v[j].at \/ v[j].at < v[i].at
    BY <2>1
  <2>. HIDE DEF a
  <2>5. \/ a[<<i, j>>] = o /\ a[<<j, i>>] = 0 - o
        \/ a[<<i, j>>] = 0 - o /\ a[<<j, i>>] = o
    <3>1. a[<<i, j>>] # RAISED /\ a[<<j, i>>] # RAISED
      BY DEF a
    <3>2. QED
      BY <2>1, <2>3, <2>4, <3>1
  <2>6. a[<<i, j>>] = -a[<<j, i>>]
    BY <1>1, <1>2, <2>5
  <2>7. QED
    BY <2>6 DEF a
<1>6. QED
  BY <1>4, <1>5

\* What metamethods answer of two values depends on their addresses alone:
\* it is o or its opposite.
AddressesDecide(v, a, o) ==
    \A i, j \in 1..3 : Light(v[i]) /\ Light(v[j]) /\ a[<<i, j>>] # RAISED =>
       /\ v[i].at \in Int /\ v[j].at \in Int
       /\ a[<<i, j>>] = IF v[i].at = v[j].at THEN 0 ELSE IF v[i].at < v[j].at THEN o ELSE 0 - o

\* So do the results.
LEMMA LightResult ==
  ASSUME NEW v, NEW o, NEW A, Compared(v, o, A)
  PROVE  AddressesDecide(v, Results(v, o, A), o)
<1>. DEFINE a == Results(v, o, A)
<1>. SUFFICES ASSUME NEW i \in 1..3, NEW j \in 1..3, Light(v[i]), Light(v[j]), a[<<i, j>>] # RAISED
              PROVE  /\ v[i].at \in Int /\ v[j].at \in Int
                     /\ a[<<i, j>>] = IF v[i].at = v[j].at THEN 0
                                      ELSE IF v[i].at < v[j].at THEN o ELSE 0 - o
  BY DEF AddressesDecide
<1>1. v[i] \in Value /\ v[j] \in Value
  BY DEF Compared
<1>2. v[i].at \in Int /\ v[j].at \in Int
  BY <1>1, ValueTypes DEF Light
<1>3. CASE v[i].at = v[j].at
  <2>1. Without(v[i], v[j]) = 0
    BY <1>1, <1>3, WithoutIs DEF Light
  <2>2. 0 # RAISED
    BY DEF RAISED
  <2>3. QED
    BY <1>2, <1>3, <2>1, <2>2, ResultIs
<1>4. CASE v[i].at # v[j].at
  <2>1. Without(v[i], v[j]) = RAISED
    BY <1>1, <1>4, WithoutTurns
  <2>. DEFINE r == Results(v, o, A)[<<i, j>>]
  <2>0. /\ v[i].at < v[j].at => r \in {o, RAISED}
        /\ v[j].at < v[i].at => r \in {0 - o, RAISED}
        /\ r # RAISED
    BY <2>1, ResultIs
  <2>. HIDE DEF r
  <2>2. /\ v[i].at < v[j].at => r = o
        /\ v[j].at < v[i].at => r = 0 - o
    BY <2>0
  <2>3. v[i].at < v[j].at \/ v[j].at < v[i].at
    BY <1>2, <1>4
  <2>4. v[i].at < v[j].at => ~(v[j].at < v[i].at)
    BY <1>2
  <2>5. QED
    BY <1>2, <1>4, <2>2, <2>3, <2>4 DEF r
<1>5. QED
  BY <1>3, <1>4

\* Results are transitive, NaN left out.
LEMMA ResultsTransitive ==
  ASSUME NEW v, NEW o, NEW A, Compared(v, o, A),
         NEW i \in 1..3, NEW j \in 1..3, NEW k \in 1..3,
         ~IsNaN(v[i]), ~IsNaN(v[j]), ~IsNaN(v[k]),
         Results(v, o, A)[<<i, j>>] # RAISED, Results(v, o, A)[<<i, j>>] <= 0,
         Results(v, o, A)[<<j, k>>] # RAISED, Results(v, o, A)[<<j, k>>] <= 0,
         Results(v, o, A)[<<i, k>>] # RAISED
  PROVE  Results(v, o, A)[<<i, k>>] <= 0
<1>. DEFINE a == Results(v, o, A)
            w(x, y) == Without(v[x], v[y])
<1>1. /\ v[i] \in Value /\ v[j] \in Value /\ v[k] \in Value /\ o \in Sign
      /\ \/ Light(v[1]) /\ Light(v[2]) /\ v[3] = v[1]
         \/ o = 0
  BY DEF Compared
<1>7. AddressesDecide(v, a, o)
  BY LightResult
<1>8. a[<<i, j>>] # RAISED /\ a[<<j, k>>] # RAISED /\ a[<<i, k>>] # RAISED
  OBVIOUS
<1>2. CASE w(i, j) # RAISED /\ w(j, k) # RAISED
  <2>1. w(i, j) <= 0 /\ w(j, k) <= 0
    BY <1>2, ResultIs
  <2>2. w(i, k) # RAISED /\ w(i, k) <= 0
    BY <1>1, <1>2, <2>1, WithoutTransitive
  <2>3. QED
    BY <2>2, ResultIs
\* There are metamethods, for two addresses at most.
<1>3. CASE Light(v[1]) /\ Light(v[2]) /\ v[3] = v[1]
  <2>1. Light(v[i]) /\ Light(v[j]) /\ Light(v[k])
    BY <1>3
  <2>2. /\ v[i].at \in Int /\ v[j].at \in Int /\ v[k].at \in Int
        /\ a[<<i, j>>] = IF v[i].at = v[j].at THEN 0 ELSE IF v[i].at < v[j].at THEN o ELSE 0 - o
        /\ a[<<j, k>>] = IF v[j].at = v[k].at THEN 0 ELSE IF v[j].at < v[k].at THEN o ELSE 0 - o
        /\ a[<<i, k>>] = IF v[i].at = v[k].at THEN 0 ELSE IF v[i].at < v[k].at THEN o ELSE 0 - o
    <3>. HIDE DEF a
    <3>1. QED
      BY <1>7, <1>8, <2>1 DEF AddressesDecide
  <2>3. v[i].at = v[j].at \/ v[j].at = v[k].at \/ v[i].at = v[k].at
    BY <1>3
  <2>4. a[<<i, j>>] <= 0 /\ a[<<j, k>>] <= 0
    OBVIOUS
  <2>. HIDE DEF a
  <2>5. a[<<i, k>>] <= 0
    BY <2>2, <2>3, <2>4
  <2>6. QED
    BY <2>5 DEF a
\* There are none.
<1>4. CASE o = 0 /\ w(i, j) = RAISED
  <2>1. Light(v[i]) /\ Light(v[j])
    BY <1>4, ResultIs
  <2>2. CASE Light(v[k])
    <3>1. a[<<i, k>>] = IF v[i].at = v[k].at THEN 0 ELSE IF v[i].at < v[k].at THEN o ELSE 0 - o
      <4>. HIDE DEF a
      <4>1. QED
        BY <1>7, <1>8, <2>1, <2>2 DEF AddressesDecide
    <3>2. QED
      BY <1>4, <3>1
  <2>3. CASE ~Light(v[k])
    <3>1. w(i, k) # RAISED /\ w(j, k) # RAISED
      BY <1>1, <2>3, WithoutTurns
    <3>2. v[i].type # v[k].type /\ v[j].type # v[k].type /\ v[i].type = v[j].type
      BY <2>1, <2>3 DEF Light
    <3>3. w(i, k) = w(j, k)
      BY <1>1, <3>2, WithoutIs
    <3>4. QED
      BY <3>1, <3>3, ResultIs
  <2>4. QED
    BY <2>2, <2>3
<1>5. CASE o = 0 /\ w(j, k) = RAISED
  <2>1. Light(v[j]) /\ Light(v[k])
    BY <1>5, ResultIs
  <2>2. CASE Light(v[i])
    <3>1. a[<<i, k>>] = IF v[i].at = v[k].at THEN 0 ELSE IF v[i].at < v[k].at THEN o ELSE 0 - o
      <4>. HIDE DEF a
      <4>1. QED
        BY <1>7, <1>8, <2>1, <2>2 DEF AddressesDecide
    <3>2. QED
      BY <1>5, <3>1
  <2>3. CASE ~Light(v[i])
    <3>1. w(i, k) # RAISED /\ w(i, j) # RAISED
      BY <1>1, <2>3, WithoutTurns
    <3>2. v[i].type # v[k].type /\ v[i].type # v[j].type /\ v[j].type = v[k].type
      BY <2>1, <2>3 DEF Light
    <3>3. w(i, k) = w(i, j)
      BY <1>1, <3>2, WithoutIs
    <3>4. QED
      BY <3>1, <3>3, ResultIs
  <2>4. QED
    BY <2>2, <2>3
<1>6. QED
  BY <1>1, <1>2, <1>3, <1>4, <1>5

\* The results of a call are an order.
LEMMA ResultsOrdered ==
  ASSUME NEW v, NEW o, NEW A, Compared(v, o, A)
  PROVE  OrderOf(v, Results(v, o, A), o)
<1>. DEFINE a == Results(v, o, A)
<1>1. ASSUME NEW i \in 1..3, NEW j \in 1..3, a[<<i, j>>] # RAISED, a[<<j, i>>] # RAISED
      PROVE  a[<<i, j>>] = -a[<<j, i>>]
  BY <1>1, ResultsTurn
<1>2. ASSUME Light(v[1]), Light(v[2]), v[1].at < v[2].at, a[<<1, 2>>] # RAISED
      PROVE  a[<<1, 2>>] = o
  <2>1. /\ v[1].at \in Int /\ v[2].at \in Int
        /\ a[<<1, 2>>] = IF v[1].at = v[2].at THEN 0 ELSE IF v[1].at < v[2].at THEN o ELSE 0 - o
    BY <1>2, LightResult DEF AddressesDecide
  <2>. HIDE DEF a
  <2>2. QED
    BY <1>2, <2>1
<1>3. ASSUME \A i \in 1..3 : ~IsNaN(v[i]), NEW i \in 1..3, NEW j \in 1..3, NEW k \in 1..3,
             \A p \in {<<i, j>>, <<j, k>>, <<i, k>>} : a[p] # RAISED,
             a[<<i, j>>] <= 0, a[<<j, k>>] <= 0
      PROVE  a[<<i, k>>] <= 0
  <2>1. a[<<i, j>>] # RAISED /\ a[<<j, k>>] # RAISED /\ a[<<i, k>>] # RAISED
    <3>. HIDE DEF a
    <3>1. QED
      BY <1>3
  <2>2. QED
    BY <1>3, <2>1, ResultsTransitive
<1>. HIDE DEF a
<1>4. OrderOf(v, a, o)
  BY <1>1, <1>2, <1>3 DEF OrderOf
<1>5. QED
  BY <1>4 DEF a

-----------------------------------------------------------------------------
\* Ranges.

\* The integers: half of them are negative, and no sum that is one is wrapped.
LEMMA IntegersAre ==
  \E half \in Nat \ {0} :
     /\ Pow2[Width] = 2 * half /\ nil = 2 * half
     /\ MinInteger = 0 - half /\ MaxInteger = half - 1
     /\ \A n \in Int : /\ Wrap(n) \in Int
                       /\ 0 - half <= n /\ n <= half - 1 => Wrap(n) = n
<1>1. PICK half : half = Pow2[Width - 1]
  OBVIOUS
<1>2. Width - 1 \in Nat /\ Width - 1 + 1 = Width
  BY WidthAssumption
<1>3. half \in Nat \ {0} /\ Pow2[Width] = 2 * half
  BY <1>1, <1>2, PowersOfTwo
<1>4. MinInteger = 0 - half /\ MaxInteger = half - 1 /\ nil = 2 * half
  BY <1>1, <1>3 DEF MinInteger, MaxInteger, nil
<1>5. ASSUME NEW n \in Int
      PROVE  /\ Wrap(n) \in Int
             /\ 0 - half <= n /\ n <= half - 1 => Wrap(n) = n
  <2>1. Wrap(n) = ((n + half) % (2 * half)) - half
    BY <1>3, <1>4 DEF Wrap
  <2>2. (n + half) % (2 * half) \in Int
    BY <1>3
  <2>3. ASSUME 0 - half <= n, n <= half - 1
        PROVE  Wrap(n) = n
    <3>1. n + half \in 0..(2 * half - 1) /\ 2 * half \in Nat \ {0}
      BY <1>3, <2>3
    <3>2. (n + half) % (2 * half) = n + half
      BY <3>1, Undivided
    <3>3. QED
      BY <1>3, <2>1, <3>2
  <2>4. QED
    BY <1>3, <2>1, <2>2, <2>3
<1>6. QED
  BY <1>3, <1>4, <1>5

-----------------------------------------------------------------------------
\* A range with start a, stop b and step d that goes up and is not at the limits
\* of an integer.
Proper(a, b, d) == /\ a \in lua_Integer /\ b \in lua_Integer /\ d \in lua_Integer
                   /\ a < b /\ d > 0 /\ b - 1 + d <= MaxInteger /\ b - a <= MaxInteger
Numbers(a, b, d) == {n \in a..(b - 1) : \E k \in 0..(Pow2[Width]) : n = a + k * d}

\* No sum or difference of a proper range overflows.
LEMMA RangeTypes ==
  ASSUME NEW a, NEW b, NEW d, Proper(a, b, d)
  PROVE  /\ a \in Int /\ b \in Int /\ d \in Nat \ {0} /\ b - a < Pow2[Width] /\ Pow2[Width] \in Nat
         /\ \A n \in Int : a <= n /\ n < b => /\ Wrap(n + d) = n + d /\ n # nil /\ n \in lua_Integer
                                              /\ Wrap(n - a) = n - a
<1>1. PICK half \in Nat \ {0} :
         /\ Pow2[Width] = 2 * half /\ nil = 2 * half
         /\ MinInteger = 0 - half /\ MaxInteger = half - 1
         /\ \A n \in Int : /\ Wrap(n) \in Int
                           /\ 0 - half <= n /\ n <= half - 1 => Wrap(n) = n
  BY IntegersAre
<1>2. /\ a \in Int /\ b \in Int /\ d \in Nat \ {0} /\ b - a < Pow2[Width] /\ Pow2[Width] \in Nat
      /\ 0 - half <= a /\ b <= half - 1 /\ b - 1 + d <= half - 1 /\ b - a <= half - 1
  BY <1>1 DEF Proper, lua_Integer
<1>3. ASSUME NEW n \in Int, a <= n, n < b
      PROVE  /\ Wrap(n + d) = n + d /\ n # nil /\ n \in lua_Integer
             /\ Wrap(n - a) = n - a
  <2>1. 0 - half <= n + d /\ n + d <= half - 1 /\ 0 - half <= n - a /\ n - a <= half - 1
    BY <1>2, <1>3
  <2>2. n \in lua_Integer /\ n # nil
    BY <1>1, <1>2, <1>3 DEF lua_Integer
  <2>3. n + d \in Int /\ n - a \in Int
    BY <1>2, <1>3
  <2>4. QED
    BY <1>1, <2>1, <2>2, <2>3
<1>4. QED
  BY <1>2, <1>3

\* Asked, it answers for its numbers and no other.
LEMMA IndexIsRight ==
  ASSUME NEW a, NEW b, NEW d, Proper(a, b, d), NEW n \in lua_Integer
  PROVE  _infra_range_index(_infra_range(a, b, d), n) = (n \in Numbers(a, b, d))
<1>. DEFINE self == _infra_range(a, b, d)
<1>1. /\ a \in Int /\ b \in Int /\ d \in Nat \ {0} /\ b - a < Pow2[Width] /\ Pow2[Width] \in Nat
      /\ a <= n /\ n < b => Wrap(n - a) = n - a
      /\ n \in Int
  <2>1. n \in Int
    <3>1. MinInteger \in Int /\ MaxInteger \in Int
      BY IntegersAre
    <3>2. QED
      BY <3>1 DEF lua_Integer
  <2>2. QED
    BY <2>1, RangeTypes
<1>2. self.start = a /\ self.stop = b /\ self.step = d
  BY DEF _infra_range
<1>. HIDE DEF self
<1>3. CASE n < a \/ n >= b
  <2>1. _infra_range_index(self, n) = FALSE
    BY <1>2, <1>3 DEF _infra_range_index
  <2>2. n \notin Numbers(a, b, d)
    BY <1>1, <1>3 DEF Numbers
  <2>3. (n \in Numbers(a, b, d)) = FALSE
    BY <2>2
  <2>4. QED
    BY <2>1, <2>3 DEF self
<1>4. CASE ~(n < a \/ n >= b)
  <2>1. a <= n /\ n < b /\ n - a \in Nat
    BY <1>1, <1>4
  <2>2. AbsoluteOf(d) = d /\ d # 0 /\ d # -1
    BY <1>1 DEF AbsoluteOf
  <2>3. _infra_range_index(self, n) = ((n - a) % d = 0)
    BY <1>1, <1>2, <1>4, <2>1, <2>2 DEF _infra_range_index
  <2>4. ((n - a) % d = 0) <=> \E k \in 0..(n - a) : n - a = k * d
    BY <1>1, <2>1, NoRest
  <2>5. n \in Numbers(a, b, d) <=> \E k \in 0..(n - a) : n - a = k * d
    <3>1. ASSUME NEW k \in 0..(n - a), n - a = k * d
          PROVE  n \in Numbers(a, b, d)
      <4>1. k \in 0..(Pow2[Width]) /\ n = a + k * d /\ n \in a..(b - 1)
        BY <1>1, <2>1, <3>1
      <4>2. QED
        BY <4>1 DEF Numbers
    <3>2. ASSUME n \in Numbers(a, b, d)
          PROVE  \E k \in 0..(n - a) : n - a = k * d
      <4>1. PICK k \in 0..(Pow2[Width]) : n = a + k * d
        BY <3>2 DEF Numbers
      <4>2. k \in Nat /\ k * d \in Nat /\ n - a = k * d
        BY <1>1, <4>1
      <4>3. k <= k * d
        BY <1>1, <4>2
      <4>4. QED
        BY <1>1, <4>2, <4>3
    <3>3. QED
      BY <3>1, <3>2
  <2>6. _infra_range_index(self, n) \in BOOLEAN
    BY <2>3
  <2>7. QED
    BY <2>3, <2>4, <2>5 DEF self
<1>5. QED
  BY <1>3, <1>4

-----------------------------------------------------------------------------
\* The loop, after so many rounds: what it has got.
Turn(self, before) == IF Last(before) = nil THEN before
                      ELSE Append(before, _infra_range_next(self, Last(before)))
Loop(self, rounds, seen) ==
    seen = [round \in 0..rounds |-> IF round = 0 THEN <<_infra_range_next(self, nil)>>
                                    ELSE Turn(self, seen[round - 1])]

\* There is such a loop.
LEMMA LoopExists ==
  ASSUME NEW a, NEW b, NEW d, Proper(a, b, d), NEW rounds \in Nat
  PROVE  \E seen : Loop(_infra_range(a, b, d), rounds, seen)
<1>. DEFINE self == _infra_range(a, b, d)
            S == {s \in Seq(Int) : s # <<>>}
            first == <<_infra_range_next(self, nil)>>
            g == [n \in Nat |-> [s \in S |-> Turn(self, s)]]
<1>1. /\ a \in Int /\ b \in Int /\ d \in Int /\ nil \in Int
      /\ \A n \in Int : Wrap(n) \in Int
  BY RangeTypes, IntegersAre
<1>2. \A n \in Int : _infra_range_next(self, n) \in Int
  BY <1>1 DEF _infra_range_next, _infra_range
<1>3. first \in S
  BY <1>1, <1>2
<1>4. ASSUME NEW s \in S
      PROVE  Turn(self, s) \in S
  <2>. HIDE DEF self
  <2>1. Len(s) \in 1..Len(s) /\ s \in Seq(Int)
    BY EmptySeq, LenProperties
  <2>2. Last(s) \in Int
    BY <2>1 DEF Last
  <2>3. _infra_range_next(self, Last(s)) \in Int
    BY <1>2, <2>2
  <2>4. Append(s, _infra_range_next(self, Last(s))) \in S
    BY <2>1, <2>3, AppendProperties
  <2>5. QED
    BY <2>4 DEF Turn
<1>. HIDE DEF self, S, first
<1>5. g \in [Nat -> [S -> S]]
  BY <1>4
<1>. HIDE DEF g
<1>6. PICK f : Steps(f, first, g, S)
  BY <1>3, <1>5, StepsExist
<1>7. f \in [Nat -> S] /\ f[0] = first /\ \A n \in Nat : f[n + 1] = Turn(self, f[n])
  BY <1>6 DEF Steps, g
<1>8. PICK seen : seen = [round \in 0..rounds |-> f[round]]
  OBVIOUS
<1>9. ASSUME NEW round \in 0..rounds
      PROVE  seen[round] = IF round = 0 THEN first ELSE Turn(self, seen[round - 1])
  <2>1. CASE round = 0
    BY <1>7, <1>8, <2>1
  <2>2. CASE round # 0
    <3>1. round - 1 \in 0..rounds /\ round - 1 \in Nat /\ round - 1 + 1 = round
      BY <2>2
    <3>2. f[round] = Turn(self, f[round - 1])
      BY <1>7, <3>1
    <3>3. QED
      BY <1>8, <2>2, <3>1, <3>2
  <2>3. QED
    BY <2>1, <2>2
<1>10. Loop(self, rounds, seen)
  <2>1. seen = [round \in 0..rounds |-> seen[round]]
    BY <1>8
  <2>2. QED
    BY <1>9, <2>1 DEF Loop, first
<1>11. QED
  BY <1>10 DEF self

\* The definition is of that form.
LEMMA PairsAreLoop ==
  ASSUME NEW a, NEW b, NEW d, Proper(a, b, d), NEW rounds \in Nat
  PROVE  \E seen : /\ Loop(_infra_range(a, b, d), rounds, seen)
                   /\ _infra_range_pairs(_infra_range(a, b, d), rounds) = seen[rounds]
<1>. DEFINE self == _infra_range(a, b, d)
<1>1. PICK seen : seen = CHOOSE s : Loop(self, rounds, s)
  OBVIOUS
<1>2. Loop(self, rounds, seen)
  BY <1>1, LoopExists
<1>. HIDE DEF self
<1>3. _infra_range_pairs(self, rounds) = seen[rounds]
  BY <1>1 DEF _infra_range_pairs, Loop, Turn
<1>4. QED
  BY <1>2, <1>3 DEF self

-----------------------------------------------------------------------------
\* What it has after some rounds: m numbers, one more with each round, until the
\* next one is not below the end; then nil.
Running(s, m, a, b, d) == /\ s \in [1..m -> Int] /\ Len(s) = m
                          /\ \A i \in 1..m : s[i] = a + (i - 1) * d /\ s[i] < b
Over(s, m, a, b, d) == /\ s \in [1..(m + 1) -> Int] /\ Len(s) = m + 1
                       /\ \A i \in 1..m : s[i] = a + (i - 1) * d /\ s[i] < b
                       /\ a + m * d >= b /\ s[m + 1] = nil
GotSoFar(s, round, a, b, d) ==
    \/ Running(s, round + 1, a, b, d)
    \/ \E m \in 1..round : Over(s, m, a, b, d)

\* A round goes on as it should.
LEMMA TurnGoesOn ==
  ASSUME NEW a, NEW b, NEW d, Proper(a, b, d), NEW round \in Nat, NEW s, GotSoFar(s, round, a, b, d)
  PROVE  GotSoFar(Turn(_infra_range(a, b, d), s), round + 1, a, b, d)
<1>. DEFINE self == _infra_range(a, b, d)
<1>1. /\ a \in Int /\ b \in Int /\ d \in Nat \ {0}
      /\ \A n \in Int : a <= n /\ n < b => Wrap(n + d) = n + d /\ n # nil
      /\ nil \in Int
  BY RangeTypes, IntegersAre
<1>2. \A n \in Int : n # nil => _infra_range_next(self, n) = IF Wrap(n + d) >= b THEN nil ELSE Wrap(n + d)
  BY DEF _infra_range_next, _infra_range
<1>. HIDE DEF self
<1>3. CASE Running(s, round + 1, a, b, d)
  <2>. DEFINE m == round + 1
              last == s[m]
              t == Turn(self, s)
              next == last + d
  <2>1. /\ m \in Nat \ {0} /\ s \in [1..m -> Int] /\ Len(s) = m
        /\ \A i \in 1..m : s[i] = a + (i - 1) * d /\ s[i] < b
    BY <1>3 DEF Running
  <2>2. last = a + (m - 1) * d /\ last < b /\ last \in Int /\ (m - 1) * d \in Nat
    BY <1>1, <2>1
  <2>3. a <= last /\ last # nil
    BY <1>1, <2>2
  <2>4. Last(s) = last
    BY <2>1 DEF Last
  <2>5. (m - 1) * d + d = m * d /\ m * d \in Nat
    BY <1>1, <2>1
  <2>6. next = a + m * d /\ next \in Int
    BY <1>1, <2>2, <2>5
  <2>. HIDE DEF m
  <2>7. t = Append(s, IF next >= b THEN nil ELSE next)
    BY <1>1, <1>2, <2>2, <2>3, <2>4 DEF Turn
  <2>. HIDE DEF last, next
  <2>8. \A x \in Int : /\ Append(s, x) \in [1..(m + 1) -> Int] /\ Len(Append(s, x)) = m + 1
                       /\ Append(s, x)[m + 1] = x
                       /\ \A i \in 1..m : Append(s, x)[i] = s[i]
    <3>1. s \in Seq(Int)
      BY <2>1
    <3>2. ASSUME NEW x \in Int
          PROVE  /\ Append(s, x) \in Seq(Int) /\ Len(Append(s, x)) = m + 1
                 /\ Append(s, x)[m + 1] = x
                 /\ \A i \in 1..m : Append(s, x)[i] = s[i]
      BY <2>1, <3>1, AppendProperties
    <3>3. \A x \in Int : Append(s, x) \in [1..(m + 1) -> Int]
      BY <3>2, LenProperties
    <3>4. QED
      BY <3>2, <3>3
  <2>9. CASE next >= b
    <3>1. t = Append(s, nil)
      BY <2>7, <2>9
    <3>0. nil \in Int
      BY <1>1
    <3>5. /\ t \in [1..(m + 1) -> Int] /\ Len(t) = m + 1 /\ t[m + 1] = nil
          /\ \A i \in 1..m : t[i] = s[i]
      <4>1. /\ Append(s, nil) \in [1..(m + 1) -> Int] /\ Len(Append(s, nil)) = m + 1
            /\ Append(s, nil)[m + 1] = nil
            /\ \A i \in 1..m : Append(s, nil)[i] = s[i]
        BY <2>8, <3>0
      <4>. HIDE DEF t
      <4>2. QED
        BY <3>1, <4>1
    <3>6. a + m * d >= b
      BY <2>6, <2>9
    <3>. HIDE DEF t
    <3>7. \A i \in 1..m : t[i] = a + (i - 1) * d /\ t[i] < b
      BY <2>1, <3>5
    <3>2. Over(t, m, a, b, d)
      BY <3>5, <3>6, <3>7 DEF Over
    <3>3. m \in 1..(round + 1)
      BY DEF m
    <3>4. QED
      BY <3>2, <3>3 DEF GotSoFar, self, t
  <2>10. CASE ~(next >= b)
    <3>1. t = Append(s, next)
      BY <2>7, <2>10
    <3>2. /\ t \in [1..(m + 1) -> Int] /\ Len(t) = m + 1 /\ t[m + 1] = next
          /\ \A i \in 1..m : t[i] = s[i]
      BY <2>6, <2>8, <3>1
    <3>. HIDE DEF t
    <3>3. ASSUME NEW i \in 1..(m + 1)
          PROVE  t[i] = a + (i - 1) * d /\ t[i] < b
      <4>1. CASE i \in 1..m
        BY <2>1, <3>2, <4>1
      <4>2. CASE i = m + 1
        <5>1. t[i] = next /\ i - 1 = m
          BY <2>1, <3>2, <4>2
        <5>2. next < b
          BY <1>1, <2>6, <2>10
        <5>3. QED
          BY <2>6, <5>1, <5>2
      <4>3. QED
        BY <2>1, <4>1, <4>2
    <3>4. Running(t, m + 1, a, b, d)
      BY <3>2, <3>3 DEF Running
    <3>5. QED
      BY <3>4 DEF GotSoFar, self, t, m
  <2>11. QED
    BY <2>9, <2>10
<1>4. CASE \E m \in 1..round : Over(s, m, a, b, d)
  <2>1. PICK m \in 1..round : Over(s, m, a, b, d)
    BY <1>4
  <2>2. Last(s) = nil
    BY <2>1 DEF Over, Last
  <2>3. Turn(self, s) = s
    BY <2>2 DEF Turn
  <2>4. m \in 1..(round + 1)
    BY <2>1
  <2>5. QED
    BY <2>1, <2>3, <2>4 DEF GotSoFar, self
<1>5. QED
  BY <1>3, <1>4 DEF GotSoFar

\* So the loop is over after so many rounds.
LEMMA LoopIsOver ==
  ASSUME NEW a, NEW b, NEW d, Proper(a, b, d)
  PROVE  \E m \in Nat \ {0} : Over(_infra_range_pairs(_infra_range(a, b, d), Pow2[Width]), m, a, b, d)
<1>. DEFINE self == _infra_range(a, b, d)
            rounds == Pow2[Width]
<1>1. a \in Int /\ b \in Int /\ d \in Nat \ {0} /\ b - a < rounds /\ rounds \in Nat
  BY RangeTypes
<1>. HIDE DEF rounds
<1>2. PICK seen : Loop(self, rounds, seen) /\ _infra_range_pairs(self, rounds) = seen[rounds]
  BY <1>1, PairsAreLoop
<1>3. /\ \A round \in 0..rounds : seen[round] = IF round = 0 THEN <<_infra_range_next(self, nil)>>
                                                ELSE Turn(self, seen[round - 1])
  <2>. DEFINE body(round) == IF round = 0 THEN <<_infra_range_next(self, nil)>>
                             ELSE Turn(self, seen[round - 1])
  <2>1. seen = [round \in 0..rounds |-> body(round)]
    BY <1>2 DEF Loop
  <2>. HIDE DEF body
  <2>2. \A round \in 0..rounds : seen[round] = body(round)
    BY <2>1
  <2>3. QED
    BY <2>2 DEF body
<1>4. GotSoFar(seen[0], 0, a, b, d)
  <2>1. seen[0] = <<a>>
    BY <1>1, <1>3 DEF _infra_range_next, _infra_range
  <2>2. a < b
    BY DEF Proper
  <2>3. Running(<<a>>, 1, a, b, d)
    BY <1>1, <2>2 DEF Running
  <2>4. QED
    BY <2>1, <2>3 DEF GotSoFar
<1>5. \A round \in 0..rounds : GotSoFar(seen[round], round, a, b, d)
  <2>. DEFINE Bad == {round \in 0..rounds : ~GotSoFar(seen[round], round, a, b, d)}
  <2>1. ASSUME Bad # {}
        PROVE  FALSE
    <3>1. PICK r \in Bad : \A other \in Bad : r <= other
      <4>1. Bad \subseteq Nat
        OBVIOUS
      <4>. HIDE DEF Bad
      <4>2. QED
        BY <2>1, <4>1, FirstOf
    <3>2. r \in 0..rounds /\ ~GotSoFar(seen[r], r, a, b, d) /\ r # 0
      BY <1>4, <3>1
    <3>3. r - 1 \in 0..rounds /\ r - 1 \in Nat /\ r - 1 + 1 = r /\ r - 1 \notin Bad
      <4>1. r - 1 \in 0..rounds /\ r - 1 \in Nat /\ r - 1 + 1 = r
        BY <1>1, <3>2
      <4>. HIDE DEF Bad
      <4>2. QED
        BY <3>1, <3>2, <4>1
    <3>4. GotSoFar(seen[r - 1], r - 1, a, b, d)
      BY <3>3
    <3>5. seen[r] = Turn(self, seen[r - 1])
      BY <1>3, <3>2
    <3>6. GotSoFar(seen[r], r, a, b, d)
      <4>1. GotSoFar(Turn(self, seen[r - 1]), r - 1 + 1, a, b, d)
        BY <3>3, <3>4, TurnGoesOn
      <4>2. QED
        BY <3>3, <3>5, <4>1
    <3>7. QED
      BY <3>2, <3>6
  <2>2. QED
    BY <2>1
<1>6. ~Running(seen[rounds], rounds + 1, a, b, d)
  <2>1. SUFFICES ASSUME Running(seen[rounds], rounds + 1, a, b, d) PROVE FALSE
    OBVIOUS
  <2>2. PICK n : n = rounds + 1
    OBVIOUS
  <2>7. n \in 1..n /\ n - 1 = rounds
    BY <1>1, <2>2
  <2>8. seen[rounds][n] = a + (n - 1) * d /\ seen[rounds][n] < b
    BY <2>1, <2>2, <2>7 DEF Running
  <2>3. a + rounds * d < b
    BY <2>7, <2>8
  <2>4. rounds <= rounds * d
    BY <1>1
  <2>5. rounds * d \in Nat
    BY <1>1
  <2>6. QED
    BY <1>1, <2>3, <2>4, <2>5
<1>7. rounds \in 0..rounds
  BY <1>1
<1>8. PICK m \in 1..rounds : Over(seen[rounds], m, a, b, d)
  BY <1>5, <1>6, <1>7 DEF GotSoFar
<1>9. m \in Nat \ {0}
  OBVIOUS
<1>10. QED
  BY <1>2, <1>8, <1>9 DEF rounds, self

\* It has got the numbers of the range, in their order, and then nil.
LEMMA LoopIsRight ==
  ASSUME NEW a, NEW b, NEW d, Proper(a, b, d)
  PROVE  LET s == _infra_range_pairs(_infra_range(a, b, d), Pow2[Width])
         IN  IsAscending(Front(s), Numbers(a, b, d)) /\ Last(s) = nil
<1>. DEFINE s == _infra_range_pairs(_infra_range(a, b, d), Pow2[Width])
            f == Front(s)
<1>1. a \in Int /\ b \in Int /\ d \in Nat \ {0} /\ b - a < Pow2[Width] /\ Pow2[Width] \in Nat
  BY RangeTypes
<1>2. PICK m \in Nat \ {0} : Over(s, m, a, b, d)
  BY LoopIsOver
<1>. HIDE DEF s
<1>3. /\ s \in [1..(m + 1) -> Int] /\ Len(s) = m + 1
      /\ \A i \in 1..m : s[i] = a + (i - 1) * d /\ s[i] < b
      /\ a + m * d >= b /\ s[m + 1] = nil
  BY <1>2 DEF Over
<1>4. Last(s) = nil
  BY <1>3 DEF Last
<1>5. DOMAIN f = 1..m /\ \A i \in 1..m : f[i] = s[i]
  <2>1. f = SubSeq(s, 1, m)
    BY <1>3 DEF Front
  <2>2. s \in Seq(Int)
    BY <1>3
  <2>3. 1 \in 1..(Len(s) + 1) /\ m \in (1 - 1)..Len(s)
    BY <1>3
  <2>4. /\ Len(SubSeq(s, 1, m)) = m /\ SubSeq(s, 1, m) \in Seq(Int)
        /\ \A i \in 1..m : SubSeq(s, 1, m)[i] = s[1 + i - 1]
    BY <1>3, <2>2, <2>3, SubSeqProperties
  <2>5. DOMAIN SubSeq(s, 1, m) = 1..m
    BY <2>4, LenProperties
  <2>6. \A i \in 1..m : 1 + i - 1 = i
    OBVIOUS
  <2>7. QED
    BY <2>1, <2>4, <2>5, <2>6
<1>. HIDE DEF f
<1>6. \A i, j \in 1..m : i < j => f[i] < f[j]
  <2>1. ASSUME NEW i \in 1..m, NEW j \in 1..m, i < j
        PROVE  f[i] < f[j]
    <3>1. (i - 1) * d < (j - 1) * d
      BY <1>1, <2>1, Multiples
    <3>2. f[i] = a + (i - 1) * d /\ f[j] = a + (j - 1) * d
      BY <1>3, <1>5
    <3>3. (i - 1) * d \in Int /\ (j - 1) * d \in Int
      BY <1>1
    <3>4. QED
      BY <1>1, <3>1, <3>2, <3>3
  <2>2. QED
    BY <2>1
<1>7. ASSUME NEW i \in 1..m
      PROVE  f[i] \in Numbers(a, b, d)
  <2>1. f[i] = a + (i - 1) * d /\ f[i] < b /\ i - 1 \in Nat
    BY <1>3, <1>5
  <2>2. (i - 1) * d \in Nat /\ i - 1 <= (i - 1) * d
    BY <1>1, <2>1
  <2>3. f[i] \in a..(b - 1) /\ i - 1 \in 0..(Pow2[Width])
    BY <1>1, <2>1, <2>2
  <2>4. QED
    BY <2>1, <2>3 DEF Numbers
<1>8. ASSUME NEW n \in Numbers(a, b, d)
      PROVE  \E i \in 1..m : f[i] = n
  <2>1. PICK k \in 0..(Pow2[Width]) : n = a + k * d
    BY DEF Numbers
  <2>2. n < b /\ n \in Int
    BY <1>1 DEF Numbers
  <2>3. k \in Nat /\ k * d \in Nat /\ m * d \in Nat
    BY <1>1, <2>1
  <2>4. k * d < m * d
    <3>1. PICK x, y : x = k * d /\ y = m * d
      OBVIOUS
    <3>2. x \in Nat /\ y \in Nat /\ a + x < b /\ a + y >= b
      BY <1>3, <2>1, <2>2, <2>3, <3>1
    <3>3. x < y
      BY <1>1, <3>2
    <3>4. QED
      BY <3>1, <3>3
  <2>5. k < m
    BY <1>1, <2>3, <2>4, Multiples
  <2>6. k + 1 \in 1..m /\ k + 1 - 1 = k
    BY <2>3, <2>5
  <2>7. f[k + 1] = n
    BY <1>3, <1>5, <2>1, <2>6
  <2>8. QED
    BY <2>6, <2>7
<1>9. ToSet(f) = Numbers(a, b, d)
  BY <1>5, <1>7, <1>8 DEF ToSet
<1>10. IsAscending(f, Numbers(a, b, d))
  BY <1>5, <1>6, <1>9 DEF IsAscending
<1>11. QED
  BY <1>4, <1>10 DEF f, s

\* Bounded induction.
LEMMA Upwards ==
  ASSUME NEW n \in Nat, NEW P, 0 \in P, \A i \in 0..(n - 1) : i \in P => i + 1 \in P
  PROVE  \A i \in 0..n : i \in P
<1>. DEFINE Bad == {i \in 0..n : i \notin P}
<1>1. ASSUME Bad # {}
      PROVE  FALSE
  <2>1. PICK i \in Bad : \A j \in Bad : i <= j
    <3>1. Bad \subseteq Nat
      OBVIOUS
    <3>. HIDE DEF Bad
    <3>2. QED
      BY <1>1, <3>1, FirstOf
  <2>2. i \in 0..n /\ i \notin P /\ i # 0
    OBVIOUS
  <2>3. i - 1 \in 0..(n - 1) /\ i - 1 + 1 = i /\ i - 1 \in 0..n
    BY <2>2
  <2>4. i - 1 \notin Bad
    <3>. HIDE DEF Bad
    <3>1. QED
      BY <2>1, <2>2
  <2>5. i - 1 \in P
    BY <2>3, <2>4
  <2>6. QED
    BY <2>2, <2>3, <2>5
<1>2. QED
  BY <1>1

\* A function on 0..n can be defined step by step.
StepsTo(f, a, g, n, S) == /\ f \in [0..n -> S] /\ f[0] = a
                          /\ \A i \in 1..n : f[i] = g[i][f[i - 1]]

\* There is a function on 0..n that starts with a and goes by g.
LEMMA StepsUpTo ==
  ASSUME NEW S, NEW a \in S, NEW n \in Nat, NEW g \in [1..n -> [S -> S]]
  PROVE  \E f : StepsTo(f, a, g, n, S)
<1>. DEFINE h == [i \in Nat |-> [s \in S |-> IF i < n THEN g[i + 1][s] ELSE s]]
<1>1. ASSUME NEW i \in Nat, NEW s \in S
      PROVE  (IF i < n THEN g[i + 1][s] ELSE s) \in S
  <2>1. i < n => i + 1 \in 1..n
    OBVIOUS
  <2>2. QED
    BY <2>1
<1>2. h \in [Nat -> [S -> S]]
  BY <1>1
<1>. HIDE DEF h
<1>3. PICK e : Steps(e, a, h, S)
  BY <1>2, StepsExist
<1>4. e \in [Nat -> S] /\ e[0] = a /\ \A i \in Nat : e[i + 1] = h[i][e[i]]
  BY <1>3 DEF Steps
<1>5. ASSUME NEW i \in 1..n
      PROVE  e[i] = g[i][e[i - 1]]
  <2>1. i - 1 \in Nat /\ i - 1 < n /\ i - 1 + 1 = i
    OBVIOUS
  <2>2. e[i] = h[i - 1][e[i - 1]] /\ e[i - 1] \in S
    BY <1>4, <2>1
  <2>3. QED
    BY <2>1, <2>2 DEF h
<1>6. PICK f : f = [i \in 0..n |-> e[i]]
  OBVIOUS
<1>7. \A i \in 1..n : i \in 0..n /\ i - 1 \in 0..n
  OBVIOUS
<1>8. \A i \in 1..n : f[i] = g[i][f[i - 1]]
  BY <1>5, <1>6, <1>7
<1>9. f \in [0..n -> S] /\ f[0] = a
  BY <1>4, <1>6
<1>10. QED
  BY <1>8, <1>9 DEF StepsTo

-----------------------------------------------------------------------------
\* What the last characters of an argument become.
Escaping(done, source) ==
    LET n == Len(source)
    IN  /\ DOMAIN done = 0..n
        /\ done[0] = [hit |-> TRUE, text |-> <<>>]
        /\ \A i \in 1..n : done[i] = Escape(done[i - 1], source[n - i + 1])
EscapeState == [hit : BOOLEAN, text : Seq(Int)]

\* One more character.
LEMMA EscapeTypes ==
  ASSUME NEW s \in EscapeState, NEW c \in Int
  PROVE  Escape(s, c) \in EscapeState
<1>1. s.text \in Seq(Int) /\ <<c, BACKSLASH>> \in Seq(Int) /\ <<BACKSLASH, c>> \in Seq(Int) /\ <<c>> \in Seq(Int)
  BY DEF EscapeState, BACKSLASH
<1>2. /\ <<c, BACKSLASH>> \o s.text \in Seq(Int) /\ <<BACKSLASH, c>> \o s.text \in Seq(Int)
      /\ <<c>> \o s.text \in Seq(Int)
  BY <1>1, ConcatProperties
<1>3. CASE s.hit /\ c = BACKSLASH
  <2>1. Escape(s, c) = [hit |-> TRUE, text |-> <<c, BACKSLASH>> \o s.text]
    BY <1>3 DEF Escape
  <2>2. QED
    BY <1>2, <2>1 DEF EscapeState
<1>4. CASE ~(s.hit /\ c = BACKSLASH) /\ c = QUOTE
  <2>1. Escape(s, c) = [hit |-> TRUE, text |-> <<BACKSLASH, c>> \o s.text]
    BY <1>4 DEF Escape, QUOTE, BACKSLASH
  <2>2. QED
    BY <1>2, <2>1 DEF EscapeState
<1>5. CASE ~(s.hit /\ c = BACKSLASH) /\ c # QUOTE
  <2>1. Escape(s, c) = [hit |-> FALSE, text |-> <<c>> \o s.text]
    BY <1>5 DEF Escape
  <2>2. QED
    BY <1>2, <2>1 DEF EscapeState
<1>6. QED
  BY <1>3, <1>4, <1>5

\* The definition of Escaped is of this form.
LEMMA EscapedIs ==
  ASSUME NEW source \in Seq(Int)
  PROVE  \E done \in [0..Len(source) -> EscapeState] :
            Escaping(done, source) /\ Escaped(source) = done[Len(source)].text
<1>. DEFINE n == Len(source)
            a == [hit |-> TRUE, text |-> <<>>]
            body(f) == [i \in 0..n |-> IF i = 0 THEN a ELSE Escape(f[i - 1], source[n - i + 1])]
            done == CHOOSE f : f = body(f)
            g == [i \in 1..n |-> [s \in EscapeState |-> Escape(s, source[n - i + 1])]]
<1>1. n \in Nat /\ \A i \in 1..n : source[n - i + 1] \in Int
  <2>1. n \in Nat /\ source \in [1..n -> Int]
    BY LenProperties
  <2>2. \A i \in 1..n : n - i + 1 \in 1..n
    BY <2>1
  <2>3. QED
    BY <2>1, <2>2
<1>2. a \in EscapeState
  BY DEF EscapeState
<1>3. g \in [1..n -> [EscapeState -> EscapeState]]
  BY <1>1, EscapeTypes
<1>4. Escaped(source) = done[n].text
  BY DEF Escaped
<1>. HIDE DEF n, a
<1>5. PICK f : StepsTo(f, a, g, n, EscapeState)
  <2>1. n \in Nat
    BY <1>1
  <2>. HIDE DEF g
  <2>2. QED
    BY <1>2, <1>3, <2>1, StepsUpTo
<1>6. \A i \in 1..n : f[i] = Escape(f[i - 1], source[n - i + 1])
  <2>1. \A i \in 1..n : i - 1 \in 0..n
    BY <1>1
  <2>2. QED
    BY <1>5, <2>1 DEF StepsTo
<1>7. f = body(f)
  <2>1. \A i \in 0..n : f[i] = IF i = 0 THEN a ELSE Escape(f[i - 1], source[n - i + 1])
    BY <1>1, <1>5, <1>6 DEF StepsTo
  <2>2. QED
    BY <1>5, <2>1 DEF StepsTo
<1>8. done = body(done)
  <2>. HIDE DEF body
  <2>1. QED
    BY <1>7
<1>. HIDE DEF done
<1>9. /\ DOMAIN done = 0..n /\ done[0] = a
      /\ \A i \in 1..n : done[i] = Escape(done[i - 1], source[n - i + 1])
  <2>1. DOMAIN done = 0..n
    BY <1>8
  <2>2. \A i \in 0..n : done[i] = IF i = 0 THEN a ELSE Escape(done[i - 1], source[n - i + 1])
    BY <1>8
  <2>3. QED
    BY <1>1, <2>1, <2>2
<1>10. \A i \in 0..n : done[i] \in EscapeState
  <2>. DEFINE P == {i \in 0..n : done[i] \in EscapeState}
  <2>1. 0 \in P
    BY <1>1, <1>2, <1>9
  <2>2. ASSUME NEW i \in 0..(n - 1), i \in P
        PROVE  i + 1 \in P
    <3>1. i + 1 \in 1..n /\ i + 1 - 1 = i /\ i + 1 \in 0..n
      BY <1>1
    <3>2. done[i + 1] = Escape(done[i], source[n - (i + 1) + 1])
      BY <1>9, <3>1
    <3>3. source[n - (i + 1) + 1] \in Int
      BY <1>1, <3>1
    <3>4. done[i + 1] \in EscapeState
      BY <2>2, <3>2, <3>3, EscapeTypes
    <3>5. QED
      BY <3>1, <3>4
  <2>. HIDE DEF P
  <2>3. \A i \in 0..n : i \in P
    BY <1>1, <2>1, <2>2, Upwards
  <2>4. QED
    BY <2>3 DEF P
<1>11. done \in [0..n -> EscapeState]
  <2>1. done = [i \in 0..n |-> done[i]]
    BY <1>8
  <2>2. QED
    BY <1>10, <2>1
<1>12. QED
  BY <1>4, <1>9, <1>11 DEF Escaping, n, a

-----------------------------------------------------------------------------
\* A sequence and one more element.
LEMMA OneMore ==
  ASSUME NEW s \in Seq(Int), NEW i \in 0..(Len(s) - 1)
  PROVE  Append(SubSeq(s, 1, i), s[i + 1]) = SubSeq(s, 1, i + 1)
<1>1. Len(s) \in Nat /\ s \in [1..Len(s) -> Int] /\ i \in Nat /\ i + 1 \in 1..Len(s)
  BY LenProperties
<1>2. s[i + 1] \in Int /\ 1 \in 1..Len(s) /\ i + 1 \in 1..Len(s) /\ i + 1 - 1 = i
  BY <1>1
<1>3. SubSeq(s, 1, i + 1) = SubSeq(s, 1, i) \o <<s[i + 1]>>
  BY <1>1, <1>2, SubSeqRecursiveSecond
<1>4. SubSeq(s, 1, i) \in Seq(Int)
  <2>1. \A j \in 1..i : s[j] \in Int
    BY <1>1
  <2>2. QED
    BY <1>1, <2>1, SubSeqProperties
<1>5. QED
  BY <1>2, <1>3, <1>4, AppendIsConcat

\* Backslashes.
LEMMA BackslashesAre ==
  ASSUME NEW n \in Nat
  PROVE  /\ Backslashes(n) \in Seq(Int) /\ Len(Backslashes(n)) = n
         /\ \A i \in 1..n : Backslashes(n)[i] = BACKSLASH
<1>1. Backslashes(n) \in [1..n -> Int]
  BY DEF Backslashes, BACKSLASH
<1>2. QED
  BY <1>1 DEF Backslashes

\* One more backslash is one more character.
LEMMA OneMoreBackslash ==
  ASSUME NEW t \in Seq(Int), NEW k \in Nat
  PROVE  /\ t \o Backslashes(k) \in Seq(Int)
         /\ t \o Backslashes(k + 1) = Append(t \o Backslashes(k), BACKSLASH)
<1>. DEFINE x == Backslashes(k)
            y == Backslashes(k + 1)
<1>1. x \in Seq(Int) /\ Len(x) = k /\ \A i \in 1..k : x[i] = BACKSLASH
  BY BackslashesAre
<1>2. /\ y \in Seq(Int) /\ Len(y) = k + 1
      /\ \A i \in 1..(k + 1) : y[i] = BACKSLASH
  <2>1. k + 1 \in Nat
    OBVIOUS
  <2>2. QED
    BY <2>1, BackslashesAre
<1>. HIDE DEF x, y
<1>3. BACKSLASH \in Int
  BY DEF BACKSLASH
<1>4. /\ Append(x, BACKSLASH) \in Seq(Int) /\ Len(Append(x, BACKSLASH)) = k + 1
      /\ \A i \in 1..k : Append(x, BACKSLASH)[i] = x[i]
      /\ Append(x, BACKSLASH)[k + 1] = BACKSLASH
  BY <1>1, <1>3, AppendProperties
<1>5. \A i \in 1..(k + 1) : y[i] = Append(x, BACKSLASH)[i]
  <2>1. \A i \in 1..(k + 1) : i \in 1..k \/ i = k + 1
    OBVIOUS
  <2>2. QED
    BY <1>1, <1>2, <1>4, <2>1
<1>6. y = Append(x, BACKSLASH)
  BY <1>2, <1>4, <1>5, SeqEqual
<1>7. y = x \o <<BACKSLASH>> /\ <<BACKSLASH>> \in Seq(Int)
  BY <1>1, <1>3, <1>6, AppendIsConcat
<1>8. t \o y = (t \o x) \o <<BACKSLASH>> /\ t \o x \in Seq(Int)
  BY <1>1, <1>7, ConcatAssociative, ConcatProperties
<1>9. t \o y = Append(t \o x, BACKSLASH)
  BY <1>3, <1>8, AppendIsConcat
<1>10. QED
  BY <1>8, <1>9 DEF x, y

\* And no backslash is none.
LEMMA NoBackslash ==
  ASSUME NEW t \in Seq(Int)
  PROVE  t \o Backslashes(0) = t
<1>1. Backslashes(0) \in Seq(Int) /\ Len(Backslashes(0)) = 0
  BY BackslashesAre
<1>2. Backslashes(0) = <<>>
  BY <1>1, EmptySeq
<1>3. QED
  BY <1>2, ConcatEmptySeq

-----------------------------------------------------------------------------
\* What has been read, nothing being skipped: the arguments A and a part t of one
\* that is open or not, in quotes or not, and k backslashes.
Reader(A, t, open, quoted, k, skip) ==
    [args |-> A, text |-> t, open |-> open, quoted |-> quoted, slashes |-> k, skip |-> skip]
Reading(A, t, open, quoted, k) == Reader(A, t, open, quoted, k, FALSE)
Between(A) == Reading(A, <<>>, FALSE, FALSE, 0)
ReadState == [args : Seq(Seq(Int)), text : Seq(Int), open : BOOLEAN, quoted : BOOLEAN,
              slashes : Nat, skip : BOOLEAN]

\* Half of a number.
LEMMA Half ==
  ASSUME NEW k \in Nat
  PROVE  /\ k \div 2 \in Nat /\ k % 2 \in {0, 1}
         /\ (2 * k) \div 2 = k /\ (2 * k) % 2 = 0
         /\ (2 * k + 1) \div 2 = k /\ (2 * k + 1) % 2 = 1
<1>1. k \div 2 \in Nat /\ k % 2 \in {0, 1}
  BY SMT
<1>2. (2 * k) \div 2 = k /\ (2 * k) % 2 = 0
  BY SMT
<1>3. (2 * k + 1) \div 2 = k /\ (2 * k + 1) % 2 = 1
  BY SMT
<1>4. QED
  BY <1>1, <1>2, <1>3

\* A state of the reader leads to another.
LEMMA ReadTypesStay ==
  ASSUME NEW s \in ReadState, NEW all, NEW i, all[i] \in Int
  PROVE  ReadNext(s, all, i) \in ReadState
<1>1. /\ s.args \in Seq(Seq(Int)) /\ s.text \in Seq(Int) /\ s.slashes \in Nat
      /\ s.open \in BOOLEAN /\ s.quoted \in BOOLEAN /\ s.skip \in BOOLEAN
  BY DEF ReadState
<1>. DEFINE x == s.text \o Backslashes(s.slashes \div 2)
            y == s.text \o Backslashes(s.slashes)
<1>2. s.slashes \div 2 \in Nat
  BY <1>1, Half
<1>3. x \in Seq(Int) /\ y \in Seq(Int)
  BY <1>1, <1>2, OneMoreBackslash
<1>. HIDE DEF x, y
<1>4. Append(x, QUOTE) \in Seq(Int) /\ Append(y, all[i]) \in Seq(Int)
  BY <1>3, AppendProperties DEF QUOTE
<1>5. Append(s.args, y) \in Seq(Seq(Int)) /\ <<>> \in Seq(Int)
  BY <1>1, <1>3, AppendProperties, EmptySeq
<1>6. AtQuote(s, all[i + 1]) \in ReadState
  BY <1>1, <1>3, <1>4 DEF AtQuote, ReadState, x
<1>7. AtOther(s, all[i]) \in ReadState
  BY <1>1, <1>3, <1>4, <1>5 DEF AtOther, ReadState, y
<1>8. [s EXCEPT !.skip = FALSE] \in ReadState
  BY DEF ReadState
<1>9. [s EXCEPT !.slashes = @ + 1, !.open = TRUE] \in ReadState
  <2>1. s.slashes + 1 \in Nat
    BY <1>1
  <2>2. QED
    BY <1>1, <2>1 DEF ReadState
<1>10. QED
  BY <1>6, <1>7, <1>8, <1>9 DEF ReadNext

\* Of s a flag, say.  (The provers are better at names than at truth values.)
Yes == TRUE
No == FALSE

\* What one character does to the reader: a backslash is counted,
LEMMA ReadsBackslash ==
  ASSUME NEW A, NEW t, NEW o, NEW q, NEW k \in Nat, NEW all, NEW i, all[i] = BACKSLASH
  PROVE  ReadNext(Reading(A, t, o, q, k), all, i) = Reading(A, t, Yes, q, k + 1)
BY DEF ReadNext, Reading, Reader, Yes

\* a character that is neither it nor a quote is appended, the backslashes before it,
LEMMA ReadsOther ==
  ASSUME NEW A, NEW t, NEW o, NEW q, NEW k \in Nat, NEW all, NEW i,
         all[i] \notin {BACKSLASH, QUOTE}, all[i] \notin {SPACE, TAB} \/ q = Yes
  PROVE  ReadNext(Reading(A, t, o, q, k), all, i) =
            Reading(A, Append(t \o Backslashes(k), all[i]), Yes, q, 0)
BY DEF ReadNext, Reading, Reader, AtOther, Yes

\* a blank between arguments is left out, and one after an argument ends it,
LEMMA ReadsBlank ==
  ASSUME NEW A, NEW t, NEW k \in Nat, NEW all, NEW i, all[i] = SPACE
  PROVE  /\ ReadNext(Between(A), all, i) = Between(A)
         /\ ReadNext(Reading(A, t, Yes, No, k), all, i) =
               Between(Append(A, t \o Backslashes(k)))
<1>1. all[i] # BACKSLASH /\ all[i] # QUOTE /\ all[i] \in {SPACE, TAB}
  BY DEF BACKSLASH, QUOTE, SPACE
<1>2. ReadNext(Between(A), all, i) = Between(A)
  BY <1>1 DEF ReadNext, Reading, Reader, Between, AtOther, No
<1>3. ReadNext(Reading(A, t, Yes, No, k), all, i) = Between(Append(A, t \o Backslashes(k)))
  BY <1>1 DEF ReadNext, Reading, Reader, Between, AtOther, Yes, No
<1>4. QED
  BY <1>2, <1>3

Twice(j, k) == j = 2 * k
NextTo(p, c) == c = p + 1
OneQuote(all, i) == all[i] = QUOTE /\ all[i + 1] # QUOTE

\* a quote after an odd number of backslashes is a character,
LEMMA ReadsQuote ==
  ASSUME NEW A, NEW t, NEW o, NEW q, NEW k \in Nat, NEW j, j = 2 * k + 1,
         NEW all, NEW i, all[i] = QUOTE
  PROVE  ReadNext(Reading(A, t, o, q, j), all, i) =
            Reading(A, Append(t \o Backslashes(k), QUOTE), Yes, q, 0)
<1>1. all[i] # BACKSLASH
  BY DEF BACKSLASH, QUOTE
<1>2. j \div 2 = k /\ j % 2 = 1
  BY Half
<1>3. QED
  BY <1>1, <1>2 DEF ReadNext, Reading, Reader, AtQuote, Yes

\* a quote where an argument begins opens it,
LEMMA ReadsOpening ==
  ASSUME NEW A, NEW t, NEW o, NEW k \in Nat, NEW j, Twice(j, k), NEW all, NEW i, all[i] = QUOTE
  PROVE  ReadNext(Reading(A, t, o, No, j), all, i) = Reading(A, t \o Backslashes(k), Yes, Yes, 0)
<1>1. all[i] # BACKSLASH
  BY DEF BACKSLASH, QUOTE
<1>2. j \div 2 = k /\ j % 2 # 1
  BY Half DEF Twice
<1>3. QED
  BY <1>1, <1>2 DEF ReadNext, Reading, Reader, AtQuote, Yes, No

\* and a quote after an even number of backslashes closes it.
LEMMA ReadsClosing ==
  ASSUME NEW A, NEW t, NEW o, NEW k \in Nat, NEW j, Twice(j, k),
         NEW all, NEW i, OneQuote(all, i)
  PROVE  ReadNext(Reading(A, t, o, Yes, j), all, i) = Reading(A, t \o Backslashes(k), Yes, No, 0)
<1>1. all[i] # BACKSLASH
  BY DEF BACKSLASH, QUOTE, OneQuote
<1>2. j \div 2 = k /\ j % 2 # 1
  BY Half DEF Twice
<1>3. all[i] = QUOTE /\ all[i + 1] # QUOTE
  BY DEF OneQuote
<1>4. QED
  BY <1>1, <1>2, <1>3 DEF ReadNext, Reading, Reader, AtQuote, Yes, No

-----------------------------------------------------------------------------
\* A line is read character by character.
Reads(read, all) == /\ read[0] = Between(<<>>)
                    /\ \A i \in 1..Len(all) : read[i] = ReadNext(read[i - 1], all, i)

\* The definition of ParsedArguments is of this form.
LEMMA ParsedIs ==
  ASSUME NEW ln \in Seq(Int)
  PROVE  \E read : /\ Reads(read, Append(ln, SPACE))
                   /\ ParsedArguments(ln) = read[Len(ln) + 1].args
<1>. DEFINE all == Append(ln, SPACE)
            n == Len(all)
            a == [args |-> <<>>, text |-> <<>>, open |-> FALSE, quoted |-> FALSE,
                  slashes |-> 0, skip |-> FALSE]
            body(f) == [i \in 0..n |-> IF i = 0 THEN a ELSE ReadNext(f[i - 1], all, i)]
            read == CHOOSE f : f = body(f)
            g == [i \in 1..n |-> [s \in ReadState |-> ReadNext(s, all, i)]]
<1>1. n \in Nat /\ n = Len(ln) + 1 /\ \A i \in 1..n : all[i] \in Int
  <2>1. SPACE \in Int
    BY DEF SPACE
  <2>2. all \in Seq(Int) /\ Len(all) = Len(ln) + 1
    BY <2>1, AppendProperties
  <2>3. all \in [1..Len(all) -> Int] /\ Len(all) \in Nat
    BY <2>2, LenProperties
  <2>. HIDE DEF all
  <2>4. QED
    BY <2>2, <2>3
<1>2. a \in ReadState
  <2>1. <<>> \in Seq(Seq(Int)) /\ <<>> \in Seq(Int)
    BY EmptySeq
  <2>2. QED
    BY <2>1 DEF ReadState
<1>3. ParsedArguments(ln) = read[n].args
  BY DEF ParsedArguments
<1>. HIDE DEF n, a, all
<1>4. g \in [1..n -> [ReadState -> ReadState]]
  BY <1>1, ReadTypesStay
<1>5. PICK f : StepsTo(f, a, g, n, ReadState)
  <2>1. n \in Nat
    BY <1>1
  <2>. HIDE DEF g
  <2>2. QED
    BY <1>2, <1>4, <2>1, StepsUpTo
<1>6. \A i \in 1..n : f[i] = ReadNext(f[i - 1], all, i)
  <2>1. \A i \in 1..n : i - 1 \in 0..n
    BY <1>1
  <2>2. QED
    BY <1>5, <2>1 DEF StepsTo
<1>7. f = body(f)
  <2>1. \A i \in 0..n : f[i] = IF i = 0 THEN a ELSE ReadNext(f[i - 1], all, i)
    BY <1>1, <1>5, <1>6 DEF StepsTo
  <2>2. QED
    BY <1>5, <2>1 DEF StepsTo
<1>8. read = body(read)
  <2>. HIDE DEF body
  <2>1. QED
    BY <1>7
<1>. HIDE DEF read
<1>9. read[0] = a /\ \A i \in 1..n : read[i] = ReadNext(read[i - 1], all, i)
  <2>1. \A i \in 0..n : read[i] = IF i = 0 THEN a ELSE ReadNext(read[i - 1], all, i)
    BY <1>8
  <2>2. QED
    BY <1>1, <2>1
<1>10. a = Between(<<>>)
  BY DEF a, Between, Reading, Reader
<1>11. Reads(read, all)
  BY <1>9, <1>10 DEF Reads, n
<1>12. QED
  BY <1>1, <1>3, <1>11 DEF all

-----------------------------------------------------------------------------
\* The first i characters of an argument that comes after those in A are read.
HasRead(s, A, arg, i, quoted) ==
    \E t, k, o :
        /\ t \in Seq(Int) /\ k \in Nat
        /\ s = Reading(A, t, o, quoted, k)
        /\ t \o Backslashes(k) = SubSeq(arg, 1, i)
        /\ i > 0 => o = Yes
        /\ k = 0 \/ (i > 0 /\ arg[i] = BACKSLASH)

\* No character is read.
LEMMA NothingRead ==
  ASSUME NEW A, NEW arg, NEW o, NEW quoted
  PROVE  HasRead(Reading(A, <<>>, o, quoted, 0), A, arg, 0, quoted)
<1>1. <<>> \in Seq(Int) /\ SubSeq(arg, 1, 0) = <<>>
  BY EmptySeq, SubSeqEmpty
<1>2. <<>> \o Backslashes(0) = SubSeq(arg, 1, 0)
  BY <1>1, NoBackslash
<1>3. QED
  <2>1. /\ <<>> \in Seq(Int) /\ 0 \in Nat
        /\ Reading(A, <<>>, o, quoted, 0) = Reading(A, <<>>, o, quoted, 0)
        /\ <<>> \o Backslashes(0) = SubSeq(arg, 1, 0)
        /\ 0 > 0 => o = Yes
        /\ 0 = 0 \/ (0 > 0 /\ arg[0] = BACKSLASH)
    BY <1>1, <1>2
  <2>2. QED
    BY <2>1 DEF HasRead

\* One more that is no quote and does not end the argument.
LEMMA PlainGoesOn ==
  ASSUME NEW A, NEW arg \in Seq(Int), NEW i \in 0..(Len(arg) - 1), NEW quoted,
         NEW s, HasRead(s, A, arg, i, quoted),
         NEW all, NEW p, all[p] = arg[i + 1],
         arg[i + 1] # QUOTE, arg[i + 1] \notin {SPACE, TAB} \/ quoted = Yes
  PROVE  HasRead(ReadNext(s, all, p), A, arg, i + 1, quoted)
<1>1. PICK t, k, o : /\ t \in Seq(Int) /\ k \in Nat
                     /\ s = Reading(A, t, o, quoted, k)
                     /\ t \o Backslashes(k) = SubSeq(arg, 1, i)
  BY DEF HasRead
<1>. DEFINE c == arg[i + 1]
            x == t \o Backslashes(k)
<1>2. /\ i + 1 > 0 /\ c \in Int
  <2>1. Len(arg) \in Nat /\ arg \in [1..Len(arg) -> Int]
    BY LenProperties
  <2>2. QED
    BY <2>1
<1>3. Append(x, c) = SubSeq(arg, 1, i + 1) /\ x \in Seq(Int)
  BY <1>1, OneMore, OneMoreBackslash
<1>4. CASE c = BACKSLASH
  <2>1. ReadNext(s, all, p) = Reading(A, t, Yes, quoted, k + 1)
    <3>1. k \in Nat /\ all[p] = BACKSLASH
      BY <1>1, <1>4
    <3>2. ReadNext(Reading(A, t, o, quoted, k), all, p) = Reading(A, t, Yes, quoted, k + 1)
      BY <3>1, ReadsBackslash
    <3>3. QED
      BY <1>1, <3>2
  <2>2. t \o Backslashes(k + 1) = SubSeq(arg, 1, i + 1)
    BY <1>1, <1>3, <1>4, OneMoreBackslash
  <2>3. k + 1 \in Nat
    BY <1>1
  <2>4. QED
    BY <1>1, <1>2, <1>4, <2>1, <2>2, <2>3 DEF HasRead
<1>5. CASE c # BACKSLASH
  <2>1. ReadNext(s, all, p) = Reading(A, Append(x, c), Yes, quoted, 0)
    <3>1. all[p] \notin {BACKSLASH, QUOTE} /\ (all[p] \notin {SPACE, TAB} \/ quoted = Yes)
      BY <1>5
    <3>2. ReadNext(Reading(A, t, o, quoted, k), all, p) =
             Reading(A, Append(t \o Backslashes(k), all[p]), Yes, quoted, 0)
      <4>1. k \in Nat
        BY <1>1
      <4>2. QED
        BY <3>1, <4>1, ReadsOther
    <3>3. QED
      BY <1>1, <3>2
  <2>. HIDE DEF x, c
  <2>2. Append(x, c) \in Seq(Int)
    BY <1>2, <1>3, AppendProperties
  <2>3. Append(x, c) \o Backslashes(0) = SubSeq(arg, 1, i + 1)
    BY <1>3, <2>2, NoBackslash
  <2>4. QED
    BY <1>2, <2>1, <2>2, <2>3 DEF HasRead
<1>6. QED
  BY <1>4, <1>5

\* All of an argument that has no quote, and no blank if it is not in quotes.
LEMMA PlainRead ==
  ASSUME NEW A, NEW arg \in Seq(Int), NEW quoted,
         \A j \in 1..Len(arg) : arg[j] # QUOTE /\ (arg[j] \notin {SPACE, TAB} \/ quoted = Yes),
         NEW all, NEW read, Reads(read, all), NEW p \in Nat, p + Len(arg) <= Len(all), Len(all) \in Nat,
         \A j \in 1..Len(arg) : all[p + j] = arg[j],
         HasRead(read[p], A, arg, 0, quoted)
  PROVE  HasRead(read[p + Len(arg)], A, arg, Len(arg), quoted)
<1>. DEFINE n == Len(arg)
            P == {i \in 0..n : HasRead(read[p + i], A, arg, i, quoted)}
<1>1. n \in Nat
  BY LenProperties
<1>2. 0 \in P
  <2>1. p + 0 = p /\ 0 \in 0..n
    BY <1>1
  <2>2. QED
    BY <2>1
<1>3. ASSUME NEW i \in 0..(n - 1), i \in P
      PROVE  i + 1 \in P
  <2>1. i + 1 \in 1..n /\ i + 1 \in 0..n /\ p + i + 1 \in 1..Len(all) /\ p + i + 1 - 1 = p + i
        /\ p + (i + 1) = p + i + 1
    BY <1>1
  <2>2. read[p + i + 1] = ReadNext(read[p + i], all, p + i + 1)
    BY <2>1 DEF Reads
  <2>3. all[p + i + 1] = arg[i + 1]
    BY <2>1
  <2>4. arg[i + 1] # QUOTE /\ (arg[i + 1] \notin {SPACE, TAB} \/ quoted = Yes)
    BY <2>1
  <2>5. HasRead(read[p + i], A, arg, i, quoted)
    BY <1>3
  <2>6. HasRead(ReadNext(read[p + i], all, p + i + 1), A, arg, i + 1, quoted)
    BY <2>3, <2>4, <2>5, PlainGoesOn
  <2>7. QED
    BY <2>1, <2>2, <2>6
<1>. HIDE DEF P
<1>4. \A i \in 0..n : i \in P
  BY <1>1, <1>2, <1>3, Upwards
<1>5. n \in P
  BY <1>1, <1>4
<1>6. QED
  BY <1>5 DEF P

-----------------------------------------------------------------------------
\* The same for what is escaped: before a quote there are twice the backslashes.
EscapeRead(s, A, arg, i, hit) ==
    \E t \in Seq(Int), k \in Nat :
        /\ s = Reading(A, t, Yes, Yes, IF hit THEN 2 * k ELSE k)
        /\ t \o Backslashes(k) = SubSeq(arg, 1, i)

\* A text is in the line, up to e.
Comes(all, e, text) ==
    /\ Len(text) <= e
    /\ \A j \in 1..Len(text) : all[e - Len(text) + j] = text[j]

\* What comes first comes first.
LEMMA ComesAfter ==
  ASSUME NEW text \in Seq(Int), NEW pre \in Seq(Int),
         NEW all, NEW e \in Nat, Comes(all, e, pre \o text)
  PROVE  /\ Comes(all, e, text)
         /\ e - Len(pre \o text) \in Nat
         /\ e - Len(text) = e - Len(pre \o text) + Len(pre)
         /\ \A j \in 1..Len(pre) : all[e - Len(pre \o text) + j] = pre[j]
<1>. DEFINE m == Len(pre)
            n == Len(text)
            w == pre \o text
            x == Len(w)
<1>1. m \in Nat /\ n \in Nat
  BY LenProperties
<1>2. /\ x = m + n
      /\ \A i \in 1..(m + n) : w[i] = IF i <= m THEN pre[i] ELSE text[i - m]
  BY ConcatProperties
<1>3. x <= e /\ \A j \in 1..x : all[e - x + j] = w[j]
  BY DEF Comes
<1>. HIDE DEF m, n, w, x
<1>4. ASSUME NEW j \in 1..n
      PROVE  all[e - n + j] = text[j]
  <2>1. PICK i : i = m + j
    OBVIOUS
  <2>2. i \in 1..(m + n) /\ e - x + i = e - n + j /\ ~(i <= m) /\ i - m = j
    BY <1>1, <1>2, <2>1
  <2>3. w[i] = text[j]
    BY <1>2, <2>2
  <2>4. all[e - x + i] = w[i]
    BY <1>2, <1>3, <2>2
  <2>5. QED
    BY <2>2, <2>3, <2>4
<1>5. ASSUME NEW j \in 1..m
      PROVE  all[e - x + j] = pre[j]
  <2>1. j \in 1..x /\ j <= m /\ j \in 1..(m + n)
    BY <1>1, <1>2
  <2>2. w[j] = pre[j]
    BY <1>2, <2>1
  <2>3. QED
    BY <1>3, <2>1, <2>2
<1>6. n <= e /\ e - x \in Nat /\ e - n = e - x + m
  BY <1>1, <1>2, <1>3
<1>7. Comes(all, e, text)
  BY <1>4, <1>6 DEF Comes, n
<1>8. QED
  BY <1>5, <1>6, <1>7 DEF m, n, w, x

\* The reader goes on.
LEMMA ReadStep ==
  ASSUME NEW all, NEW read, Reads(read, all), NEW p \in Nat, Len(all) \in Nat, p + 1 <= Len(all)
  PROVE  read[p + 1] = ReadNext(read[p], all, p + 1)
<1>1. p + 1 \in 1..Len(all) /\ p + 1 - 1 = p
  OBVIOUS
<1>2. QED
  BY <1>1 DEF Reads

\* A number is greater by two.
TwoMore(j, h) == h = j + 2

\* Two backslashes are read: both are counted.
LEMMA EscapeDoubles ==
  ASSUME NEW A, NEW t, NEW j \in Nat, NEW h, TwoMore(j, h),
         NEW all, NEW read, Reads(read, all), Len(all) \in Nat,
         NEW p \in Nat, p + 2 <= Len(all), all[p + 1] = BACKSLASH, all[p + 2] = BACKSLASH,
         read[p] = Reading(A, t, Yes, Yes, j)
  PROVE  read[p + 2] = Reading(A, t, Yes, Yes, h)
<1>1. p + 1 \in Nat /\ p + 1 <= Len(all) /\ p + 1 + 1 = p + 2 /\ j + 1 \in Nat /\ j + 1 + 1 = j + 2
  OBVIOUS
<1>2. read[p + 1] = ReadNext(read[p], all, p + 1) /\ read[p + 2] = ReadNext(read[p + 1], all, p + 2)
  BY <1>1, ReadStep
<1>3. read[p + 1] = Reading(A, t, Yes, Yes, j + 1)
  BY <1>1, <1>2, ReadsBackslash
<1>4. read[p + 2] = Reading(A, t, Yes, Yes, j + 1 + 1)
  BY <1>1, <1>2, <1>3, ReadsBackslash
<1>5. QED
  BY <1>1, <1>4 DEF TwoMore

\* A backslash and a quote: the quote is a character of the argument.
LEMMA EscapeQuotes ==
  ASSUME NEW A, NEW t, NEW k \in Nat, NEW j, Twice(j, k),
         NEW all, NEW read, Reads(read, all), Len(all) \in Nat,
         NEW p \in Nat, p + 2 <= Len(all), all[p + 1] = BACKSLASH, all[p + 2] = QUOTE,
         read[p] = Reading(A, t, Yes, Yes, j)
  PROVE  read[p + 2] = Reading(A, Append(t \o Backslashes(k), QUOTE), Yes, Yes, 0)
<1>1. p + 1 \in Nat /\ p + 1 <= Len(all) /\ p + 1 + 1 = p + 2 /\ j \in Nat
  BY DEF Twice
<1>2. read[p + 1] = ReadNext(read[p], all, p + 1) /\ read[p + 2] = ReadNext(read[p + 1], all, p + 2)
  BY <1>1, ReadStep
<1>3. read[p + 1] = Reading(A, t, Yes, Yes, j + 1)
  BY <1>1, <1>2, ReadsBackslash
<1>4. PICK h : h = j + 1
  OBVIOUS
<1>5. h = 2 * k + 1
  BY <1>1, <1>4 DEF Twice
<1>6. ReadNext(Reading(A, t, Yes, Yes, h), all, p + 2) =
                Reading(A, Append(t \o Backslashes(k), QUOTE), Yes, Yes, 0)
  BY <1>5, ReadsQuote
<1>7. QED
  BY <1>2, <1>3, <1>4, <1>6

\* Another character: it is kept as it is.
LEMMA EscapeKeeps ==
  ASSUME NEW A, NEW t, NEW k \in Nat, NEW all, NEW read, Reads(read, all), Len(all) \in Nat,
         NEW p \in Nat, p + 1 <= Len(all), all[p + 1] # QUOTE,
         read[p] = Reading(A, t, Yes, Yes, k)
  PROVE  /\ all[p + 1] = BACKSLASH => read[p + 1] = Reading(A, t, Yes, Yes, k + 1)
         /\ all[p + 1] # BACKSLASH =>
               read[p + 1] = Reading(A, Append(t \o Backslashes(k), all[p + 1]), Yes, Yes, 0)
<1>1. read[p + 1] = ReadNext(read[p], all, p + 1)
  BY ReadStep
<1>2. CASE all[p + 1] = BACKSLASH
  BY <1>1, <1>2, ReadsBackslash
<1>3. CASE all[p + 1] # BACKSLASH
  <2>1. all[p + 1] \notin {BACKSLASH, QUOTE}
    BY <1>3
  <2>2. ReadNext(Reading(A, t, Yes, Yes, k), all, p + 1) =
           Reading(A, Append(t \o Backslashes(k), all[p + 1]), Yes, Yes, 0)
    BY <2>1, ReadsOther
  <2>3. QED
    BY <1>1, <1>3, <2>2
<1>4. QED
  BY <1>2, <1>3

\* One more character.
LEMMA EscapeGoesOn ==
  ASSUME NEW A, NEW arg \in Seq(Int), NEW i \in 0..(Len(arg) - 1), NEW d \in EscapeState,
         NEW D, D = Escape(d, arg[i + 1]),
         NEW all, Len(all) \in Nat, NEW read, Reads(read, all), NEW e \in 0..Len(all),
         Comes(all, e, D.text), EscapeRead(read[e - Len(D.text)], A, arg, i, D.hit)
  PROVE  Comes(all, e, d.text) /\ EscapeRead(read[e - Len(d.text)], A, arg, i + 1, d.hit)
<1>. DEFINE c == arg[i + 1]
            p == e - Len(D.text)
<1>1. c \in Int /\ e \in Nat /\ BACKSLASH # QUOTE
  <2>1. Len(arg) \in Nat /\ arg \in [1..Len(arg) -> Int]
    BY LenProperties
  <2>2. QED
    BY <2>1 DEF BACKSLASH, QUOTE
<1>0. Len(d.text) \in Nat /\ e <= Len(all) /\ e \in Nat
  <2>1. d.text \in Seq(Int)
    BY DEF EscapeState
  <2>2. QED
    BY <2>1, LenProperties
<1>2. D \in EscapeState /\ d.text \in Seq(Int) /\ d.hit \in BOOLEAN /\ Len(d.text) \in Nat
  <2>1. D \in EscapeState
    BY <1>1, EscapeTypes
  <2>2. d.text \in Seq(Int) /\ d.hit \in BOOLEAN
    BY DEF EscapeState
  <2>3. QED
    BY <2>1, <2>2, LenProperties
<1>3. PICK t \in Seq(Int), k \in Nat : /\ read[p] = Reading(A, t, Yes, Yes, IF D.hit THEN 2 * k ELSE k)
                                       /\ t \o Backslashes(k) = SubSeq(arg, 1, i)
  BY DEF EscapeRead
<1>. DEFINE x == t \o Backslashes(k)
<1>4. Append(x, c) = SubSeq(arg, 1, i + 1) /\ x \in Seq(Int) /\ Append(x, c) \in Seq(Int)
  <2>1. Append(x, c) = SubSeq(arg, 1, i + 1) /\ x \in Seq(Int)
    BY <1>3, OneMore, OneMoreBackslash
  <2>2. QED
    BY <1>1, <2>1, AppendProperties
<1>5. Append(x, c) \o Backslashes(0) = Append(x, c)
  BY <1>4, NoBackslash
<1>6. t \o Backslashes(k + 1) = Append(x, BACKSLASH) /\ k + 1 \in Nat
  <2>1. t \o Backslashes(k + 1) = Append(x, BACKSLASH)
    BY OneMoreBackslash
  <2>2. k + 1 \in Nat
    OBVIOUS
  <2>3. QED
    BY <2>1, <2>2
\* From a state like this, one can go on.
<1>7. ASSUME NEW u \in Seq(Int), NEW m \in Nat, NEW s, NEW j,
             s = Reading(A, u, Yes, Yes, j), j = IF d.hit THEN 2 * m ELSE m,
             u \o Backslashes(m) = Append(x, c)
      PROVE  EscapeRead(s, A, arg, i + 1, d.hit)
  BY <1>4, <1>7 DEF EscapeRead
\* How far what comes reaches.
<1>8. PICK text : text = d.text
  OBVIOUS
<1>9. ASSUME NEW pre \in Seq(Int), D.text = pre \o d.text
      PROVE  /\ Comes(all, e, d.text) /\ p \in Nat /\ e - Len(d.text) = p + Len(pre)
             /\ p + Len(pre) <= Len(all)
             /\ \A j \in 1..Len(pre) : all[p + j] = pre[j]
  <2>1. text \in Seq(Int) /\ D.text = pre \o text /\ Len(text) \in Nat
    BY <1>2, <1>8, <1>9
  <2>2. Comes(all, e, pre \o text)
    BY <2>1
  <2>3. /\ Comes(all, e, text) /\ e - Len(pre \o text) \in Nat
        /\ e - Len(text) = e - Len(pre \o text) + Len(pre)
        /\ \A j \in 1..Len(pre) : all[e - Len(pre \o text) + j] = pre[j]
    BY <1>0, <2>1, <2>2, ComesAfter
  <2>4. e - Len(text) <= Len(all)
    BY <1>0, <2>1
  <2>5. p = e - Len(pre \o text)
    BY <2>1
  <2>. HIDE DEF p
  <2>6. QED
    BY <1>8, <2>3, <2>4, <2>5
<1>10. CASE d.hit /\ c = BACKSLASH
  <2>1. D.text = <<c, BACKSLASH>> \o d.text /\ D.hit
    BY <1>10 DEF Escape
  <2>2. PICK pre : pre = <<BACKSLASH, BACKSLASH>>
    OBVIOUS
  <2>3. pre \in Seq(Int) /\ Len(pre) = 2 /\ pre[1] = BACKSLASH /\ pre[2] = BACKSLASH
        /\ D.text = pre \o d.text
    <3>1. pre \in Seq(Int) /\ Len(pre) = 2 /\ pre[1] = BACKSLASH /\ pre[2] = BACKSLASH
      <4>. HIDE DEF c, p, x
      <4>1. QED
        BY <2>2 DEF BACKSLASH
    <3>2. <<c, BACKSLASH>> = pre
      BY <1>10, <2>2
    <3>3. QED
      BY <2>1, <3>1, <3>2
  <2>. HIDE DEF c, p, x
  <2>4. /\ Comes(all, e, d.text) /\ p \in Nat /\ e - Len(d.text) = p + 2 /\ p + 2 <= Len(all)
        /\ all[p + 1] = BACKSLASH /\ all[p + 2] = BACKSLASH
    <3>1. /\ Comes(all, e, d.text) /\ p \in Nat /\ e - Len(d.text) = p + Len(pre)
          /\ p + Len(pre) <= Len(all)
          /\ \A j \in 1..Len(pre) : all[p + j] = pre[j]
      BY <1>9, <2>3
    <3>2. all[p + 1] = pre[1] /\ all[p + 2] = pre[2]
      BY <2>3, <3>1
    <3>3. QED
      BY <2>3, <3>1, <3>2
  <2>5. PICK j : j = 2 * k
    OBVIOUS
  <2>6. read[p] = Reading(A, t, Yes, Yes, j) /\ j \in Nat
    BY <1>3, <2>1, <2>5
  <2>11. PICK h : h = j + 2
    OBVIOUS
  <2>12. TwoMore(j, h)
    BY <2>11 DEF TwoMore
  <2>10. read[p + 2] = Reading(A, t, Yes, Yes, h)
    <3>1. Len(all) \in Nat /\ Reads(read, all)
      OBVIOUS
    <3>2. QED
      BY <2>4, <2>6, <2>12, <3>1, EscapeDoubles
  <2>7. h = IF d.hit THEN 2 * (k + 1) ELSE k + 1
    BY <1>10, <2>5, <2>11
  <2>8. EscapeRead(read[p + 2], A, arg, i + 1, d.hit)
    BY <1>6, <1>7, <1>10, <2>7, <2>10
  <2>9. QED
    BY <2>4, <2>8
<1>11. CASE c = QUOTE
  <2>1. D.text = <<BACKSLASH, c>> \o d.text /\ D.hit
    BY <1>1, <1>11 DEF Escape
  <2>2. PICK pre : pre = <<BACKSLASH, QUOTE>>
    OBVIOUS
  <2>3. pre \in Seq(Int) /\ Len(pre) = 2 /\ pre[1] = BACKSLASH /\ pre[2] = QUOTE
        /\ D.text = pre \o d.text
    <3>1. pre \in Seq(Int) /\ Len(pre) = 2 /\ pre[1] = BACKSLASH /\ pre[2] = QUOTE
      <4>. HIDE DEF c, p, x
      <4>1. QED
        BY <2>2 DEF BACKSLASH, QUOTE
    <3>2. <<BACKSLASH, c>> = pre
      BY <1>11, <2>2
    <3>3. QED
      BY <2>1, <3>1, <3>2
  <2>. HIDE DEF c, p, x
  <2>4. /\ Comes(all, e, d.text) /\ p \in Nat /\ e - Len(d.text) = p + 2 /\ p + 2 <= Len(all)
        /\ all[p + 1] = BACKSLASH /\ all[p + 2] = QUOTE
    <3>1. /\ Comes(all, e, d.text) /\ p \in Nat /\ e - Len(d.text) = p + Len(pre)
          /\ p + Len(pre) <= Len(all)
          /\ \A j \in 1..Len(pre) : all[p + j] = pre[j]
      BY <1>9, <2>3
    <3>2. all[p + 1] = pre[1] /\ all[p + 2] = pre[2]
      BY <2>3, <3>1
    <3>3. QED
      BY <2>3, <3>1, <3>2
  <2>10. PICK j : j = 2 * k
    OBVIOUS
  <2>5. read[p] = Reading(A, t, Yes, Yes, j)
    BY <1>3, <2>1, <2>10
  <2>6. read[p + 2] = Reading(A, Append(x, c), Yes, Yes, 0)
    <3>1. Twice(j, k)
      BY <2>10 DEF Twice
    <3>2. /\ Len(all) \in Nat /\ Reads(read, all)
          /\ p \in Nat /\ p + 2 <= Len(all) /\ all[p + 1] = BACKSLASH /\ all[p + 2] = QUOTE
      BY <2>4
    <3>3. read[p + 2] = Reading(A, Append(t \o Backslashes(k), QUOTE), Yes, Yes, 0)
      BY <2>5, <3>1, <3>2, EscapeQuotes, SMTT(20)
    <3>4. QED
      BY <1>11, <3>3 DEF x
  <2>7. 0 = (IF d.hit THEN 2 * 0 ELSE 0) /\ 0 \in Nat
    OBVIOUS
  <2>8. EscapeRead(read[p + 2], A, arg, i + 1, d.hit)
    BY <1>4, <1>5, <1>7, <2>6, <2>7
  <2>9. QED
    BY <2>4, <2>8
<1>12. CASE c # QUOTE /\ ~(d.hit /\ c = BACKSLASH)
  <2>1. D.text = <<c>> \o d.text /\ ~D.hit
    BY <1>12 DEF Escape
  <2>2. PICK pre : pre = <<c>>
    OBVIOUS
  <2>3. pre \in Seq(Int) /\ Len(pre) = 1 /\ pre[1] = c /\ D.text = pre \o d.text
    BY <1>1, <2>1, <2>2
  <2>. HIDE DEF c, p, x
  <2>4. /\ Comes(all, e, d.text) /\ p \in Nat /\ e - Len(d.text) = p + 1 /\ p + 1 <= Len(all)
        /\ all[p + 1] = c
    <3>1. /\ Comes(all, e, d.text) /\ p \in Nat /\ e - Len(d.text) = p + Len(pre)
          /\ p + Len(pre) <= Len(all)
          /\ \A j \in 1..Len(pre) : all[p + j] = pre[j]
      BY <1>9, <2>3
    <3>2. all[p + 1] = pre[1]
      BY <2>3, <3>1
    <3>3. QED
      BY <2>3, <3>1, <3>2
  <2>5. read[p] = Reading(A, t, Yes, Yes, k)
    BY <1>3, <2>1
  <2>6. /\ all[p + 1] = BACKSLASH => read[p + 1] = Reading(A, t, Yes, Yes, k + 1)
        /\ all[p + 1] # BACKSLASH =>
              read[p + 1] = Reading(A, Append(t \o Backslashes(k), all[p + 1]), Yes, Yes, 0)
    <3>1. /\ Len(all) \in Nat /\ Reads(read, all)
          /\ p \in Nat /\ p + 1 <= Len(all) /\ all[p + 1] # QUOTE
      BY <1>12, <2>4
    <3>2. QED
      BY <2>5, <3>1, EscapeKeeps, SMTT(20)
  <2>7. CASE c = BACKSLASH
    <3>1. read[p + 1] = Reading(A, t, Yes, Yes, k + 1)
      BY <2>4, <2>6, <2>7
    <3>2. k + 1 = IF d.hit THEN 2 * (k + 1) ELSE k + 1
      BY <1>12, <2>7
    <3>3. EscapeRead(read[p + 1], A, arg, i + 1, d.hit)
      BY <1>6, <1>7, <2>7, <3>1, <3>2
    <3>4. QED
      BY <2>4, <3>3
  <2>8. CASE c # BACKSLASH
    <3>1. read[p + 1] = Reading(A, Append(x, c), Yes, Yes, 0)
      BY <2>4, <2>6, <2>8 DEF x
    <3>2. 0 = (IF d.hit THEN 2 * 0 ELSE 0) /\ 0 \in Nat
      OBVIOUS
    <3>3. EscapeRead(read[p + 1], A, arg, i + 1, d.hit)
      BY <1>4, <1>5, <1>7, <3>1, <3>2
    <3>4. QED
      BY <2>4, <3>3
  <2>9. QED
    BY <2>7, <2>8
<1>13. QED
  BY <1>10, <1>11, <1>12

\* All of an argument that is escaped.
LEMMA EscapedRead ==
  ASSUME NEW A, NEW arg \in Seq(Int), NEW done \in [0..Len(arg) -> EscapeState], Escaping(done, arg),
         NEW all, Len(all) \in Nat, NEW read, Reads(read, all), NEW e \in 0..Len(all),
         Comes(all, e, done[Len(arg)].text),
         read[e - Len(done[Len(arg)].text)] = Reading(A, <<>>, Yes, Yes, 0)
  PROVE  EscapeRead(read[e], A, arg, Len(arg), TRUE)
<1>. DEFINE n == Len(arg)
            D(i) == done[n - i]
            P == {i \in 0..n : /\ Comes(all, e, D(i).text)
                               /\ EscapeRead(read[e - Len(D(i).text)], A, arg, i, D(i).hit)}
<1>1. n \in Nat /\ n - 0 = n
  <2>1. Len(arg) \in Nat
    BY LenProperties
  <2>2. QED
    BY <2>1
<1>2. 0 \in P
  <2>1. D(0) = done[n] /\ 0 \in 0..n
    BY <1>1
  <2>2. <<>> \in Seq(Int) /\ SubSeq(arg, 1, 0) = <<>>
    BY EmptySeq, SubSeqEmpty
  <2>3. <<>> \o Backslashes(0) = SubSeq(arg, 1, 0)
    BY <2>2, NoBackslash
  <2>4. 0 = (IF D(0).hit THEN 2 * 0 ELSE 0) /\ 0 \in Nat
    OBVIOUS
  <2>. HIDE DEF D
  <2>5. read[e - Len(D(0).text)] = Reading(A, <<>>, Yes, Yes, 0)
    BY <2>1
  <2>6. EscapeRead(read[e - Len(D(0).text)], A, arg, 0, D(0).hit)
    BY <2>2, <2>3, <2>4, <2>5 DEF EscapeRead
  <2>7. Comes(all, e, D(0).text)
    BY <2>1
  <2>8. QED
    BY <2>1, <2>6, <2>7
<1>3. ASSUME NEW i \in 0..(n - 1), i \in P
      PROVE  i + 1 \in P
  <2>1. n - i \in 1..n /\ n - (i + 1) \in 0..n /\ n - (i + 1) = n - i - 1 /\ n - (n - i) + 1 = i + 1
        /\ i + 1 \in 0..n
    BY <1>1
  <2>2. D(i) = Escape(D(i + 1), arg[i + 1])
    <3>1. done[n - i] = Escape(done[n - i - 1], arg[n - (n - i) + 1])
      BY <2>1 DEF Escaping
    <3>2. QED
      BY <2>1, <3>1
  <2>3. D(i + 1) \in EscapeState
    BY <2>1
  <2>. HIDE DEF D
  <2>4. Comes(all, e, D(i).text) /\ EscapeRead(read[e - Len(D(i).text)], A, arg, i, D(i).hit)
    BY <1>3
  <2>. HIDE DEF P, n
  <2>5. i \in 0..(Len(arg) - 1)
    BY DEF n
  <2>6. /\ Comes(all, e, D(i + 1).text)
        /\ EscapeRead(read[e - Len(D(i + 1).text)], A, arg, i + 1, D(i + 1).hit)
    BY <2>2, <2>3, <2>4, <2>5, EscapeGoesOn
  <2>7. QED
    BY <2>1, <2>6 DEF P
<1>. HIDE DEF P
<1>4. \A i \in 0..n : i \in P
  BY <1>1, <1>2, <1>3, Upwards
<1>5. n \in P /\ n - n = 0
  BY <1>1, <1>4
<1>6. EscapeRead(read[e - Len(done[0].text)], A, arg, n, done[0].hit)
  BY <1>5 DEF P
<1>7. done[0].hit = TRUE /\ Len(done[0].text) = 0
  BY EmptySeq DEF Escaping
<1>8. e - 0 = e
  OBVIOUS
<1>9. QED
  BY <1>6, <1>7, <1>8

\* A quote begins what is in quotes, another ends it, and a blank ends the argument.
LEMMA Opened ==
  ASSUME NEW A, NEW all, Len(all) \in Nat, NEW read, Reads(read, all),
         NEW p \in Nat, p + 1 <= Len(all), all[p + 1] = QUOTE, read[p] = Between(A)
  PROVE  read[p + 1] = Reading(A, <<>>, Yes, Yes, 0)
<1>1. read[p + 1] = ReadNext(read[p], all, p + 1)
  BY ReadStep
<1>2. Between(A) = Reading(A, <<>>, No, No, 0)
  BY DEF Between, No
<1>3. PICK j, k, t : j = 0 /\ k = 0 /\ t = <<>>
  OBVIOUS
<1>7. Twice(j, k) /\ k \in Nat
  BY <1>3 DEF Twice
<1>8. ReadNext(Reading(A, t, No, No, j), all, p + 1) = Reading(A, t \o Backslashes(k), Yes, Yes, 0)
  BY <1>7, ReadsOpening
<1>4. ReadNext(Reading(A, <<>>, No, No, 0), all, p + 1) =
         Reading(A, <<>> \o Backslashes(0), Yes, Yes, 0)
  BY <1>3, <1>8
<1>5. <<>> \o Backslashes(0) = <<>>
  BY EmptySeq, NoBackslash
<1>6. QED
  BY <1>1, <1>2, <1>4, <1>5

\* After the closing quote and a blank the argument is complete.
LEMMA Closed ==
  ASSUME NEW A, NEW t, NEW k \in Nat, NEW j, Twice(j, k),
         NEW all, Len(all) \in Nat, NEW read, Reads(read, all),
         NEW p \in Nat, NEW c, NextTo(p, c), NEW e, NextTo(c, e), e <= Len(all),
         all[c] = QUOTE, all[e] = SPACE,
         t \o Backslashes(k) \in Seq(Int),
         read[p] = Reading(A, t, Yes, Yes, j)
  PROVE  read[e] = Between(Append(A, t \o Backslashes(k)))
<1>. DEFINE x == t \o Backslashes(k)
<1>1. /\ p + 1 = c /\ c \in Nat /\ c <= Len(all) /\ c + 1 = e /\ 0 \in Nat
  BY DEF NextTo
<1>2. read[c] = ReadNext(read[p], all, c) /\ read[e] = ReadNext(read[c], all, e)
  <2>1. read[p + 1] = ReadNext(read[p], all, p + 1)
    BY <1>1, ReadStep
  <2>2. read[c + 1] = ReadNext(read[c], all, c + 1)
    BY <1>1, ReadStep
  <2>3. QED
    BY <1>1, <2>1, <2>2
<1>3. OneQuote(all, c)
  BY <1>1 DEF QUOTE, SPACE, OneQuote
<1>4. ReadNext(Reading(A, t, Yes, Yes, j), all, c) = Reading(A, x, Yes, No, 0)
  BY <1>3, ReadsClosing
<1>5. x \o Backslashes(0) = x
  BY NoBackslash
<1>. HIDE DEF x
<1>6. ReadNext(Reading(A, x, Yes, No, 0), all, e) = Between(Append(A, x \o Backslashes(0)))
  BY <1>1, ReadsBlank
<1>7. QED
  BY <1>2, <1>4, <1>5, <1>6 DEF x

\* What stands between quotes.
Wrapped(x) == <<QUOTE>> \o x \o <<QUOTE>>

\* What stands where in a text that is put in quotes.
LEMMA InQuotes ==
  ASSUME NEW x \in Seq(Int), NEW q, q = Wrapped(x)
  PROVE  /\ q \in Seq(Int) /\ Len(x) \in Nat /\ Len(q) = Len(x) + 2
         /\ q[1] = QUOTE /\ q[Len(x) + 2] = QUOTE
         /\ \A j \in 1..Len(x) : q[1 + j] = x[j]
<1>. DEFINE o == <<QUOTE>>
            y == o \o x
            n == Len(x)
<1>1. o \in Seq(Int) /\ Len(o) = 1 /\ o[1] = QUOTE /\ n \in Nat
  BY LenProperties DEF QUOTE
<1>. HIDE DEF o
<1>2. y \in Seq(Int) /\ Len(y) = 1 + n /\ \A i \in 1..(1 + n) : y[i] = IF i <= 1 THEN o[i] ELSE x[i - 1]
  <2>1. /\ y \in Seq(Int) /\ Len(y) = Len(o) + Len(x)
        /\ \A i \in 1..(Len(o) + Len(x)) : y[i] = IF i <= Len(o) THEN o[i] ELSE x[i - Len(o)]
    BY <1>1, ConcatProperties
  <2>. HIDE DEF y
  <2>2. QED
    BY <1>1, <2>1
<1>. HIDE DEF y
<1>3. PICK z : z = y \o o
  OBVIOUS
<1>4. /\ z \in Seq(Int) /\ Len(z) = n + 2
      /\ \A i \in 1..(n + 2) : z[i] = IF i <= 1 + n THEN y[i] ELSE o[i - (1 + n)]
  <2>1. /\ y \o o \in Seq(Int) /\ Len(y \o o) = Len(y) + Len(o)
        /\ \A i \in 1..(Len(y) + Len(o)) :
              (y \o o)[i] = IF i <= Len(y) THEN y[i] ELSE o[i - Len(y)]
    BY <1>1, <1>2, ConcatProperties
  <2>2. /\ z \in Seq(Int) /\ Len(z) = Len(y) + Len(o)
        /\ \A i \in 1..(Len(y) + Len(o)) : z[i] = IF i <= Len(y) THEN y[i] ELSE o[i - Len(y)]
    BY <1>3, <2>1
  <2>3. Len(y) + Len(o) = n + 2 /\ Len(y) = 1 + n
    BY <1>1, <1>2
  <2>. HIDE DEF n
  <2>4. QED
    BY <2>2, <2>3
<1>5. q = z
  BY <1>3 DEF y, o, Wrapped
<1>. HIDE DEF n
<1>6. z[1] = QUOTE
  <2>1. 1 \in 1..(n + 2) /\ 1 <= 1 + n /\ 1 \in 1..(1 + n)
    BY <1>1
  <2>2. QED
    BY <1>1, <1>2, <1>4, <2>1
<1>7. z[n + 2] = QUOTE
  <2>1. n + 2 \in 1..(n + 2) /\ ~(n + 2 <= 1 + n) /\ n + 2 - (1 + n) = 1
    BY <1>1
  <2>2. QED
    BY <1>1, <1>4, <2>1
<1>8. ASSUME NEW j \in 1..n
      PROVE  z[1 + j] = x[j]
  <2>1. PICK i : i = 1 + j
    OBVIOUS
  <2>2. i \in 1..(n + 2) /\ i <= 1 + n /\ i \in 1..(1 + n) /\ ~(i <= 1) /\ i - 1 = j
    BY <1>1, <2>1
  <2>3. z[i] = y[i] /\ y[i] = x[i - 1]
    BY <1>2, <1>4, <2>2
  <2>4. QED
    BY <2>1, <2>2, <2>3
<1>9. QED
  BY <1>1, <1>4, <1>5, <1>6, <1>7, <1>8 DEF n

\* What is written of an argument stands in the line after p, and a blank after it.
Stands(all, p, q, z) == /\ z = p + Len(q) + 1 /\ z <= Len(all) /\ all[z] = SPACE
                        /\ \A j \in 1..Len(q) : all[p + j] = q[j]

\* An argument is read: without quotes,
LEMMA UnquotedRead ==
  ASSUME NEW A, NEW arg \in Seq(Int), arg # <<>>,
         \A j \in 1..Len(arg) : arg[j] # QUOTE /\ arg[j] \notin {SPACE, TAB},
         NEW all, Len(all) \in Nat, NEW read, Reads(read, all), NEW p \in Nat,
         NEW z, Stands(all, p, arg, z), read[p] = Between(A)
  PROVE  read[z] = Between(Append(A, arg))
<1>. DEFINE n == Len(arg)
<1>1. n \in Nat /\ n # 0
  BY LenProperties, EmptySeq
<1>2. \A j \in 1..n : arg[j] # QUOTE /\ arg[j] \notin {SPACE, TAB}
  OBVIOUS
<1>3. read[p] = Reading(A, <<>>, No, No, 0)
  BY DEF Between, No
<1>4. HasRead(read[p], A, arg, 0, No)
  BY <1>3, NothingRead
<1>5. /\ z = p + n + 1 /\ z <= Len(all) /\ all[z] = SPACE
      /\ \A j \in 1..n : all[p + j] = arg[j]
  BY DEF Stands
<1>6. HasRead(read[p + n], A, arg, n, No)
  <2>1. p + n <= Len(all)
    BY <1>1, <1>5
  <2>2. QED
    BY <1>2, <1>4, <1>5, <2>1, PlainRead
<1>7. PICK t \in Seq(Int), k \in Nat : read[p + n] = Reading(A, t, Yes, No, k)
                                       /\ t \o Backslashes(k) = arg
  <2>1. SubSeq(arg, 1, n) = arg /\ n > 0
    BY <1>1, SubSeqFull
  <2>2. QED
    BY <1>6, <2>1 DEF HasRead
<1>8. read[z] = ReadNext(read[p + n], all, z)
  <2>1. PICK m : m = p + n
    OBVIOUS
  <2>2. m \in Nat /\ m + 1 = z /\ m + 1 <= Len(all)
    BY <1>1, <1>5, <2>1
  <2>3. read[m + 1] = ReadNext(read[m], all, m + 1)
    BY <2>2, ReadStep
  <2>4. QED
    BY <2>1, <2>2, <2>3
<1>9. ReadNext(Reading(A, t, Yes, No, k), all, z) = Between(Append(A, t \o Backslashes(k)))
  BY <1>5, ReadsBlank
<1>10. QED
  BY <1>7, <1>8, <1>9

\* in quotes, as it is,
LEMMA QuotedRead ==
  ASSUME NEW A, NEW arg \in Seq(Int), \A j \in 1..Len(arg) : arg[j] # QUOTE /\ arg[j] # BACKSLASH,
         NEW q, q = Wrapped(arg),
         NEW all, Len(all) \in Nat, NEW read, Reads(read, all), NEW p \in Nat,
         NEW z, Stands(all, p, q, z), read[p] = Between(A)
  PROVE  read[z] = Between(Append(A, arg))
<1>. DEFINE n == Len(arg)
<1>1. n \in Nat
  BY LenProperties
<1>2. \A j \in 1..n : arg[j] # QUOTE /\ arg[j] # BACKSLASH
  OBVIOUS
<1>3. /\ Len(q) = n + 2 /\ q[1] = QUOTE /\ q[n + 2] = QUOTE
      /\ \A j \in 1..n : q[1 + j] = arg[j]
  BY InQuotes
<1>4. /\ z = p + Len(q) + 1 /\ z <= Len(all) /\ all[z] = SPACE
      /\ \A j \in 1..Len(q) : all[p + j] = q[j]
  BY DEF Stands
<1>. HIDE DEF n
<1>5. PICK b, e, c : b = p + 1 /\ e = b + n /\ c = e + 1
  OBVIOUS
<1>6. /\ b \in Nat /\ e \in Nat /\ z <= Len(all) /\ c = e + 1 /\ z = c + 1
      /\ p + 1 <= Len(all) /\ b + n <= Len(all)
  <2>1. Len(q) = n + 2 /\ z = p + Len(q) + 1 /\ z <= Len(all)
    BY <1>3, <1>4
  <2>2. QED
    BY <1>1, <1>5, <2>1
<1>7. all[p + 1] = QUOTE /\ all[c] = QUOTE /\ all[z] = SPACE
  <2>1. 1 \in 1..Len(q) /\ n + 2 \in 1..Len(q) /\ c = p + (n + 2)
    <3>1. Len(q) = n + 2
      BY <1>3
    <3>2. QED
      BY <1>1, <1>5, <3>1
  <2>2. QED
    BY <1>3, <1>4, <1>6, <2>1
<1>8. \A j \in 1..n : all[b + j] = arg[j]
  <2>1. ASSUME NEW j \in 1..n
        PROVE  all[b + j] = arg[j]
    <3>1. 1 + j \in 1..Len(q) /\ p + (1 + j) = b + j
      BY <1>1, <1>3, <1>5
    <3>2. QED
      BY <1>3, <1>4, <3>1
  <2>2. QED
    BY <2>1
<1>9. read[b] = Reading(A, <<>>, Yes, Yes, 0)
  BY <1>5, <1>6, <1>7, Opened
<1>10. HasRead(read[b], A, arg, 0, Yes)
  BY <1>9, NothingRead
<1>11. HasRead(read[b + n], A, arg, n, Yes)
  BY <1>2, <1>6, <1>8, <1>10, PlainRead DEF n
<1>12. PICK t, k, o : /\ t \in Seq(Int) /\ k \in Nat
                      /\ read[b + n] = Reading(A, t, o, Yes, k)
                      /\ t \o Backslashes(k) = arg
                      /\ k = 0 \/ (n > 0 /\ arg[n] = BACKSLASH)
                      /\ n > 0 => o = Yes
  <2>1. SubSeq(arg, 1, n) = arg
    BY SubSeqFull DEF n
  <2>2. QED
    BY <1>11, <2>1 DEF HasRead
<1>13. k = 0
  <2>1. n > 0 => n \in 1..n
    BY <1>1
  <2>2. QED
    BY <1>2, <1>12, <2>1
<1>14. read[e] = Reading(A, t, Yes, Yes, k)
  <2>1. CASE n > 0
    BY <1>5, <1>12, <2>1
  <2>2. CASE n = 0
    <3>1. e = b /\ arg = <<>>
      BY <1>5, <1>6, <2>2, EmptySeq DEF n
    <3>2. t = <<>>
      BY <1>12, <1>13, <3>1, NoBackslash
    <3>3. QED
      BY <1>9, <1>13, <3>1, <3>2
  <2>3. QED
    BY <1>1, <2>1, <2>2
<1>15. Twice(k, k)
  BY <1>13 DEF Twice
<1>16. read[z] = Between(Append(A, t \o Backslashes(k)))
  <2>1. t \o Backslashes(k) \in Seq(Int)
    BY <1>12
  <2>2. e \in Nat /\ NextTo(e, c) /\ NextTo(c, z) /\ z <= Len(all) /\ all[c] = QUOTE /\ all[z] = SPACE
    BY <1>6, <1>7 DEF NextTo
  <2>3. k \in Nat
    BY <1>12
  <2>4. QED
    BY <1>14, <1>15, <2>1, <2>2, <2>3, Closed
<1>17. QED
  BY <1>6, <1>12, <1>16

\* and in quotes, escaped.
LEMMA EscapedArgumentRead ==
  ASSUME NEW A, NEW arg \in Seq(Int),
         NEW q, q = Wrapped(Escaped(arg)),
         NEW all, Len(all) \in Nat, NEW read, Reads(read, all), NEW p \in Nat,
         NEW z, Stands(all, p, q, z), read[p] = Between(A)
  PROVE  read[z] = Between(Append(A, arg))
<1>1. PICK done \in [0..Len(arg) -> EscapeState] :
         Escaping(done, arg) /\ Escaped(arg) = done[Len(arg)].text
  BY EscapedIs
<1>2. PICK x : x = Escaped(arg)
  OBVIOUS
<1>. DEFINE n == Len(x)
<1>3. x \in Seq(Int) /\ x = done[Len(arg)].text
  <2>1. Len(arg) \in Nat /\ Len(arg) \in 0..Len(arg)
    BY LenProperties
  <2>2. QED
    BY <1>1, <1>2, <2>1 DEF EscapeState
<1>4. /\ n \in Nat /\ Len(q) = n + 2 /\ q[1] = QUOTE /\ q[n + 2] = QUOTE
      /\ \A j \in 1..n : q[1 + j] = x[j]
  BY <1>2, <1>3, InQuotes
<1>5. /\ z = p + Len(q) + 1 /\ z <= Len(all) /\ all[z] = SPACE
      /\ \A j \in 1..Len(q) : all[p + j] = q[j]
  BY DEF Stands
<1>. HIDE DEF n
<1>6. PICK b, e, c : b = p + 1 /\ e = b + n /\ c = e + 1
  OBVIOUS
<1>7. /\ b \in Nat /\ e \in Nat /\ z <= Len(all) /\ c = e + 1 /\ z = c + 1
      /\ p + 1 <= Len(all) /\ e \in 0..Len(all) /\ e - n = b /\ n <= e
  <2>1. n \in Nat /\ Len(q) = n + 2 /\ z = p + Len(q) + 1 /\ z <= Len(all)
    BY <1>4, <1>5
  <2>2. QED
    BY <1>6, <2>1
<1>8. all[p + 1] = QUOTE /\ all[c] = QUOTE /\ all[z] = SPACE
  <2>1. 1 \in 1..Len(q) /\ n + 2 \in 1..Len(q) /\ c = p + (n + 2)
    BY <1>4, <1>6
  <2>2. QED
    BY <1>4, <1>5, <1>7, <2>1
<1>9. Comes(all, e, x)
  <2>1. ASSUME NEW j \in 1..n
        PROVE  all[e - n + j] = x[j]
    <3>1. 1 + j \in 1..Len(q) /\ p + (1 + j) = e - n + j
      <4>1. n \in Nat /\ Len(q) = n + 2
        BY <1>4
      <4>2. QED
        BY <1>6, <4>1
    <3>2. QED
      BY <1>4, <1>5, <3>1
  <2>2. QED
    BY <1>7, <2>1 DEF Comes, n
<1>10. read[e - Len(x)] = Reading(A, <<>>, Yes, Yes, 0)
  <2>1. read[b] = Reading(A, <<>>, Yes, Yes, 0)
    BY <1>6, <1>7, <1>8, Opened
  <2>2. QED
    BY <1>7, <2>1 DEF n
<1>11. EscapeRead(read[e], A, arg, Len(arg), TRUE)
  BY <1>1, <1>3, <1>7, <1>9, <1>10, EscapedRead
<1>12. PICK t \in Seq(Int), k \in Nat : read[e] = Reading(A, t, Yes, Yes, 2 * k)
                                        /\ t \o Backslashes(k) = arg
  <2>1. SubSeq(arg, 1, Len(arg)) = arg
    BY SubSeqFull
  <2>2. QED
    BY <1>11, <2>1 DEF EscapeRead
<1>13. PICK j : j = 2 * k /\ Twice(j, k)
  BY DEF Twice
<1>14. read[e] = Reading(A, t, Yes, Yes, j)
  BY <1>12, <1>13
<1>15. read[z] = Between(Append(A, t \o Backslashes(k)))
  <2>1. t \o Backslashes(k) \in Seq(Int)
    BY <1>12
  <2>2. e \in Nat /\ NextTo(e, c) /\ NextTo(c, z) /\ z <= Len(all) /\ all[c] = QUOTE /\ all[z] = SPACE
    BY <1>7, <1>8 DEF NextTo
  <2>3. QED
    BY <1>13, <1>14, <2>1, <2>2, Closed
<1>16. QED
  BY <1>7, <1>12, <1>15

\* Whatever is done with it.
LEMMA ArgumentRead ==
  ASSUME NEW A, NEW arg \in Seq(Int), NEW q, q = quote_cmd_arg(arg),
         NEW all, Len(all) \in Nat, NEW read, Reads(read, all), NEW p \in Nat,
         NEW z, Stands(all, p, q, z), read[p] = Between(A)
  PROVE  read[z] = Between(Append(A, arg))
<1>1. CASE arg = <<>>
  <2>1. q = Wrapped(arg)
    <3>1. q = <<QUOTE, QUOTE>>
      BY <1>1 DEF quote_cmd_arg, Wrapped
    <3>2. <<QUOTE>> \in Seq(Int)
      BY DEF QUOTE
    <3>3. <<QUOTE>> \o <<>> = <<QUOTE>>
      BY <3>2, ConcatEmptySeq
    <3>4. <<QUOTE>> \o <<QUOTE>> = <<QUOTE, QUOTE>>
      <4>1. PICK o, x : o = <<QUOTE>> /\ x = <<QUOTE, QUOTE>>
        OBVIOUS
      <4>2. /\ o \in Seq(Int) /\ Len(o) = 1 /\ o[1] = QUOTE
            /\ x \in Seq(Int) /\ Len(x) = 2 /\ x[1] = QUOTE /\ x[2] = QUOTE
        BY <4>1 DEF QUOTE
      <4>3. /\ o \o o \in Seq(Int) /\ Len(o \o o) = Len(o) + Len(o)
            /\ \A i \in 1..(Len(o) + Len(o)) :
                  (o \o o)[i] = IF i <= Len(o) THEN o[i] ELSE o[i - Len(o)]
        BY <4>2, ConcatProperties
      <4>4. PICK y : y = o \o o
        OBVIOUS
      <4>5. y \in Seq(Int) /\ Len(y) = 2 /\ \A i \in 1..2 : y[i] = x[i]
        BY <4>2, <4>3, <4>4
      <4>6. y = x
        BY <4>2, <4>5, SeqEqual
      <4>7. QED
        BY <4>1, <4>4, <4>6
    <3>5. QED
      BY <1>1, <3>1, <3>3, <3>4 DEF Wrapped
  <2>2. \A j \in 1..Len(arg) : arg[j] # QUOTE /\ arg[j] # BACKSLASH
    BY <1>1, EmptySeq
  <2>3. QED
    BY <2>1, <2>2, QuotedRead
<1>2. CASE arg # <<>> /\ ~HasOneOf(arg, {SPACE, TAB, QUOTE})
  <2>1. q = arg
    BY <1>2 DEF quote_cmd_arg
  <2>2. \A j \in 1..Len(arg) : arg[j] # QUOTE /\ arg[j] \notin {SPACE, TAB}
    BY <1>2, LenProperties DEF HasOneOf
  <2>3. Stands(all, p, arg, z)
    BY <2>1
  <2>4. QED
    BY <1>2, <2>2, <2>3, UnquotedRead
<1>3. CASE arg # <<>> /\ HasOneOf(arg, {SPACE, TAB, QUOTE}) /\ ~HasOneOf(arg, {QUOTE, BACKSLASH})
  <2>1. q = Wrapped(arg)
    BY <1>3 DEF quote_cmd_arg, Wrapped
  <2>2. \A j \in 1..Len(arg) : arg[j] # QUOTE /\ arg[j] # BACKSLASH
    BY <1>3, LenProperties DEF HasOneOf
  <2>3. QED
    BY <2>1, <2>2, QuotedRead
<1>4. CASE arg # <<>> /\ HasOneOf(arg, {SPACE, TAB, QUOTE}) /\ HasOneOf(arg, {QUOTE, BACKSLASH})
  <2>1. q = Wrapped(Escaped(arg))
    BY <1>4 DEF quote_cmd_arg, Wrapped
  <2>2. QED
    BY <2>1, EscapedArgumentRead
<1>5. QED
  BY <1>1, <1>2, <1>3, <1>4

-----------------------------------------------------------------------------
\* What becomes of an argument is at most twice as long.
LEMMA EscapedSize ==
  ASSUME NEW source \in Seq(Int)
  PROVE  Escaped(source) \in Seq(Int) /\ Len(Escaped(source)) <= 2 * Len(source)
<1>1. PICK done \in [0..Len(source) -> EscapeState] :
         Escaping(done, source) /\ Escaped(source) = done[Len(source)].text
  BY EscapedIs
<1>. DEFINE n == Len(source)
            P == {i \in 0..n : Len(done[i].text) <= 2 * i}
<1>2. n \in Nat /\ \A i \in 1..n : source[n - i + 1] \in Int
  <2>1. n \in Nat /\ source \in [1..n -> Int]
    BY LenProperties
  <2>2. \A i \in 1..n : n - i + 1 \in 1..n
    BY <2>1
  <2>3. QED
    BY <2>1, <2>2
<1>3. \A i \in 0..n : done[i].text \in Seq(Int) /\ Len(done[i].text) \in Nat
  <2>1. \A i \in 0..n : done[i].text \in Seq(Int)
    BY DEF EscapeState
  <2>2. QED
    BY <2>1, LenProperties
<1>4. /\ done[0] = [hit |-> TRUE, text |-> <<>>]
      /\ \A i \in 1..n : done[i] = Escape(done[i - 1], source[n - i + 1])
  BY <1>1 DEF Escaping
<1>5. ASSUME NEW s \in EscapeState, NEW c \in Int
      PROVE  Len(Escape(s, c).text) <= Len(s.text) + 2
  <2>1. PICK x : x = s.text
    OBVIOUS
  <2>2. x \in Seq(Int) /\ Len(x) \in Nat
    <3>1. s.text \in Seq(Int)
      BY DEF EscapeState
    <3>2. QED
      BY <2>1, <3>1, LenProperties
  <2>3. ASSUME NEW pre \in Seq(Int), Len(pre) <= 2
        PROVE  Len(pre \o x) <= Len(x) + 2
    <3>1. Len(pre \o x) = Len(pre) + Len(x) /\ Len(pre) \in Nat
      BY <2>2, ConcatProperties, LenProperties
    <3>2. QED
      BY <2>2, <2>3, <3>1
  <2>4. \E pre \in Seq(Int) : Len(pre) <= 2 /\ Escape(s, c).text = pre \o x
    <3>1. CASE s.hit /\ c = BACKSLASH
      <4>1. Escape(s, c).text = <<c, BACKSLASH>> \o x
        BY <2>1, <3>1 DEF Escape
      <4>2. <<c, BACKSLASH>> \in Seq(Int) /\ Len(<<c, BACKSLASH>>) <= 2
        BY DEF BACKSLASH
      <4>3. QED
        BY <4>1, <4>2
    <3>2. CASE ~(s.hit /\ c = BACKSLASH) /\ c = QUOTE
      <4>1. Escape(s, c).text = <<BACKSLASH, c>> \o x
        BY <2>1, <3>2 DEF Escape, QUOTE, BACKSLASH
      <4>2. <<BACKSLASH, c>> \in Seq(Int) /\ Len(<<BACKSLASH, c>>) <= 2
        BY DEF BACKSLASH
      <4>3. QED
        BY <4>1, <4>2
    <3>3. CASE ~(s.hit /\ c = BACKSLASH) /\ c # QUOTE
      <4>1. Escape(s, c).text = <<c>> \o x
        BY <2>1, <3>3 DEF Escape
      <4>2. <<c>> \in Seq(Int) /\ Len(<<c>>) <= 2
        OBVIOUS
      <4>3. QED
        BY <4>1, <4>2
    <3>4. QED
      BY <3>1, <3>2, <3>3
  <2>5. PICK pre \in Seq(Int) : Len(pre) <= 2 /\ Escape(s, c).text = pre \o x
    BY <2>4
  <2>6. Len(pre \o x) <= Len(x) + 2
    BY <2>3, <2>5
  <2>7. QED
    BY <2>1, <2>5, <2>6
<1>6. 0 \in P
  BY <1>2, <1>4, EmptySeq
<1>7. ASSUME NEW i \in 0..(n - 1), i \in P
      PROVE  i + 1 \in P
  <2>1. i + 1 \in 1..n /\ i + 1 - 1 = i /\ i + 1 \in 0..n /\ i \in 0..n /\ i \in Nat
    BY <1>2
  <2>2. done[i + 1] = Escape(done[i], source[n - (i + 1) + 1])
    BY <1>4, <2>1
  <2>3. PICK c \in Int : done[i + 1] = Escape(done[i], c)
    BY <1>2, <2>1, <2>2
  <2>4. Len(done[i + 1].text) <= Len(done[i].text) + 2
    BY <1>5, <2>1, <2>3
  <2>5. Len(done[i].text) <= 2 * i
    BY <1>7
  <2>6. Len(done[i + 1].text) <= 2 * (i + 1)
    <3>1. PICK l, m : l = Len(done[i].text) /\ m = Len(done[i + 1].text)
      OBVIOUS
    <3>2. l \in Nat /\ m \in Nat
      BY <1>3, <2>1, <3>1
    <3>3. l <= 2 * i /\ m <= l + 2
      BY <2>4, <2>5, <3>1
    <3>4. m <= 2 * (i + 1)
      BY <2>1, <3>2, <3>3
    <3>5. QED
      BY <3>1, <3>4
  <2>7. QED
    BY <2>1, <2>6
<1>. HIDE DEF P
<1>8. \A i \in 0..n : i \in P
  BY <1>2, <1>6, <1>7, Upwards
<1>9. n \in P /\ n \in 0..n
  BY <1>2, <1>8
<1>10. QED
  BY <1>1, <1>3, <1>9 DEF P

\* With the quotes.
LEMMA QuoteSize ==
  ASSUME NEW arg \in Seq(Int)
  PROVE  quote_cmd_arg(arg) \in Seq(Int) /\ Len(quote_cmd_arg(arg)) <= 2 * Len(arg) + 2
<1>1. Len(arg) \in Nat
  BY LenProperties
<1>2. ASSUME NEW x \in Seq(Int), Len(x) <= 2 * Len(arg)
      PROVE  Wrapped(x) \in Seq(Int) /\ Len(Wrapped(x)) <= 2 * Len(arg) + 2
  <2>1. Wrapped(x) \in Seq(Int) /\ Len(x) \in Nat /\ Len(Wrapped(x)) = Len(x) + 2
    BY InQuotes
  <2>2. QED
    BY <1>1, <1>2, <2>1
<1>3. CASE arg = <<>>
  <2>1. quote_cmd_arg(arg) = <<QUOTE, QUOTE>>
    BY <1>3 DEF quote_cmd_arg
  <2>2. <<QUOTE, QUOTE>> \in Seq(Int) /\ Len(<<QUOTE, QUOTE>>) = 2
    BY DEF QUOTE
  <2>3. QED
    BY <1>1, <2>1, <2>2
<1>4. CASE arg # <<>> /\ ~HasOneOf(arg, {SPACE, TAB, QUOTE})
  <2>1. quote_cmd_arg(arg) = arg
    BY <1>4 DEF quote_cmd_arg
  <2>2. QED
    BY <1>1, <2>1
<1>5. CASE arg # <<>> /\ HasOneOf(arg, {SPACE, TAB, QUOTE}) /\ ~HasOneOf(arg, {QUOTE, BACKSLASH})
  <2>1. quote_cmd_arg(arg) = Wrapped(arg)
    BY <1>5 DEF quote_cmd_arg, Wrapped
  <2>2. Len(arg) <= 2 * Len(arg)
    BY <1>1
  <2>3. QED
    BY <1>2, <2>1, <2>2
<1>6. CASE arg # <<>> /\ HasOneOf(arg, {SPACE, TAB, QUOTE}) /\ HasOneOf(arg, {QUOTE, BACKSLASH})
  <2>1. quote_cmd_arg(arg) = Wrapped(Escaped(arg))
    BY <1>6 DEF quote_cmd_arg, Wrapped
  <2>2. QED
    BY <1>2, <2>1, EscapedSize
<1>7. QED
  BY <1>3, <1>4, <1>5, <1>6

-----------------------------------------------------------------------------
\* The line, argument by argument, and the space for it.
Gap(i) == IF i # 1 THEN <<SPACE>> ELSE <<>>
LineSoFar(ln, args) ==
    /\ ln \in [0..Len(args) -> Seq(Int)] /\ ln[0] = <<>>
    /\ \A i \in 1..Len(args) : ln[i] = ln[i - 1] \o Gap(i) \o quote_cmd_arg(args[i])
SpaceSoFar(sp, args) ==
    /\ sp \in [0..Len(args) -> Nat] /\ sp[0] = 0
    /\ \A i \in 1..Len(args) : sp[i] = sp[i - 1] + 2 * (Len(args[i]) + 1) + 2

\* A function that goes step by step from values in S to values in S has all of its
\* values in S.
LEMMA StepsStay ==
  ASSUME NEW S, NEW a \in S, NEW n \in Nat, NEW g \in [1..n -> [S -> S]], NEW f,
         f = [i \in 0..n |-> f[i]], f[0] = a,
         \A i \in 1..n : f[i - 1] \in S => f[i] = g[i][f[i - 1]]
  PROVE  StepsTo(f, a, g, n, S)
<1>. DEFINE P == {i \in 0..n : f[i] \in S}
<1>1. 0 \in P
  OBVIOUS
<1>2. ASSUME NEW i \in 0..(n - 1), i \in P
      PROVE  i + 1 \in P
  <2>1. i + 1 \in 1..n /\ i + 1 - 1 = i /\ i + 1 \in 0..n
    OBVIOUS
  <2>2. f[i] \in S
    BY <1>2
  <2>3. f[i + 1] = g[i + 1][f[i]]
    <3>1. PICK j : j = i + 1
      OBVIOUS
    <3>2. j \in 1..n /\ j - 1 = i
      BY <2>1, <3>1
    <3>3. f[j - 1] \in S => f[j] = g[j][f[j - 1]]
      BY <3>2
    <3>4. QED
      BY <2>2, <3>1, <3>2, <3>3
  <2>4. f[i + 1] \in S
    <3>1. \A s \in S : g[i + 1][s] \in S
      BY <2>1
    <3>2. QED
      BY <2>2, <2>3, <3>1
  <2>5. QED
    BY <2>1, <2>4
<1>. HIDE DEF P
<1>3. \A i \in 0..n : i \in P
  BY <1>1, <1>2, Upwards
<1>4. \A i \in 0..n : f[i] \in S
  BY <1>3 DEF P
<1>5. f \in [0..n -> S]
  BY <1>4
<1>6. \A i \in 1..n : i - 1 \in 0..n
  OBVIOUS
<1>7. \A i \in 1..n : f[i] = g[i][f[i - 1]]
  BY <1>4, <1>6
<1>8. QED
  BY <1>5, <1>7 DEF StepsTo

\* The definition of make_program_args is of this form.
LEMMA LineIs ==
  ASSUME NEW args \in Seq(Seq(Int))
  PROVE  \E ln, sp : /\ LineSoFar(ln, args) /\ SpaceSoFar(sp, args)
                     /\ make_program_args(args) = [line |-> ln[Len(args)], space |-> sp[Len(args)]]
<1>. DEFINE m == Len(args)
            body(f) == [i \in 0..m |-> IF i = 0 THEN <<>>
                           ELSE f[i - 1] \o (IF i # 1 THEN <<SPACE>> ELSE <<>>) \o quote_cmd_arg(args[i])]
            room(f) == [i \in 0..m |-> IF i = 0 THEN 0 ELSE f[i - 1] + 2 * (Len(args[i]) + 1) + 2]
            ln == CHOOSE f : f = body(f)
            sp == CHOOSE f : f = room(f)
            g == [i \in 1..m |-> [s \in Seq(Int) |-> s \o Gap(i) \o quote_cmd_arg(args[i])]]
            h == [i \in 1..m |-> [s \in Nat |-> s + 2 * (Len(args[i]) + 1) + 2]]
<1>1. m \in Nat /\ \A i \in 1..m : args[i] \in Seq(Int) /\ Len(args[i]) \in Nat
  <2>1. m \in Nat /\ args \in [1..m -> Seq(Int)]
    BY LenProperties
  <2>2. \A i \in 1..m : args[i] \in Seq(Int)
    BY <2>1
  <2>3. QED
    BY <2>1, <2>2, LenProperties
<1>2. make_program_args(args) = [line |-> ln[m], space |-> sp[m]]
  BY DEF make_program_args
<1>. HIDE DEF m
<1>3. ASSUME NEW i \in 1..m, NEW s \in Seq(Int)
      PROVE  s \o Gap(i) \o quote_cmd_arg(args[i]) \in Seq(Int)
  <2>1. Gap(i) \in Seq(Int)
    BY EmptySeq DEF Gap, SPACE
  <2>2. s \o Gap(i) \in Seq(Int)
    BY <2>1, ConcatProperties
  <2>3. quote_cmd_arg(args[i]) \in Seq(Int)
    BY <1>1, QuoteSize
  <2>4. QED
    BY <2>2, <2>3, ConcatProperties
<1>4. g \in [1..m -> [Seq(Int) -> Seq(Int)]] /\ <<>> \in Seq(Int)
  BY <1>3, EmptySeq
<1>5. h \in [1..m -> [Nat -> Nat]]
  <2>1. ASSUME NEW i \in 1..m, NEW s \in Nat
        PROVE  s + 2 * (Len(args[i]) + 1) + 2 \in Nat
    BY <1>1
  <2>2. QED
    BY <2>1
<1>6. \A i \in 1..m : i - 1 \in 0..m /\ i \in 0..m /\ i # 0
  BY <1>1
<1>7. ln = body(ln)
  <2>. HIDE DEF g
  <2>1. PICK f : StepsTo(f, <<>>, g, m, Seq(Int))
    BY <1>1, <1>4, StepsUpTo
  <2>. USE DEF g
  <2>2. ASSUME NEW i \in 1..m
        PROVE  f[i] = f[i - 1] \o Gap(i) \o quote_cmd_arg(args[i])
    <3>1. f[i] = g[i][f[i - 1]] /\ f[i - 1] \in Seq(Int)
      BY <1>6, <2>1 DEF StepsTo
    <3>2. QED
      BY <3>1
  <2>3. \A i \in 0..m : f[i] = IF i = 0 THEN <<>>
                                ELSE f[i - 1] \o Gap(i) \o quote_cmd_arg(args[i])
    <3>1. \A i \in 0..m : i # 0 => i \in 1..m
      BY <1>1
    <3>2. QED
      BY <2>1, <2>2, <3>1 DEF StepsTo
  <2>4. f = body(f)
    BY <2>1, <2>3 DEF StepsTo, Gap
  <2>. HIDE DEF body
  <2>5. QED
    BY <2>4
<1>8. sp = room(sp)
  <2>. HIDE DEF h
  <2>1. PICK f : StepsTo(f, 0, h, m, Nat)
    <3>1. 0 \in Nat
      OBVIOUS
    <3>2. QED
      BY <1>1, <1>5, <3>1, StepsUpTo
  <2>. USE DEF h
  <2>2. ASSUME NEW i \in 1..m
        PROVE  f[i] = f[i - 1] + 2 * (Len(args[i]) + 1) + 2
    <3>1. f[i] = h[i][f[i - 1]] /\ f[i - 1] \in Nat
      BY <1>6, <2>1 DEF StepsTo
    <3>2. QED
      BY <3>1
  <2>3. \A i \in 0..m : f[i] = IF i = 0 THEN 0 ELSE f[i - 1] + 2 * (Len(args[i]) + 1) + 2
    <3>1. \A i \in 0..m : i # 0 => i \in 1..m
      BY <1>1
    <3>2. QED
      BY <2>1, <2>2, <3>1 DEF StepsTo
  <2>4. f = room(f)
    BY <2>1, <2>3 DEF StepsTo
  <2>. HIDE DEF room
  <2>5. QED
    BY <2>4
<1>. HIDE DEF ln, sp
<1>9. /\ ln = [i \in 0..m |-> ln[i]] /\ ln[0] = <<>>
      /\ \A i \in 1..m : ln[i] = ln[i - 1] \o Gap(i) \o quote_cmd_arg(args[i])
  <2>1. DOMAIN ln = 0..m /\ ln = [i \in 0..m |-> ln[i]]
    BY <1>7
  <2>2. \A i \in 0..m : ln[i] = IF i = 0 THEN <<>>
                                 ELSE ln[i - 1] \o Gap(i) \o quote_cmd_arg(args[i])
    BY <1>7 DEF Gap
  <2>3. 0 \in 0..m
    BY <1>1
  <2>4. ln[0] = <<>>
    BY <2>2, <2>3
  <2>5. ASSUME NEW i \in 1..m
        PROVE  ln[i] = ln[i - 1] \o Gap(i) \o quote_cmd_arg(args[i])
    <3>1. i \in 0..m /\ i # 0
      BY <1>6
    <3>2. ln[i] = IF i = 0 THEN <<>> ELSE ln[i - 1] \o Gap(i) \o quote_cmd_arg(args[i])
      BY <2>2, <3>1
    <3>3. QED
      BY <3>1, <3>2
  <2>6. QED
    BY <2>1, <2>4, <2>5
<1>10. /\ sp = [i \in 0..m |-> sp[i]] /\ sp[0] = 0
       /\ \A i \in 1..m : sp[i] = sp[i - 1] + 2 * (Len(args[i]) + 1) + 2
  <2>1. sp = [i \in 0..m |-> sp[i]]
    BY <1>8
  <2>2. \A i \in 0..m : sp[i] = IF i = 0 THEN 0 ELSE sp[i - 1] + 2 * (Len(args[i]) + 1) + 2
    BY <1>8
  <2>3. 0 \in 0..m
    BY <1>1
  <2>4. sp[0] = 0
    BY <2>2, <2>3
  <2>5. ASSUME NEW i \in 1..m
        PROVE  sp[i] = sp[i - 1] + 2 * (Len(args[i]) + 1) + 2
    <3>1. i \in 0..m /\ i # 0
      BY <1>6
    <3>2. sp[i] = IF i = 0 THEN 0 ELSE sp[i - 1] + 2 * (Len(args[i]) + 1) + 2
      BY <2>2, <3>1
    <3>3. QED
      BY <3>1, <3>2
  <2>6. QED
    BY <2>1, <2>4, <2>5
<1>. HIDE DEF body, room
<1>11. LineSoFar(ln, args)
  <2>1. \A i \in 1..m : ln[i - 1] \in Seq(Int) => ln[i] = g[i][ln[i - 1]]
    BY <1>9
  <2>. HIDE DEF g
  <2>2. StepsTo(ln, <<>>, g, m, Seq(Int))
    BY <1>1, <1>4, <1>9, <2>1, StepsStay
  <2>3. QED
    BY <1>9, <2>2 DEF StepsTo, LineSoFar, m
<1>12. SpaceSoFar(sp, args)
  <2>1. \A i \in 1..m : sp[i - 1] \in Nat => sp[i] = h[i][sp[i - 1]]
    BY <1>10
  <2>. HIDE DEF h
  <2>2. 0 \in Nat
    OBVIOUS
  <2>3. StepsTo(sp, 0, h, m, Nat)
    BY <1>1, <1>5, <1>10, <2>1, <2>2, StepsStay
  <2>4. QED
    BY <1>10, <2>3 DEF StepsTo, SpaceSoFar, m
<1>13. QED
  BY <1>2, <1>11, <1>12 DEF m

\* What is written of the next argument, behind what is written so far.
Begins(s, t) == Len(s) <= Len(t) /\ \A j \in 1..Len(s) : t[j] = s[j]
Joins(s, q, t) == /\ Len(t) = Len(s) + 1 + Len(q) /\ t[Len(s) + 1] = SPACE
                  /\ \A j \in 1..Len(q) : t[Len(s) + 1 + j] = q[j]

\* A blank and another argument are appended to a line.
LEMMA AddedIs ==
  ASSUME NEW s \in Seq(Int), NEW q \in Seq(Int), NEW t, t = s \o <<SPACE>> \o q
  PROVE  Begins(s, t) /\ Joins(s, q, t)
<1>1. Len(s) \in Nat /\ Len(q) \in Nat
  BY LenProperties
<1>2. PICK u : u = s \o <<SPACE>>
  OBVIOUS
<1>3. <<SPACE>> \in Seq(Int) /\ Len(<<SPACE>>) = 1 /\ <<SPACE>>[1] = SPACE
  BY DEF SPACE
<1>4. /\ u \in Seq(Int) /\ Len(u) = Len(s) + 1
      /\ \A j \in 1..Len(u) : u[j] = IF j <= Len(s) THEN s[j] ELSE <<SPACE>>[j - Len(s)]
  BY <1>2, <1>3, ConcatProperties
<1>5. t = u \o q
  BY <1>2
<1>6. /\ Len(t) = Len(u) + Len(q)
      /\ \A j \in 1..Len(t) : t[j] = IF j <= Len(u) THEN u[j] ELSE q[j - Len(u)]
  <2>1. u \in Seq(Int) /\ q \in Seq(Int)
    BY <1>4
  <2>2. /\ Len(u \o q) = Len(u) + Len(q)
        /\ \A j \in 1..Len(u \o q) : (u \o q)[j] = IF j <= Len(u) THEN u[j] ELSE q[j - Len(u)]
    <3>. HIDE <1>2, <1>4, <1>5
    <3>1. QED
      BY <2>1, ConcatProperties
  <2>3. QED
    BY <1>5, <2>2
<1>7. Len(t) = Len(s) + 1 + Len(q)
  BY <1>1, <1>4, <1>6
<1>8. ASSUME NEW j \in 1..Len(s)
      PROVE  t[j] = s[j]
  <2>1. j \in 1..Len(u) /\ j \in 1..Len(t) /\ j <= Len(s) /\ j <= Len(u)
    BY <1>1, <1>4, <1>7
  <2>2. QED
    BY <1>4, <1>6, <2>1
<1>9. t[Len(s) + 1] = SPACE
  <2>1. PICK j : j = Len(s) + 1
    OBVIOUS
  <2>2. j \in 1..Len(u) /\ j \in 1..Len(t) /\ ~(j <= Len(s)) /\ j <= Len(u) /\ j - Len(s) = 1
    BY <1>1, <1>4, <1>7, <2>1
  <2>3. t[j] = u[j]
    BY <1>6, <2>2
  <2>4. u[j] = SPACE
    BY <1>3, <1>4, <2>2
  <2>5. QED
    BY <2>1, <2>3, <2>4
<1>10. ASSUME NEW j \in 1..Len(q)
       PROVE  t[Len(s) + 1 + j] = q[j]
  <2>1. PICK k : k = Len(s) + 1 + j
    OBVIOUS
  <2>2. k \in 1..Len(t) /\ ~(k <= Len(u)) /\ k - Len(u) = j
    BY <1>1, <1>4, <1>7, <2>1
  <2>3. QED
    BY <1>6, <2>1, <2>2
<1>11. Len(s) <= Len(t)
  BY <1>1, <1>7
<1>12. QED
  BY <1>7, <1>8, <1>9, <1>10, <1>11 DEF Begins, Joins

\* The line begins with the first argument, and every other is added to it.
LEMMA LineGrows ==
  ASSUME NEW args \in Seq(Seq(Int)), NEW ln, LineSoFar(ln, args)
  PROVE  /\ \A i \in 1..Len(args) : ln[i] \in Seq(Int) /\ Len(ln[i]) \in Nat
         /\ 1 \in 1..Len(args) => ln[1] = quote_cmd_arg(args[1])
         /\ \A i \in 1..(Len(args) - 1) : /\ Begins(ln[i], ln[i + 1])
                                          /\ Joins(ln[i], quote_cmd_arg(args[i + 1]), ln[i + 1])
<1>. DEFINE m == Len(args)
<1>1. m \in Nat /\ \A i \in 1..m : args[i] \in Seq(Int)
  <2>1. m \in Nat /\ args \in [1..m -> Seq(Int)]
    BY LenProperties
  <2>2. QED
    BY <2>1
<1>2. \A i \in 1..m : quote_cmd_arg(args[i]) \in Seq(Int)
  BY <1>1, QuoteSize
<1>3. /\ ln \in [0..m -> Seq(Int)] /\ ln[0] = <<>>
      /\ \A i \in 1..m : ln[i] = ln[i - 1] \o Gap(i) \o quote_cmd_arg(args[i])
  BY DEF LineSoFar
<1>. HIDE DEF m
<1>4. \A i \in 1..m : i \in 0..m
  BY <1>1
<1>5. \A i \in 1..m : ln[i] \in Seq(Int)
  BY <1>3, <1>4
<1>6. \A i \in 1..m : Len(ln[i]) \in Nat
  BY <1>5, LenProperties
<1>7. ASSUME 1 \in 1..m
      PROVE  ln[1] = quote_cmd_arg(args[1])
  <2>1. ln[1] = ln[1 - 1] \o Gap(1) \o quote_cmd_arg(args[1])
    BY <1>3, <1>7
  <2>2. 1 - 1 = 0 /\ Gap(1) = <<>> /\ <<>> \in Seq(Int)
    BY EmptySeq DEF Gap
  <2>3. <<>> \o <<>> = <<>>
    BY <2>2, ConcatEmptySeq
  <2>4. quote_cmd_arg(args[1]) \in Seq(Int)
    BY <1>2, <1>7
  <2>5. <<>> \o quote_cmd_arg(args[1]) = quote_cmd_arg(args[1])
    BY <2>4, ConcatEmptySeq
  <2>6. QED
    BY <1>3, <2>1, <2>2, <2>3, <2>5
<1>8. ASSUME NEW i \in 1..(m - 1)
      PROVE  /\ Begins(ln[i], ln[i + 1])
             /\ Joins(ln[i], quote_cmd_arg(args[i + 1]), ln[i + 1])
  <2>1. PICK k : k = i + 1
    OBVIOUS
  <2>2. k \in 1..m /\ k # 1 /\ k - 1 = i /\ i \in 1..m
    BY <1>1, <2>1
  <2>3. ln[k] = ln[i] \o <<SPACE>> \o quote_cmd_arg(args[k])
    BY <1>3, <2>2 DEF Gap
  <2>4. quote_cmd_arg(args[k]) \in Seq(Int)
    BY <1>2, <2>2
  <2>5. ln[i] \in Seq(Int)
    BY <1>5, <2>2
  <2>6. Begins(ln[i], ln[k]) /\ Joins(ln[i], quote_cmd_arg(args[k]), ln[k])
    BY <2>3, <2>4, <2>5, AddedIs
  <2>7. QED
    BY <2>1, <2>6
<1>9. QED
  BY <1>5, <1>6, <1>7, <1>8 DEF m

\* So the whole line begins with what is written of the first arguments.
LEMMA LineBegins ==
  ASSUME NEW args \in Seq(Seq(Int)), NEW ln, LineSoFar(ln, args), NEW i \in 1..Len(args)
  PROVE  Begins(ln[i], ln[Len(args)])
<1>. DEFINE m == Len(args)
            P == {k \in 0..(m - 1) : Begins(ln[m - k], ln[m])}
<1>1. m \in Nat /\ m - 1 \in Nat
  BY LenProperties
<1>2. /\ \A j \in 1..m : Len(ln[j]) \in Nat
      /\ \A j \in 1..(m - 1) : Begins(ln[j], ln[j + 1])
  BY LineGrows
<1>. HIDE DEF m
<1>3. 0 \in P
  <2>1. 0 \in 0..(m - 1) /\ m - 0 = m /\ m \in 1..m
    BY <1>1
  <2>2. Len(ln[m]) <= Len(ln[m])
    BY <1>2, <2>1
  <2>3. Begins(ln[m], ln[m])
    BY <2>2 DEF Begins
  <2>4. QED
    BY <2>1, <2>3
<1>4. ASSUME NEW k \in 0..(m - 1 - 1), k \in P
      PROVE  k + 1 \in P
  <2>1. PICK a, b : a = m - (k + 1) /\ b = m - k
    OBVIOUS
  <2>2. a \in 1..(m - 1) /\ a \in 1..m /\ b = a + 1 /\ b \in 1..m /\ k + 1 \in 0..(m - 1) /\ m \in 1..m
    BY <1>1, <2>1
  <2>3. Begins(ln[a], ln[b])
    BY <1>2, <2>2
  <2>4. Begins(ln[b], ln[m])
    BY <1>4, <2>1
  <2>5. Len(ln[a]) <= Len(ln[b]) /\ Len(ln[b]) <= Len(ln[m])
    BY <2>3, <2>4 DEF Begins
  <2>6. Len(ln[a]) \in Nat /\ Len(ln[b]) \in Nat /\ Len(ln[m]) \in Nat
    BY <1>2, <2>2
  <2>7. Len(ln[a]) <= Len(ln[m])
    BY <2>5, <2>6
  <2>8. \A j \in 1..Len(ln[a]) : j \in 1..Len(ln[b])
    BY <2>5, <2>6
  <2>9. \A j \in 1..Len(ln[a]) : ln[m][j] = ln[a][j]
    BY <2>3, <2>4, <2>8 DEF Begins
  <2>10. Begins(ln[a], ln[m])
    BY <2>7, <2>9 DEF Begins
  <2>11. QED
    BY <2>1, <2>2, <2>10
<1>. HIDE DEF P
<1>5. \A k \in 0..(m - 1) : k \in P
  BY <1>1, <1>3, <1>4, Upwards
<1>6. m - i \in 0..(m - 1) /\ m - (m - i) = i
  BY <1>1 DEF m
<1>7. m - i \in P
  BY <1>5, <1>6
<1>8. QED
  BY <1>6, <1>7 DEF P, m

\* The part of the line that is read, with its end, after name characters.
Tails(all, t, name) == /\ Len(all) = Len(t) - name + 1
                       /\ \A j \in 1..(Len(t) - name) : all[j] = t[name + j]
                       /\ all[Len(t) - name + 1] = SPACE

\* That is what stands behind the first name characters of a line.
LEMMA RestOfLine ==
  ASSUME NEW t \in Seq(Int), NEW name \in 0..Len(t), NEW r, r = SubSeq(t, name + 1, Len(t))
  PROVE  /\ r \in Seq(Int) /\ Len(r) = Len(t) - name
         /\ Tails(Append(r, SPACE), t, name)
<1>1. Len(t) \in Nat /\ name \in Nat /\ t \in [1..Len(t) -> Int]
  BY LenProperties
<1>2. r \in Seq(Int) /\ Len(r) = Len(t) - name /\ \A j \in 1..(Len(t) - name) : r[j] = t[name + j]
  <2>1. PICK a, b : a = name + 1 /\ b = Len(t)
    OBVIOUS
  <2>2. a \in Int /\ b \in Int /\ \A i \in a..b : t[i] \in Int
    BY <1>1, <2>1
  <2>3. /\ SubSeq(t, a, b) \in Seq(Int)
        /\ Len(SubSeq(t, a, b)) = IF a <= b THEN b - a + 1 ELSE 0
        /\ \A j \in 1..(b - a + 1) : SubSeq(t, a, b)[j] = t[a + j - 1]
    BY <2>2, SubSeqProperties
  <2>4. (IF a <= b THEN b - a + 1 ELSE 0) = Len(t) - name
    <3>1. b \in Nat /\ name \in Nat /\ name <= b /\ a = name + 1
      BY <1>1, <2>1
    <3>2. (IF a <= b THEN b - a + 1 ELSE 0) = b - name
      BY <3>1
    <3>3. QED
      BY <2>1, <3>2
  <2>5. \A j \in 1..(Len(t) - name) : j \in 1..(b - a + 1) /\ a + j - 1 = name + j
    BY <1>1, <2>1
  <2>6. QED
    BY <2>1, <2>3, <2>4, <2>5
<1>3. SPACE \in Int
  BY DEF SPACE
<1>4. /\ Len(Append(r, SPACE)) = Len(r) + 1
      /\ \A i \in 1..Len(r) : Append(r, SPACE)[i] = r[i]
      /\ Append(r, SPACE)[Len(r) + 1] = SPACE
  <2>1. \A x \in Seq(Int) : /\ Len(Append(x, SPACE)) = Len(x) + 1
                            /\ \A i \in 1..Len(x) : Append(x, SPACE)[i] = x[i]
                            /\ Append(x, SPACE)[Len(x) + 1] = SPACE
    BY <1>3, AppendProperties
  <2>2. QED
    BY <1>2, <2>1
<1>5. QED
  BY <1>2, <1>4 DEF Tails

\* Where the blank after an argument is, in the part that is read.
LEMMA NextStands ==
  ASSUME NEW t, NEW name \in Nat, NEW all, Tails(all, t, name),
         Len(t) \in Nat,
         NEW s, NEW q, NEW u, Len(s) \in Nat, Len(q) \in Nat, Len(u) \in Nat,
         name <= Len(s), Joins(s, q, u), Begins(u, t),
         u = t \/ (t[Len(u) + 1] = SPACE /\ Len(u) < Len(t))
  PROVE  Stands(all, Len(s) - name + 1, q, Len(u) - name + 1)
<1>1. Len(u) = Len(s) + 1 + Len(q) /\ Len(u) <= Len(t) /\ Len(all) = Len(t) - name + 1
  BY DEF Joins, Begins, Tails
<1>2. Len(u) - name + 1 = Len(s) - name + 1 + Len(q) + 1 /\ Len(u) - name + 1 <= Len(all)
  BY <1>1
<1>3. all[Len(u) - name + 1] = SPACE
  <2>1. CASE u = t
    BY <2>1 DEF Tails
  <2>2. CASE t[Len(u) + 1] = SPACE /\ Len(u) < Len(t)
    <3>1. PICK j : j = Len(u) - name + 1
      OBVIOUS
    <3>2. j \in 1..(Len(t) - name) /\ name + j = Len(u) + 1
      BY <1>1, <2>2, <3>1
    <3>3. all[j] = t[name + j]
      BY <3>2 DEF Tails
    <3>4. QED
      BY <2>2, <3>1, <3>2, <3>3
  <2>3. QED
    BY <2>1, <2>2
<1>4. ASSUME NEW j \in 1..Len(q)
      PROVE  all[Len(s) - name + 1 + j] = q[j]
  <2>1. PICK k, l : k = Len(s) - name + 1 + j /\ l = Len(s) + 1 + j
    OBVIOUS
  <2>2. k \in 1..(Len(t) - name) /\ name + k = l /\ l \in 1..Len(u)
    BY <1>1, <2>1
  <2>3. all[k] = t[name + k]
    BY <2>2 DEF Tails
  <2>4. t[l] = u[l]
    BY <2>2 DEF Begins
  <2>5. u[l] = q[j]
    BY <2>1 DEF Joins
  <2>6. QED
    BY <2>1, <2>2, <2>3, <2>4, <2>5
<1>5. QED
  BY <1>2, <1>3, <1>4 DEF Stands

\* The arguments but the first, up to one.
LEMMA ArgumentsUpTo ==
  ASSUME NEW args \in Seq(Seq(Int)), args # <<>>
  PROVE  /\ SubSeq(args, 2, 1) = <<>>
         /\ \A i \in 1..(Len(args) - 1) :
               SubSeq(args, 2, i + 1) = Append(SubSeq(args, 2, i), args[i + 1])
         /\ SubSeq(args, 2, Len(args)) = Tail(args)
<1>1. Len(args) \in Nat \ {0} /\ args \in [1..Len(args) -> Seq(Int)]
  BY LenProperties, EmptySeq
<1>2. SubSeq(args, 2, 1) = <<>>
  <2>1. \A i \in 2..1 : args[i] \in Seq(Int)
    OBVIOUS
  <2>2. SubSeq(args, 2, 1) \in Seq(Seq(Int)) /\ Len(SubSeq(args, 2, 1)) = 0
    BY <2>1, SubSeqProperties
  <2>3. QED
    BY <2>2, EmptySeq
<1>3. ASSUME NEW i \in 1..(Len(args) - 1)
      PROVE  SubSeq(args, 2, i + 1) = Append(SubSeq(args, 2, i), args[i + 1])
  <2>1. PICK k : k = i + 1
    OBVIOUS
  <2>2. k \in 2..Len(args) /\ k - 1 = i /\ k \in 1..Len(args)
    BY <1>1, <2>1
  <2>3. SubSeq(args, 2, k) = SubSeq(args, 2, k - 1) \o <<args[k]>>
    <3>1. 2 \in 1..(Len(args) + 1) /\ k \in 2..Len(args)
      BY <1>1, <2>2
    <3>2. QED
      BY <2>2, <3>1, SubSeqRecursiveSecond
  <2>4. SubSeq(args, 2, i) \in Seq(Seq(Int))
    <3>1. \A j \in 2..i : args[j] \in Seq(Int)
      BY <1>1, <2>1, <2>2
    <3>2. i \in Int
      OBVIOUS
    <3>3. QED
      BY <3>1, <3>2, SubSeqProperties
  <2>5. args[k] \in Seq(Int)
    BY <1>1, <2>2
  <2>6. Append(SubSeq(args, 2, i), args[k]) = SubSeq(args, 2, i) \o <<args[k]>>
    BY <2>4, <2>5, AppendIsConcat
  <2>7. QED
    BY <2>1, <2>2, <2>3, <2>6
<1>4. SubSeq(args, 2, Len(args)) = Tail(args)
  BY <1>1, TailIsSubSeq
<1>5. QED
  BY <1>2, <1>3, <1>4

\* The whole line is read: after the last argument the reader has all but the first.
LEMMA LineRead ==
  ASSUME NEW args \in Seq(Seq(Int)), args # <<>>, NEW ln, LineSoFar(ln, args),
         NEW name, name = Len(ln[1]), NEW all, Tails(all, ln[Len(args)], name),
         NEW read, Reads(read, all)
  PROVE  read[Len(ln[Len(args)]) - name + 1] = Between(Tail(args))
<1>. DEFINE m == Len(args)
            t == ln[m]
            P == {k \in 0..(m - 1) : read[Len(ln[k + 1]) - name + 1] = Between(SubSeq(args, 2, k + 1))}
<1>1. /\ m \in Nat /\ m - 1 \in Nat /\ 1 \in 1..m /\ m \in 1..m
      /\ \A i \in 1..m : args[i] \in Seq(Int)
  <2>1. m \in Nat \ {0} /\ args \in [1..m -> Seq(Int)]
    BY LenProperties, EmptySeq
  <2>2. QED
    BY <2>1
<1>2. /\ \A i \in 1..m : Len(ln[i]) \in Nat
      /\ \A i \in 1..(m - 1) : /\ Begins(ln[i], ln[i + 1])
                               /\ Joins(ln[i], quote_cmd_arg(args[i + 1]), ln[i + 1])
  BY LineGrows
<1>3. \A i \in 1..m : Begins(ln[i], t)
  BY LineBegins
<1>4. \A i \in 1..m : quote_cmd_arg(args[i]) \in Seq(Int) /\ Len(quote_cmd_arg(args[i])) \in Nat
  BY <1>1, QuoteSize, LenProperties
<1>5. name \in Nat /\ \A i \in 1..m : name <= Len(ln[i])
  <2>1. name \in Nat
    BY <1>1, <1>2
  <2>. DEFINE Q == {k \in 0..(m - 1) : name <= Len(ln[k + 1])}
  <2>2. 0 \in Q
    BY <1>1, <2>1
  <2>3. ASSUME NEW k \in 0..(m - 1 - 1), k \in Q
        PROVE  k + 1 \in Q
    <3>1. PICK a, b : a = k + 1 /\ b = k + 2
      OBVIOUS
    <3>2. a \in 1..(m - 1) /\ a \in 1..m /\ b \in 1..m /\ b = a + 1 /\ a \in 0..(m - 1)
      BY <1>1, <3>1
    <3>3. Len(ln[a]) <= Len(ln[b])
      BY <1>2, <3>2 DEF Begins
    <3>4. name <= Len(ln[a])
      BY <2>3, <3>1
    <3>5. name <= Len(ln[b])
      <4>1. Len(ln[a]) \in Nat /\ Len(ln[b]) \in Nat
        BY <1>2, <3>2
      <4>2. QED
        BY <2>1, <3>3, <3>4, <4>1
    <3>6. QED
      BY <3>1, <3>2, <3>5
  <2>. HIDE DEF Q, m
  <2>4. \A k \in 0..(m - 1) : k \in Q
    BY <1>1, <2>2, <2>3, Upwards
  <2>5. ASSUME NEW i \in 1..m
        PROVE  name <= Len(ln[i])
    <3>1. i - 1 \in 0..(m - 1) /\ i - 1 + 1 = i
      BY <1>1
    <3>2. i - 1 \in Q
      BY <2>4, <3>1
    <3>3. QED
      BY <3>1, <3>2 DEF Q
  <2>6. QED
    BY <2>1, <2>5
<1>6. Tails(all, t, name) /\ Reads(read, all)
  OBVIOUS
<1>. HIDE DEF m, t
<1>7. Len(all) \in Nat /\ Len(all) = Len(t) - name + 1 /\ Len(t) \in Nat /\ name <= Len(t)
  <2>1. Len(all) = Len(t) - name + 1
    BY <1>6 DEF Tails
  <2>2. Len(t) \in Nat /\ name <= Len(t)
    BY <1>1, <1>2, <1>5 DEF t
  <2>3. QED
    BY <1>5, <2>1, <2>2
<1>8. \A i \in 1..(m - 1) : t[Len(ln[i]) + 1] = SPACE /\ Len(ln[i]) < Len(t)
  <2>1. TAKE i \in 1..(m - 1)
  <2>2. PICK k : k = i + 1
    OBVIOUS
  <2>3. k \in 1..m /\ i \in 1..m
    BY <1>1, <2>2
  <2>4. Joins(ln[i], quote_cmd_arg(args[k]), ln[k])
    BY <1>2, <2>2
  <2>5. ln[k][Len(ln[i]) + 1] = SPACE /\ Len(ln[k]) = Len(ln[i]) + 1 + Len(quote_cmd_arg(args[k]))
    BY <2>4 DEF Joins
  <2>6. Begins(ln[k], t)
    BY <1>3, <2>3
  <2>7. Len(ln[k]) \in Nat /\ Len(ln[i]) \in Nat /\ Len(quote_cmd_arg(args[k])) \in Nat
    BY <1>2, <1>4, <2>3
  <2>8. PICK x, y, w : x = Len(ln[i]) /\ y = Len(ln[k]) /\ w = Len(quote_cmd_arg(args[k]))
    OBVIOUS
  <2>13. y = x + 1 + w /\ x \in Nat /\ w \in Nat /\ y \in Nat
    BY <2>5, <2>7, <2>8
  <2>14. x + 1 \in 1..y /\ x < y
    BY <2>13
  <2>9. t[Len(ln[i]) + 1] = SPACE
    BY <2>5, <2>6, <2>8, <2>14 DEF Begins
  <2>10. Len(ln[k]) <= Len(t)
    BY <2>6 DEF Begins
  <2>11. Len(ln[i]) < Len(t)
    <3>1. y <= Len(t) /\ Len(t) \in Nat
      BY <1>7, <2>8, <2>10
    <3>2. x < Len(t)
      BY <2>13, <2>14, <3>1
    <3>3. QED
      BY <2>8, <3>2
  <2>12. QED
    BY <2>9, <2>11
<1>9. 0 \in P
  <2>1. read[1] = Between(<<>>)
    <3>1. all[1] = SPACE
      <4>1. CASE m = 1
        <5>1. Len(t) - name + 1 = 1
          BY <1>5, <4>1, <1>7 DEF t
        <5>2. QED
          BY <1>6, <5>1 DEF Tails
      <4>2. CASE m # 1
        <5>1. 1 \in 1..(m - 1)
          BY <1>1, <4>2
        <5>2. t[name + 1] = SPACE /\ name < Len(t)
          BY <1>8, <5>1
        <5>3. 1 \in 1..(Len(t) - name)
          BY <1>5, <1>7, <5>2
        <5>4. QED
          BY <1>6, <5>2, <5>3 DEF Tails
      <4>3. QED
        BY <4>1, <4>2
    <3>2. 1 \in 1..Len(all)
      BY <1>5, <1>7
    <3>3. read[1] = ReadNext(read[1 - 1], all, 1) /\ read[0] = Between(<<>>)
      BY <1>6, <3>2 DEF Reads
    <3>4. 1 - 1 = 0
      OBVIOUS
    <3>5. ReadNext(Between(<<>>), all, 1) = Between(<<>>)
      <4>1. 0 \in Nat
        OBVIOUS
      <4>2. QED
        BY <3>1, <4>1, ReadsBlank
    <3>6. QED
      BY <3>3, <3>4, <3>5
  <2>2. Len(ln[0 + 1]) - name + 1 = 1 /\ 0 + 1 = 1 /\ 0 \in 0..(m - 1)
    BY <1>1, <1>5
  <2>3. SubSeq(args, 2, 1) = <<>>
    BY ArgumentsUpTo
  <2>4. QED
    BY <2>1, <2>2, <2>3
<1>10. ASSUME NEW k \in 0..(m - 1 - 1), k \in P
       PROVE  k + 1 \in P
  <2>1. PICK a, b : a = k + 1 /\ b = k + 1 + 1
    OBVIOUS
  <2>2. a \in 1..(m - 1) /\ a \in 1..m /\ b \in 1..m /\ b = a + 1 /\ a \in 0..(m - 1)
    BY <1>1, <2>1
  <2>3. PICK q : q = quote_cmd_arg(args[b])
    OBVIOUS
  <2>4. q \in Seq(Int) /\ Len(q) \in Nat /\ args[b] \in Seq(Int)
    BY <1>1, <1>4, <2>2, <2>3
  <2>5. PICK p, z : p = Len(ln[a]) - name + 1 /\ z = Len(ln[b]) - name + 1
    OBVIOUS
  <2>6. Len(ln[a]) \in Nat /\ Len(ln[b]) \in Nat /\ name <= Len(ln[a]) /\ p \in Nat
    <3>1. PICK x, y : x = Len(ln[a]) /\ y = Len(ln[b])
      OBVIOUS
    <3>2. x \in Nat /\ y \in Nat /\ name <= x
      BY <1>2, <1>5, <2>2, <3>1
    <3>3. x - name + 1 \in Nat
      BY <1>5, <3>2
    <3>4. QED
      BY <2>5, <3>1, <3>2, <3>3
  <2>7. Joins(ln[a], q, ln[b]) /\ Begins(ln[b], t)
    BY <1>2, <1>3, <2>2, <2>3
  <2>8. ln[b] = t \/ (t[Len(ln[b]) + 1] = SPACE /\ Len(ln[b]) < Len(t))
    <3>1. b = m \/ b \in 1..(m - 1)
      BY <1>1, <2>2
    <3>2. CASE b = m
      <4>1. ln[m] = t
        BY DEF t
      <4>2. ln[b] = t
        BY <3>2, <4>1
      <4>3. QED
        BY <4>2
    <3>3. CASE b \in 1..(m - 1)
      <4>1. t[Len(ln[b]) + 1] = SPACE /\ Len(ln[b]) < Len(t)
        BY <1>8, <3>3
      <4>2. QED
        BY <4>1
    <3>4. QED
      BY <3>1, <3>2, <3>3
  <2>9. Stands(all, p, q, z)
    BY <1>5, <1>6, <1>7, <2>4, <2>5, <2>6, <2>7, <2>8, NextStands
  <2>10. read[p] = Between(SubSeq(args, 2, a))
    BY <1>10, <2>1, <2>5
  <2>11. read[z] = Between(Append(SubSeq(args, 2, a), args[b]))
    <3>1. PICK A, arg : A = SubSeq(args, 2, a) /\ arg = args[b]
      OBVIOUS
    <3>2. arg \in Seq(Int) /\ q = quote_cmd_arg(arg) /\ read[p] = Between(A)
      BY <2>3, <2>4, <2>10, <3>1
    <3>3. Len(all) \in Nat
      BY <1>7
    <3>4. read[z] = Between(Append(A, arg))
      BY <1>6, <2>6, <2>9, <3>2, <3>3, ArgumentRead
    <3>5. QED
      BY <3>1, <3>4
  <2>12. Append(SubSeq(args, 2, a), args[b]) = SubSeq(args, 2, b)
    BY <2>2, ArgumentsUpTo DEF m
  <2>13. QED
    BY <2>1, <2>2, <2>5, <2>11, <2>12
<1>. HIDE DEF P
<1>11. \A k \in 0..(m - 1) : k \in P
  BY <1>1, <1>9, <1>10, Upwards
<1>12. m - 1 \in P /\ m - 1 + 1 = m
  BY <1>1, <1>11
<1>13. read[Len(ln[m]) - name + 1] = Between(SubSeq(args, 2, m))
  BY <1>12 DEF P
<1>14. QED
  BY <1>13, ArgumentsUpTo DEF m

\* The line with its null fits into the space for it.
LEMMA LineFits ==
  ASSUME NEW args \in Seq(Seq(Int)), NEW ln, LineSoFar(ln, args), NEW sp, SpaceSoFar(sp, args)
  PROVE  \A i \in 1..Len(args) : Len(ln[i]) + 1 <= sp[i]
<1>. DEFINE m == Len(args)
            P == {i \in 0..m : Len(ln[i]) <= sp[i] /\ (i # 0 => Len(ln[i]) + 1 <= sp[i])}
<1>1. m \in Nat /\ \A i \in 1..m : args[i] \in Seq(Int)
  <2>1. m \in Nat /\ args \in [1..m -> Seq(Int)]
    BY LenProperties
  <2>2. QED
    BY <2>1
<1>2. \A i \in 1..m : /\ quote_cmd_arg(args[i]) \in Seq(Int)
                      /\ Len(quote_cmd_arg(args[i])) <= 2 * Len(args[i]) + 2
                      /\ Len(quote_cmd_arg(args[i])) \in Nat
                      /\ Len(args[i]) \in Nat
  BY <1>1, QuoteSize, LenProperties
<1>3. /\ ln[0] = <<>> /\ \A i \in 0..m : ln[i] \in Seq(Int) /\ Len(ln[i]) \in Nat
      /\ \A i \in 1..m : ln[i] = ln[i - 1] \o Gap(i) \o quote_cmd_arg(args[i])
  <2>1. ln \in [0..m -> Seq(Int)]
    BY DEF LineSoFar
  <2>2. \A i \in 0..m : ln[i] \in Seq(Int)
    BY <2>1
  <2>3. QED
    BY <2>2, LenProperties DEF LineSoFar
<1>4. /\ sp[0] = 0 /\ \A i \in 0..m : sp[i] \in Nat
      /\ \A i \in 1..m : sp[i] = sp[i - 1] + 2 * (Len(args[i]) + 1) + 2
  BY DEF SpaceSoFar
<1>5. 0 \in P
  <2>1. Len(ln[0]) = 0
    BY <1>3, EmptySeq
  <2>2. QED
    BY <1>1, <1>4, <2>1
<1>. HIDE DEF m
<1>6. ASSUME NEW i \in 0..(m - 1), i \in P
      PROVE  i + 1 \in P
  <2>1. PICK k : k = i + 1
    OBVIOUS
  <2>2. k \in 1..m /\ k - 1 = i /\ i \in 0..m /\ k \in 0..m
    BY <1>1, <2>1
  <2>3. PICK q, g, s : q = quote_cmd_arg(args[k]) /\ g = Gap(k) /\ s = ln[i]
    OBVIOUS
  <2>4. ln[k] = s \o g \o q
    BY <1>3, <2>2, <2>3
  <2>5. g \in Seq(Int) /\ Len(g) \in Nat /\ Len(g) <= 1
    <3>1. <<>> \in Seq(Int) /\ Len(<<>>) = 0
      BY EmptySeq
    <3>2. <<SPACE>> \in Seq(Int) /\ Len(<<SPACE>>) = 1
      BY DEF SPACE
    <3>3. g = <<>> \/ g = <<SPACE>>
      BY <2>3 DEF Gap
    <3>4. CASE g = <<>>
      BY <3>1, <3>4
    <3>5. CASE g = <<SPACE>>
      BY <3>2, <3>5
    <3>6. QED
      BY <3>3, <3>4, <3>5
  <2>6. s \in Seq(Int) /\ q \in Seq(Int)
    BY <1>2, <1>3, <2>2, <2>3
  <2>7. Len(s \o g \o q) = Len(s) + Len(g) + Len(q)
    <3>1. s \o g \in Seq(Int) /\ Len(s \o g) = Len(s) + Len(g)
      BY <2>5, <2>6, ConcatProperties
    <3>2. PICK u : u = s \o g
      OBVIOUS
    <3>3. Len(u \o q) = Len(u) + Len(q)
      BY <2>6, <3>1, <3>2, ConcatProperties
    <3>4. QED
      BY <3>1, <3>2, <3>3
  <2>8. PICK a, b, l : a = Len(args[k]) /\ b = Len(q) /\ l = Len(s)
    OBVIOUS
  <2>9. a \in Nat /\ b \in Nat /\ l \in Nat /\ b <= 2 * a + 2
    BY <1>2, <1>3, <2>2, <2>3, <2>8
  <2>10. l <= sp[i] /\ sp[i] \in Nat /\ sp[k] = sp[i] + 2 * (a + 1) + 2
    BY <1>4, <1>6, <2>2, <2>3, <2>8
  <2>11. Len(ln[k]) = l + Len(g) + b
    BY <2>4, <2>7, <2>8
  <2>12. Len(ln[k]) + 1 <= sp[k] /\ Len(ln[k]) <= sp[k]
    BY <2>5, <2>9, <2>10, <2>11
  <2>13. QED
    BY <2>1, <2>2, <2>12
<1>. HIDE DEF P
<1>7. \A i \in 0..m : i \in P
  BY <1>1, <1>5, <1>6, Upwards
<1>8. \A i \in 1..m : i \in 0..m /\ i # 0
  BY <1>1
<1>9. QED
  BY <1>7, <1>8 DEF P, m

\* What the program reads of the line it is given.
LEMMA LineComesBack ==
  ASSUME NEW args \in Seq(Seq(Int)), args # <<>>,
         NEW line, line = make_program_args(args).line,
         NEW name, name = Len(quote_cmd_arg(Head(args)))
  PROVE  /\ ParsedArguments(SubSeq(line, name + 1, Len(line))) = Tail(args)
         /\ Len(line) + 1 <= make_program_args(args).space
<1>. DEFINE m == Len(args)
<1>1. m \in Nat /\ 1 \in 1..m /\ m \in 1..m /\ Head(args) = args[1]
  BY LenProperties, EmptySeq
<1>2. PICK ln, sp : /\ LineSoFar(ln, args) /\ SpaceSoFar(sp, args)
                    /\ make_program_args(args) = [line |-> ln[m], space |-> sp[m]]
  BY LineIs
<1>3. line = ln[m] /\ make_program_args(args).space = sp[m]
  BY <1>2
<1>4. name = Len(ln[1]) /\ \A i \in 1..m : ln[i] \in Seq(Int) /\ Len(ln[i]) \in Nat
  BY <1>1, <1>2, LineGrows
<1>5. Len(line) + 1 <= sp[m]
  BY <1>1, <1>2, <1>3, LineFits
<1>6. line \in Seq(Int) /\ name \in 0..Len(line)
  <2>1. Begins(ln[1], ln[m])
    BY <1>1, <1>2, LineBegins
  <2>2. name <= Len(line) /\ name \in Nat /\ Len(line) \in Nat
    BY <1>1, <1>3, <1>4, <2>1 DEF Begins
  <2>3. QED
    BY <1>1, <1>3, <1>4, <2>2
<1>7. PICK r : r = SubSeq(line, name + 1, Len(line))
  OBVIOUS
<1>8. r \in Seq(Int) /\ Len(r) = Len(line) - name /\ Tails(Append(r, SPACE), line, name)
  BY <1>6, <1>7, RestOfLine
<1>9. PICK read : Reads(read, Append(r, SPACE)) /\ ParsedArguments(r) = read[Len(r) + 1].args
  BY <1>8, ParsedIs
<1>10. read[Len(line) - name + 1] = Between(Tail(args))
  <2>1. LineSoFar(ln, args) /\ args # <<>> /\ line = ln[Len(args)]
    BY <1>2, <1>3
  <2>2. PICK all : all = Append(r, SPACE)
    OBVIOUS
  <2>3. Tails(all, ln[Len(args)], name) /\ Reads(read, all)
    BY <1>8, <1>9, <2>1, <2>2
  <2>4. name = Len(ln[1])
    BY <1>4
  <2>5. read[Len(ln[Len(args)]) - name + 1] = Between(Tail(args))
    BY <2>1, <2>3, <2>4, LineRead
  <2>6. QED
    BY <2>1, <2>5
<1>11. ParsedArguments(r) = Tail(args)
  BY <1>8, <1>9, <1>10 DEF Between, Reading, Reader
<1>12. QED
  BY <1>3, <1>5, <1>7, <1>11

-----------------------------------------------------------------------------
\* The invariant: a call that has been told has answered what it answers.
ComparesInv ==
    call.f = "compare" =>
        /\ Compared(call.value, call.order, call.answered)
        /\ told => answer = Results(call.value, call.order, call.answered)
RangeInv ==
    call.f = "range" =>
        /\ \E a, b, d \in lua_Integer : call.self = _infra_range(a, b, d)
        /\ told => answer = [loop |-> _infra_range_pairs(call.self, Pow2[Width]),
                             index |-> [n \in lua_Integer |-> _infra_range_index(call.self, n)]]
ArgsInv ==
    call.f = "make_program_args" =>
        /\ call.args \in ArgumentList
        /\ told => answer = make_program_args(call.args)
CallInv == /\ told \in BOOLEAN
           /\ call.f = "waitpid" => ~told
           /\ call.f # "waitpid" => at = "done"
           /\ ComparesInv /\ RangeInv /\ ArgsInv

Inv == TimeInv /\ CallInv

\* The invariant holds at first.
LEMMA AtFirst == Init => Inv
<1>. SUFFICES ASSUME Init PROVE Inv
  OBVIOUS
<1>1. told = FALSE
  BY DEF Init
<1>2. CASE call = [f |-> "waitpid"] /\ TimeInit
  <2>1. TimeInv
    BY <1>2, TimeStart
  <2>2. CallInv
    BY <1>1, <1>2 DEF CallInv, ComparesInv, RangeInv, ArgsInv
  <2>3. QED
    BY <2>1, <2>2 DEF Inv
<1>3. CASE /\ now = 0 /\ ms \in Timeout /\ ms = 0 /\ program = "running" /\ began = 0 /\ ended = -1
           /\ at = "done" /\ t_cur = Second(0, 0) /\ t_dst = Second(0, 0) /\ wake = 0
           /\ result = "none"
           /\ CallInv
  <2>1. Second(0, 0) \in [sec : Nat, nsec : 0..(NSEC_PER_SEC - 1)] /\ Ns(Second(0, 0)) = 0
    BY Units DEF Second, Ns
  <2>2. 0 \in 0..LastTime /\ -1 \in -1..LastTime
    BY LastTimeAssumption
  <2>3. TimeTypeOK
    BY <1>3, <2>1, <2>2 DEF TimeTypeOK
  <2>4. deadline = 0
    BY <1>3, Units DEF deadline
  <2>5. WaitInv
    BY <1>3, <2>1, <2>4 DEF WaitInv, TimeoutIsTrue
  <2>6. QED
    BY <1>3, <2>3, <2>5 DEF Inv, TimeInv
<1>4. ASSUME at = "done"
      PROVE  /\ now = 0 /\ ms \in Timeout /\ ms = 0 /\ program = "running" /\ began = 0 /\ ended = -1
             /\ t_cur = Second(0, 0) /\ t_dst = Second(0, 0) /\ wake = 0 /\ result = "none"
  BY <1>4 DEF Init, TimeInit
<1>5. CASE at = "done" /\ Comparison
  <2>1. PICK value \in [1..3 -> Value], order \in {-1, 0, 1}, answered \in SUBSET MetaCall :
          /\ \/ Light(value[1]) /\ Light(value[2]) /\ value[3] = value[1]
             \/ order = 0 /\ answered = {}
          /\ call = [f |-> "compare", value |-> value, order |-> order, answered |-> answered]
    BY <1>5 DEF Comparison
  <2>2. Compared(value, order, answered)
    BY <2>1 DEF Compared, Sign
  <2>3. call.f = "compare" /\ Compared(call.value, call.order, call.answered)
    BY <2>1, <2>2
  <2>4. CallInv
    BY <1>1, <1>5, <2>3 DEF CallInv, ComparesInv, RangeInv, ArgsInv
  <2>5. QED
    BY <1>3, <1>5, <1>4, <2>4
<1>6. CASE at = "done" /\ \E start, stop, step \in lua_Integer :
                             call = [f |-> "range", self |-> _infra_range(start, stop, step)]
  <2>1. call.f = "range" /\ \E a, b, d \in lua_Integer : call.self = _infra_range(a, b, d)
    BY <1>6
  <2>2. CallInv
    BY <1>1, <1>6, <2>1 DEF CallInv, ComparesInv, RangeInv, ArgsInv
  <2>3. QED
    BY <1>3, <1>6, <1>4, <2>2
<1>7. CASE /\ at = "done"
           /\ \/ call.f \in {"split_line", "make_program_env", "search_path"}
              \/ call.f = "make_program_args" /\ call.args \in ArgumentList
  <2>1. CallInv
    BY <1>1, <1>7 DEF CallInv, ComparesInv, RangeInv, ArgsInv
  <2>2. QED
    BY <1>3, <1>7, <1>4, <2>1
<1>8. QED
  BY <1>2, <1>5, <1>6, <1>7 DEF Init

\* An answer keeps it.
LEMMA AnswerStays ==
  ASSUME Inv, NEW f, f # "waitpid", NEW a, Answers(f, a),
         f = "compare" => a = Results(call.value, call.order, call.answered),
         f = "range" => a = [loop |-> _infra_range_pairs(call.self, Pow2[Width]),
                             index |-> [n \in lua_Integer |-> _infra_range_index(call.self, n)]],
         f = "make_program_args" => a = make_program_args(call.args)
  PROVE  Inv'
<1>1. /\ call.f = f /\ told' = TRUE /\ answer' = a /\ UNCHANGED <<call, timeVars>>
  BY DEF Answers
<1>2. TimeInv'
  <2>1. TimeInv /\ [TimeNext]_timeVars
    BY <1>1 DEF Inv
  <2>2. QED
    BY <2>1, TimeStep
<1>3. UNCHANGED at
  BY <1>1 DEF timeVars
<1>4. ComparesInv'
  BY <1>1 DEF Inv, CallInv, ComparesInv
<1>5. RangeInv'
  BY <1>1 DEF Inv, CallInv, RangeInv
<1>6. ArgsInv'
  BY <1>1 DEF Inv, CallInv, ArgsInv
<1>7. CallInv'
  BY <1>1, <1>3, <1>4, <1>5, <1>6 DEF Inv, CallInv
<1>8. QED
  BY <1>2, <1>7 DEF Inv

\* Every step keeps it.
LEMMA Step == Inv /\ [Next]_vars => Inv'
<1>. SUFFICES ASSUME Inv, [Next]_vars PROVE Inv'
  OBVIOUS
<1>1. CASE compare
  <2>. DEFINE a == Results(call.value, call.order, call.answered)
  <2>1. Answers("compare", a)
    BY <1>1 DEF compare, Results, Seen
  <2>. HIDE DEF a
  <2>2. QED
    BY <2>1, AnswerStays DEF a
<1>2. CASE range
  <2>. DEFINE a == [loop |-> _infra_range_pairs(call.self, Pow2[Width]),
                    index |-> [n \in lua_Integer |-> _infra_range_index(call.self, n)]]
  <2>1. Answers("range", a)
    BY <1>2 DEF range
  <2>. HIDE DEF a
  <2>2. QED
    BY <2>1, AnswerStays DEF a
<1>3. ASSUME NEW f \in {"split_line", "make_program_env", "search_path"},
             NEW a, Answers(f, a)
      PROVE  Inv'
  BY <1>3, AnswerStays
<1>4. CASE split_line
  BY <1>3, <1>4 DEF split_line
<1>5. CASE program_args
  <2>1. Answers("make_program_args", make_program_args(call.args))
    BY <1>5 DEF program_args
  <2>2. QED
    BY <2>1, AnswerStays
<1>6. CASE program_env
  BY <1>3, <1>6 DEF program_env
<1>7. CASE search_path
  BY <1>3, <1>7 DEF search_path
<1>8. CASE waitpid \/ UNCHANGED vars
  <2>1. UNCHANGED <<call, told, answer>> /\ [TimeNext]_timeVars
    BY <1>8 DEF waitpid, vars
  <2>2. TimeInv'
    BY <2>1, TimeStep DEF Inv
  <2>3. at = "done" => at' = "done"
    BY <2>1 DEF TimeNext, Tick, ProgramEnds, Deadline, ReadClock, NoClock, Look, NoChild, Check,
                Wake, Fail, Returned, timeVars
  <2>4. ComparesInv'
    BY <2>1 DEF Inv, CallInv, ComparesInv
  <2>5. RangeInv'
    BY <2>1 DEF Inv, CallInv, RangeInv
  <2>6. ArgsInv'
    BY <2>1 DEF Inv, CallInv, ArgsInv
  <2>7. CallInv'
    BY <2>1, <2>3, <2>4, <2>5, <2>6 DEF Inv, CallInv
  <2>8. QED
    BY <2>2, <2>7 DEF Inv
<1>9. QED
  BY <1>1, <1>2, <1>4, <1>5, <1>6, <1>7, <1>8 DEF Next

\* The invariant holds.
LEMMA Invariance == Spec => []Inv
BY AtFirst, Step, PTL DEF Spec

-----------------------------------------------------------------------------
\* The variables have their types, and no call answers while another waits.
THEOREM TypeCorrect == Spec => []TypeOK
<1>1. Inv => TypeOK
  BY DEF Inv, TimeInv, CallInv, TypeOK
<1>2. QED
  BY <1>1, Invariance, PTL

\* INFRA_ETIMEDOUT is the truth: the deadline is over, and the program had not
\* ended by then, whatever the clock did between reading it and looking at the
\* program.
THEOREM TimeoutCorrect == Spec => []TimeoutIsTrue
<1>1. Inv => TimeoutIsTrue
  BY DEF Inv, TimeInv, WaitInv
<1>2. QED
  BY <1>1, Invariance, PTL

\* infra.compare is an order of all values: turned round, the answer is the
\* opposite; it is transitive, NaN left out; and metamethods that tell the truth
\* are never turned into a lie, however many there are.
THEOREM OrderCorrect == Spec => []OrderIsRight
<1>1. Inv => OrderIsRight
  <2>. SUFFICES ASSUME Inv, Told("compare")
                PROVE  /\ TurnsRound /\ MetaIsRight
                       /\ (\A i \in 1..3 : ~IsNaN(call.value[i])) => IsTransitive
    BY DEF OrderIsRight
  <2>1. /\ Compared(call.value, call.order, call.answered)
        /\ answer = Results(call.value, call.order, call.answered)
    BY DEF Inv, CallInv, ComparesInv, Told
  <2>2. OrderOf(call.value, answer, call.order)
    BY <2>1, ResultsOrdered
  <2>3. QED
    BY <2>2 DEF OrderOf, TurnsRound, MetaIsRight, IsTransitive
<1>2. QED
  BY <1>1, Invariance, PTL

\* A range that goes up has the same numbers for a loop and for an index, with
\* integers of any width.
THEOREM RangeCorrect == Spec => []RangeIsRight
<1>1. Inv => RangeIsRight
  <2>. SUFFICES ASSUME Inv, Told("range") PROVE RangeIsRight
    BY DEF RangeIsRight
  <2>1. PICK a \in lua_Integer, b \in lua_Integer, d \in lua_Integer : call.self = _infra_range(a, b, d)
    BY DEF Inv, CallInv, RangeInv, Told
  <2>2. /\ answer.loop = _infra_range_pairs(_infra_range(a, b, d), Pow2[Width])
        /\ \A n \in lua_Integer : answer.index[n] = _infra_range_index(_infra_range(a, b, d), n)
    BY <2>1 DEF Inv, CallInv, RangeInv, Told
  <2>3. call.self.start = a /\ call.self.stop = b /\ call.self.step = d
    BY <2>1 DEF _infra_range
  <2>4. ASSUME a < b, d > 0, b - 1 + d <= MaxInteger, b - a <= MaxInteger
        PROVE  /\ IsAscending(Front(answer.loop), Numbers(a, b, d)) /\ Last(answer.loop) = nil
               /\ \A n \in lua_Integer : answer.index[n] = (n \in Numbers(a, b, d))
    <3>1. Proper(a, b, d)
      BY <2>4 DEF Proper
    <3>2. IsAscending(Front(answer.loop), Numbers(a, b, d)) /\ Last(answer.loop) = nil
      BY <2>2, <3>1, LoopIsRight
    <3>3. \A n \in lua_Integer : answer.index[n] = (n \in Numbers(a, b, d))
      BY <2>2, <3>1, IndexIsRight
    <3>4. QED
      BY <3>2, <3>3
  <2>5. QED
    BY <2>3, <2>4 DEF RangeIsRight, Numbers
<1>2. QED
  BY <1>1, Invariance, PTL

\* A program started by the Windows code gets the arguments it was given, whatever
\* blanks, quotes and backslashes are in them, and the line fits into what was
\* allocated for it.
THEOREM ArgumentsCorrect == Spec => []ArgumentsComeBack
<1>1. Inv => ArgumentsComeBack
  <2>. SUFFICES ASSUME Inv, Told("make_program_args")
                PROVE  LET name == Len(quote_cmd_arg(Head(call.args)))
                       IN  /\ ParsedArguments(SubSeq(answer.line, name + 1, Len(answer.line)))
                                 = Tail(call.args)
                           /\ Len(answer.line) + 1 <= answer.space
    BY DEF ArgumentsComeBack
  <2>1. call.args \in ArgumentList /\ answer = make_program_args(call.args)
    BY DEF Inv, CallInv, ArgsInv, Told
  <2>2. PICK args : args = call.args
    OBVIOUS
  <2>3. args \in Seq(Seq(Int)) /\ args # <<>>
    <3>1. args \in Seq(Seq(Nat \ {0})) /\ args # <<>>
      BY <2>1, <2>2, ArgumentsAssumption
    <3>2. \A i \in 1..Len(args) : args[i] \in Seq(Int)
      <4>1. args \in [1..Len(args) -> Seq(Nat \ {0})]
        BY <3>1, LenProperties
      <4>2. TAKE i \in 1..Len(args)
      <4>3. args[i] \in Seq(Nat \ {0})
        BY <4>1
      <4>4. Nat \ {0} \subseteq Int
        OBVIOUS
      <4>5. QED
        BY <4>3, <4>4, SeqMonotonic
    <3>3. args \in [1..Len(args) -> Seq(Int)] /\ Len(args) \in Nat
      BY <3>1, <3>2, LenProperties
    <3>4. QED
      BY <3>1, <3>3, SeqDef
  <2>4. PICK line, name : line = answer.line /\ name = Len(quote_cmd_arg(Head(args)))
    OBVIOUS
  <2>5. line = make_program_args(args).line
    BY <2>1, <2>2, <2>4
  <2>6. /\ ParsedArguments(SubSeq(line, name + 1, Len(line))) = Tail(args)
        /\ Len(line) + 1 <= make_program_args(args).space
    BY <2>3, <2>4, <2>5, LineComesBack
  <2>7. QED
    BY <2>1, <2>2, <2>4, <2>6
<1>2. QED
  BY <1>1, Invariance, PTL
=============================================================================
