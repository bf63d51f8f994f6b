------------------------- MODULE RemainderTheorems -------------------------
(***************************************************************************)
(* Counters that go round, and the pointers of a ring, for every size: the *)
(* arithmetic that the proofs about the clock, the mounts, the queues and  *)
(* the converters have in common.                                          *)
(***************************************************************************)
EXTENDS RingOps, TLAPS

Sets == INSTANCE FiniteSetTheorems

-----------------------------------------------------------------------------
(* Remainders.                                                             *)

\* 0 is the only multiple of n within n of 0.
LEMMA OneMultiple ==
  ASSUME NEW n \in Nat \ {0}, NEW d \in Int, -n < n * d, n * d < n
  PROVE  d = 0
<1>1. CASE d >= 1
  <2>1. n * d = n + n * (d - 1) /\ n * (d - 1) >= 0
    BY <1>1
  <2> QED
    BY <2>1
<1>2. CASE d <= -1
  <2>1. n * d = -n + n * (d + 1) /\ n * (d + 1) <= 0
    BY <1>2
  <2> QED
    BY <2>1
<1> QED
  BY <1>1, <1>2

\* A remainder is the only one there is.
LEMMA RemainderIs ==
  ASSUME NEW n \in Nat \ {0}, NEW q \in Int, NEW r \in 0 .. n - 1
  PROVE  (n * q + r) % n = r
<1> DEFINE x == n * q + r
           p == x \div n
           s == x % n
<1>1. x \in Int
  OBVIOUS
<1> HIDE DEF x
<1>2. p \in Int /\ s \in 0 .. n - 1 /\ x = n * p + s
  BY <1>1
<1> HIDE DEF p, s
<1>3. n * (q - p) = s - r
  BY <1>2 DEF x
<1>4. q - p = 0
  <2>1. -n < n * (q - p) /\ n * (q - p) < n
    BY <1>2, <1>3
  <2>2. q - p \in Int
    BY <1>2
  <2> HIDE <1>3
  <2> QED
    BY <2>1, <2>2, OneMultiple
<1> QED
  BY <1>2, <1>3, <1>4 DEF s, x

\* Going round by one from a remainder, or from the number itself.
LEMMA NextRemainder ==
  ASSUME NEW n \in Nat \ {0}, NEW m \in Int
  PROVE  ((m % n) + 1) % n = (m + 1) % n
<1> DEFINE q == m \div n
           r == m % n
<1>1. q \in Int /\ r \in 0 .. n - 1 /\ m = n * q + r
  BY SMT
<1> HIDE DEF q, r
<1>2. CASE r + 1 < n
  <2>1. m + 1 = n * q + (r + 1) /\ r + 1 \in 0 .. n - 1
    BY <1>1, <1>2
  <2>2. (m + 1) % n = r + 1
    BY <1>1, <2>1, RemainderIs
  <2>3. (r + 1) % n = r + 1
    BY <1>1, <1>2
  <2> QED
    BY <2>2, <2>3 DEF r
<1>3. CASE r + 1 = n
  <2>1. m + 1 = n * (q + 1) + 0 /\ q + 1 \in Int /\ 0 \in 0 .. n - 1
    BY <1>1, <1>3
  <2>2. (m + 1) % n = 0
    BY <2>1, RemainderIs
  <2>3. (r + 1) % n = 0
    BY <1>3
  <2> QED
    BY <2>2, <2>3 DEF r
<1> QED
  BY <1>1, <1>2, <1>3

\* A difference of clocks, as one that goes round and as one that does not.
LEMMA ModuloDifference ==
  ASSUME NEW n \in Nat \ {0}, NEW x \in Int, NEW m \in Int
  PROVE  ((x % n) - m) % n = (x - m) % n
<1> DEFINE q == x \div n
           r == x % n
           p == (r - m) \div n
           t == (r - m) % n
<1>1. q \in Int /\ r \in 0 .. n - 1 /\ x = n * q + r
  BY SMT
<1> HIDE DEF q, r
<1>2. p \in Int /\ t \in 0 .. n - 1 /\ r - m = n * p + t
  BY <1>1
<1> HIDE DEF p, t
<1>3. x - m = n * (q + p) + t /\ q + p \in Int
  BY <1>1, <1>2
<1>4. (x - m) % n = t
  BY <1>2, <1>3, RemainderIs
<1> QED
  BY <1>4 DEF r, t

\* What goes round by one stays as far from a mark as what counts its steps.
LEMMA TickedDistance ==
  ASSUME NEW n \in Nat \ {0}, NEW x \in Int, NEW m \in Int, NEW a \in Int,
         (x - m) % n = a % n
  PROVE  (((x + 1) % n) - m) % n = (a + 1) % n
<1>1. (((x + 1) % n) - m) % n = (x + 1 - m) % n
  <2> DEFINE y == x + 1
  <2>1. y \in Int
    OBVIOUS
  <2> HIDE DEF y
  <2>2. ((y % n) - m) % n = (y - m) % n
    BY <2>1, ModuloDifference
  <2> QED
    BY <2>2 DEF y
<1>2. (((x - m) % n) + 1) % n = (x - m + 1) % n
  <2> DEFINE d == x - m
  <2>1. d \in Int
    OBVIOUS
  <2> HIDE DEF d
  <2>2. ((d % n) + 1) % n = (d + 1) % n
    BY <2>1, NextRemainder
  <2> QED
    BY <2>2 DEF d
<1>3. ((a % n) + 1) % n = (a + 1) % n
  BY NextRemainder
<1>4. x - m + 1 = x + 1 - m
  OBVIOUS
<1> QED
  BY <1>1, <1>2, <1>3, <1>4

\* One more, of a number that goes round, is at most one more.
LEMMA NextRemainderBound ==
  ASSUME NEW n \in Nat \ {0}, NEW x \in Int
  PROVE  (x + 1) % n <= (x % n) + 1
<1> DEFINE q == x \div n
           r == x % n
<1>1. q \in Int /\ r \in 0 .. n - 1 /\ x = n * q + r
  BY SMT
<1> HIDE DEF q, r
<1>2. CASE r + 1 < n
  <2>1. x + 1 = n * q + (r + 1) /\ r + 1 \in 0 .. n - 1
    BY <1>1, <1>2
  <2>2. (x + 1) % n = r + 1
    BY <1>1, <2>1, RemainderIs
  <2> QED
    BY <2>2 DEF r
<1>3. CASE r + 1 = n
  <2>1. x + 1 = n * (q + 1) + 0 /\ q + 1 \in Int /\ 0 \in 0 .. n - 1
    BY <1>1, <1>3
  <2>2. (x + 1) % n = 0
    BY <2>1, RemainderIs
  <2> QED
    BY <1>1, <2>2 DEF r
<1> QED
  BY <1>1, <1>2, <1>3

\* Quotient and remainder of a number put together from the two.
LEMMA Digits ==
  ASSUME NEW n \in Nat \ {0}, NEW q \in Int, NEW r \in 0 .. n - 1
  PROVE  (n * q + r) % n = r /\ (n * q + r) \div n = q
<1> DEFINE x == n * q + r
           p == x \div n
           s == x % n
<1>1. x \in Int /\ s = r
  BY RemainderIs
<1> HIDE DEF x, s
<1>2. p \in Int /\ x = n * p + s
  BY <1>1 DEF s
<1> HIDE DEF p
<1>3. n * p + r = n * q + r
  BY <1>1, <1>2 DEF x
<1>4. n * (q - p) = 0 /\ q - p \in Int
  BY <1>2, <1>3
<1>5. -n < n * (q - p) /\ n * (q - p) < n
  BY <1>4
<1>6. q - p = 0
  <2>1. q - p \in Int
    BY <1>4
  <2> HIDE <1>4
  <2> QED
    BY <1>5, <2>1, OneMultiple
<1> QED
  BY <1>1, <1>2, <1>6 DEF x, p, s

\* A number shifted by a digit, in two digits, keeps its lower one.
LEMMA ShiftedDigit ==
  ASSUME NEW n \in Nat \ {0}, NEW t \in Nat
  PROVE  (t * n) % (n * n) = n * (t % n)
<1> DEFINE q == t \div n
           r == t % n
<1>1. q \in Nat /\ r \in 0 .. n - 1 /\ t = n * q + r
  BY SMT
<1> HIDE DEF q, r
<1>2. t * n = (n * n) * q + n * r
  BY <1>1
<1>3. n * r \in 0 .. (n * n) - 1 /\ n * n \in Nat \ {0}
  <2>1. n * r <= n * (n - 1) /\ n * r >= 0 /\ n * (n - 1) = n * n - n
    BY <1>1
  <2>2. n * n >= 1 /\ n * r \in Int /\ n * n \in Int
    BY <1>1
  <2> QED
    BY <2>1, <2>2
<1>4. ((n * n) * q + n * r) % (n * n) = n * r
  <2> DEFINE m == n * n
             d == n * r
  <2>1. m \in Nat \ {0} /\ q \in Int /\ d \in 0 .. m - 1
    BY <1>1, <1>3
  <2> HIDE DEF m, d
  <2>2. (m * q + d) % m = d
    BY <2>1, RemainderIs
  <2> QED
    BY <2>2 DEF m, d
<1> QED
  BY <1>2, <1>4 DEF r

-----------------------------------------------------------------------------
(* Rings of n slots.                                                       *)

\* Advancing a pointer by at most n wraps around at most once.
LEMMA RingAdvance ==
  ASSUME NEW n \in Nat \ {0}, NEW p \in 0 .. n - 1, NEW k \in 0 .. n
  PROVE  /\ Masked(n, p + k) \in 0 .. n - 1
         /\ Masked(n, p + k) = IF p + k < n THEN p + k ELSE p + k - n
  BY SMT DEF Masked

\* What is between the two pointers, in the two positions they can have.
LEMMA RingCases ==
  ASSUME NEW n \in Nat \ {0}, NEW r \in 0 .. n - 1, NEW w \in 0 .. n - 1
  PROVE  /\ Readable(n, r, w) \in 0 .. n - 1
         /\ Readable(n, r, w) = IF w < r THEN w - r + n ELSE w - r
         /\ Writable(n, r, w) \in 0 .. n - 1
         /\ Writable(n, r, w) = n - 1 - Readable(n, r, w)
<1>1. /\ Readable(n, r, w) \in 0 .. n - 1
      /\ Readable(n, r, w) = IF w < r THEN w - r + n ELSE w - r
  BY SMT DEF Readable, Masked
<1>2. /\ Writable(n, r, w) \in 0 .. n - 1
      /\ Writable(n, r, w) = IF r <= w THEN r - w - 1 + n ELSE r - w - 1
  BY SMT DEF Writable, Masked
<1> QED
  BY <1>1, <1>2

\* The slot of the k-th element; the first free one comes after the last.
LEMMA RingSlots ==
  ASSUME NEW n \in Nat \ {0}, NEW r \in 0 .. n - 1, NEW w \in 0 .. n - 1,
         NEW k \in 1 .. n
  PROVE  /\ Masked(n, r + k - 1) \in 0 .. n - 1
         /\ Masked(n, r + k - 1) = w <=> k = Readable(n, r, w) + 1
<1>1. k - 1 \in 0 .. n /\ r + k - 1 = r + (k - 1)
  OBVIOUS
<1>2. /\ Masked(n, r + k - 1) \in 0 .. n - 1
      /\ Masked(n, r + k - 1) = IF r + k - 1 < n THEN r + k - 1 ELSE r + k - 1 - n
  BY <1>1, RingAdvance
<1>3. Readable(n, r, w) = IF w < r THEN w - r + n ELSE w - r
  BY RingCases
<1> DEFINE m == Masked(n, r + k - 1)
           d == Readable(n, r, w)
<1> HIDE DEF m, d
<1>4. m = IF r + k - 1 < n THEN r + k - 1 ELSE r + k - 1 - n
  BY <1>2 DEF m
<1>5. d = IF w < r THEN w - r + n ELSE w - r
  BY <1>3 DEF d
<1>6. m = w <=> k = d + 1
  BY <1>4, <1>5
<1> QED
  BY <1>2, <1>6 DEF m, d

\* One more in a ring that has room, and one less in a ring that has any.
LEMMA RingGrows ==
  ASSUME NEW n \in Nat \ {0}, NEW r \in 0 .. n - 1, NEW w \in 0 .. n - 1,
         Readable(n, r, w) < n - 1
  PROVE  /\ Masked(n, w + 1) \in 0 .. n - 1
         /\ Readable(n, r, Masked(n, w + 1)) = Readable(n, r, w) + 1
<1> DEFINE w2 == Masked(n, w + 1)
<1>1. w2 \in 0 .. n - 1 /\ w2 = IF w + 1 < n THEN w + 1 ELSE w + 1 - n
  BY RingAdvance
<1> HIDE DEF w2
<1>2. /\ Readable(n, r, w) = IF w < r THEN w - r + n ELSE w - r
      /\ Readable(n, r, w2) = IF w2 < r THEN w2 - r + n ELSE w2 - r
  BY <1>1, RingCases
<1>3. Readable(n, r, w2) = Readable(n, r, w) + 1
  BY <1>1, <1>2
<1> QED
  BY <1>1, <1>3 DEF w2

LEMMA RingShrinks ==
  ASSUME NEW n \in Nat \ {0}, NEW r \in 0 .. n - 1, NEW w \in 0 .. n - 1,
         Readable(n, r, w) >= 1
  PROVE  /\ Masked(n, r + 1) \in 0 .. n - 1
         /\ Readable(n, Masked(n, r + 1), w) = Readable(n, r, w) - 1
         /\ \A k \in 1 .. n - 1 :
              Masked(n, Masked(n, r + 1) + k - 1) = Masked(n, r + k)
<1> DEFINE r2 == Masked(n, r + 1)
<1>1. r2 \in 0 .. n - 1 /\ r2 = IF r + 1 < n THEN r + 1 ELSE r + 1 - n
  BY RingAdvance
<1> HIDE DEF r2
<1>2. /\ Readable(n, r, w) = IF w < r THEN w - r + n ELSE w - r
      /\ Readable(n, r2, w) = IF w < r2 THEN w - r2 + n ELSE w - r2
  BY <1>1, RingCases
<1>3. Readable(n, r2, w) = Readable(n, r, w) - 1
  BY <1>1, <1>2
<1>4. ASSUME NEW k \in 1 .. n - 1
      PROVE  Masked(n, r2 + k - 1) = Masked(n, r + k)
  <2>1. k - 1 \in 0 .. n /\ k \in 0 .. n /\ r2 + k - 1 = r2 + (k - 1)
    BY <1>1
  <2>2. Masked(n, r2 + (k - 1)) = IF r2 + (k - 1) < n THEN r2 + (k - 1)
                                  ELSE r2 + (k - 1) - n
    BY <1>1, <2>1, RingAdvance
  <2>3. Masked(n, r + k) = IF r + k < n THEN r + k ELSE r + k - n
    BY <2>1, RingAdvance
  <2> QED
    BY <1>1, <2>1, <2>2, <2>3
<1> QED
  BY <1>1, <1>3, <1>4 DEF r2

-----------------------------------------------------------------------------
(* Induction.                                                              *)

\* A set of numbers has a least one: the intervals up to its members are finite
\* sets, which inclusion orders well.
LEMMA LeastOf ==
  ASSUME NEW S, S \subseteq Nat, S # {}
  PROVE  \E n \in S : \A m \in S : n <= m
<1> DEFINE Below == {0 .. n : n \in S}
<1>1. Sets!IsWellFoundedOn(Sets!StrictSubsetOrdering(Nat), Sets!FiniteSubsetsOf(Nat))
  BY Sets!FS_StrictSubsetOrderingWellFounded
<1>2. Below \subseteq Sets!FiniteSubsetsOf(Nat) /\ Below # {}
  <2>1. ASSUME NEW n \in S
        PROVE  0 .. n \in Sets!FiniteSubsetsOf(Nat)
    <3>1. n \in Int /\ 0 \in Int
      OBVIOUS
    <3>2. Sets!IsFiniteSet(0 .. n)
      BY <3>1, Sets!FS_Interval
    <3>3. 0 .. n \in SUBSET Nat
      BY <3>1
    <3> QED
      BY <3>2, <3>3 DEF Sets!FiniteSubsetsOf
  <2> QED
    BY <2>1
<1>3. PICK x \in Below : \A y \in Below : ~ (<<y, x>> \in Sets!StrictSubsetOrdering(Nat))
  <2> HIDE DEF Below
  <2> QED
    BY <1>1, <1>2, Sets!WFMin, Zenon
<1>4. PICK n \in S : x = 0 .. n
  BY <1>3
<1>5. ASSUME NEW m \in S, m < n
      PROVE  FALSE
  <2>1. 0 .. m \subseteq 0 .. n /\ 0 .. m # 0 .. n /\ 0..m \subseteq Nat /\ 0..n \subseteq Nat
    BY <1>5
  <2>2. <<0 .. m, 0 .. n>> \in Sets!StrictSubsetOrdering(Nat)
    BY <2>1 DEF Sets!StrictSubsetOrdering
  <2> QED
    BY <1>3, <1>4, <2>2
<1> QED
  BY <1>4, <1>5

\* Induction, for a set of numbers.
LEMMA SetInduction ==
  ASSUME NEW S, 0 \in S, \A n \in Nat : n \in S => n + 1 \in S
  PROVE  Nat \subseteq S
<1> SUFFICES ASSUME Nat \ S # {} PROVE FALSE
  OBVIOUS
<1>1. PICK n \in Nat \ S : \A m \in Nat \ S : n <= m
  BY LeastOf
<1>2. n - 1 \in Nat /\ n - 1 \in S
  BY <1>1
<1> QED
  BY <1>1, <1>2

\* g[n] is what n steps, each a function of its number and of what the one
\* before it gave, make of a.
Iterates(g, D, a, F) ==
  g \in [Nat -> D] /\ g[0] = a /\ \A n \in Nat : g[n + 1] = F[<<n, g[n]>>]

\* What is defined step by step is defined for every number of steps.
LEMMA IterationExists ==
  ASSUME NEW D, NEW a \in D, NEW F \in [Nat \X D -> D]
  PROVE  \E g : Iterates(g, D, a, F)
<1> DEFINE Is(f, k) == /\ f \in [0 .. k -> D] /\ f[0] = a
                       /\ \A j \in 0 .. k - 1 : f[j + 1] = F[<<j, f[j]>>]
           S == {k \in Nat : \E f : Is(f, k)}
<1>1. Nat \subseteq S
  <2>1. 0 \in S
    <3>1. Is([j \in 0 .. 0 |-> a], 0)
      OBVIOUS
    <3> QED
      BY <3>1
  <2>2. ASSUME NEW k \in Nat, k \in S
        PROVE  k + 1 \in S
    <3>1. PICK f : Is(f, k)
      BY <2>2
    <3> DEFINE y == F[<<k, f[k]>>]
               e == [j \in 0 .. k + 1 |-> IF j <= k THEN f[j] ELSE y]
    <3>2. y \in D
      BY <3>1
    <3> HIDE DEF y
    <3>3. e \in [0 .. k + 1 -> D] /\ e[0] = a
      BY <3>1, <3>2
    <3>4. ASSUME NEW j \in 0 .. k
          PROVE  e[j + 1] = F[<<j, e[j]>>]
      <4>1. CASE j = k
        BY <4>1 DEF y
      <4>2. CASE j # k
        BY <3>1, <4>2
      <4> QED
        BY <4>1, <4>2
    <3> HIDE DEF e
    <3>5. \A j \in 0 .. (k + 1) - 1 : e[j + 1] = F[<<j, e[j]>>]
      BY <3>4
    <3>6. Is(e, k + 1)
      BY <3>3, <3>5
    <3> HIDE DEF Is
    <3> QED
      BY <3>6
  <2> HIDE DEF S
  <2> QED
    BY <2>1, <2>2, SetInduction
<1>2. ASSUME NEW k \in Nat, NEW e, NEW f, Is(e, k), Is(f, k + 1)
      PROVE  e[k] = f[k]
  <2> DEFINE T == {j \in Nat : j <= k => e[j] = f[j]}
  <2>1. 0 \in T
    BY <1>2
  <2>2. ASSUME NEW j \in Nat, j \in T PROVE j + 1 \in T
    <3>1. SUFFICES ASSUME j + 1 <= k PROVE e[j + 1] = f[j + 1]
      OBVIOUS
    <3>2. j \in 0 .. k - 1 /\ j \in 0 .. (k + 1) - 1 /\ e[j] = f[j]
      BY <2>2, <3>1
    <3>3. e[j + 1] = F[<<j, e[j]>>] /\ f[j + 1] = F[<<j, f[j]>>]
      BY <1>2, <3>2
    <3> QED
      BY <3>2, <3>3
  <2>3. Nat \subseteq T
    <3> HIDE DEF T, Is
    <3> QED
      BY <2>1, <2>2, SetInduction
  <2> QED
    BY <2>3
<1> DEFINE c(k) == CHOOSE f : Is(f, k)
           g == [n \in Nat |-> c(n)[n]]
<1>3. \A k \in Nat : Is(c(k), k)
  <2> HIDE DEF Is
  <2> QED
    BY <1>1
<1> HIDE DEF S, c
<1>4. g \in [Nat -> D] /\ g[0] = a
  BY <1>3
<1>5. ASSUME NEW n \in Nat PROVE g[n + 1] = F[<<n, g[n]>>]
  <2>1. c(n)[n] = c(n + 1)[n]
    <3> HIDE DEF Is
    <3> QED
      BY <1>2, <1>3
  <2>2. c(n + 1)[n + 1] = F[<<n, c(n + 1)[n]>>]
    BY <1>3
  <2> QED
    BY <2>1, <2>2
<1> QED
  BY <1>4, <1>5 DEF Iterates

\* And it is the only one, also where only the first k steps are defined.
LEMMA IterationIs ==
  ASSUME NEW D, NEW a, NEW F, NEW g, Iterates(g, D, a, F),
         NEW k \in Nat, NEW c, c[0] = a,
         \A j \in 1 .. k : c[j] = F[<<j - 1, c[j - 1]>>]
  PROVE  c[k] = g[k]
<1> DEFINE S == {j \in Nat : j <= k => c[j] = g[j]}
<1>1. 0 \in S
  BY DEF Iterates
<1>2. ASSUME NEW j \in Nat, j \in S PROVE j + 1 \in S
  <2> SUFFICES ASSUME j + 1 <= k PROVE c[j + 1] = g[j + 1]
    OBVIOUS
  <2>1. j + 1 \in 1 .. k /\ c[j] = g[j] /\ (j + 1) - 1 = j
    BY <1>2
  <2>2. c[j + 1] = F[<<(j + 1) - 1, c[(j + 1) - 1]>>]
    BY <2>1
  <2> QED
    BY <2>1, <2>2 DEF Iterates
<1>3. Nat \subseteq S
  <2> HIDE DEF S
  <2> QED
    BY <1>1, <1>2, SetInduction
<1> QED
  BY <1>3
=============================================================================
