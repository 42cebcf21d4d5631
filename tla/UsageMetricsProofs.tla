------------------------- MODULE UsageMetricsProofs -------------------------
(***************************************************************************)
(* Proofs about UsageMetrics for any number of workers, keys and buckets,  *)
(* any hash function and any width of the counters: the counters, what     *)
(* LAPI has accepted and what an upload holds always add up to what was    *)
(* counted.                                                                *)
(***************************************************************************)
EXTENDS UsageMetrics, SequenceTheorems, WellFoundedInduction, TLAPS

-----------------------------------------------------------------------------
(* Sums.                                                                   *)

LEMMA LeastNat ==
  ASSUME NEW T, T \subseteq Nat, T # {}
  PROVE  \E m \in T : \A n \in T : m <= n
<1>1. PICK m \in T : \A n \in T : ~ (<<n, m>> \in OpToRel(<, Nat))
  BY NatLessThanWellFounded, WFMin
<1>2. \A n \in T : <<n, m>> \in OpToRel(<, Nat) <=> n < m
  BY DEF OpToRel
<1>3. \A n \in T : ~ (n < m)
  BY <1>1, <1>2, Zenon
<1>4. QED
  BY <1>3

(* g[i] is the sum of the first i elements of f.                           *)
Summation(f, n, g) ==
  g = [i \in 0 .. n |-> IF i = 0 THEN 0 ELSE g[i - 1] + f[i]]

LEMMA SummationExists ==
  ASSUME NEW n \in Nat, NEW f \in [1 .. n -> Int]
  PROVE  \E g \in [0 .. n -> Int] : Summation(f, n, g)
<1> DEFINE T == {m \in 0 .. n : ~ \E g \in [0 .. m -> Int] : Summation(f, m, g)}
<1>1. SUFFICES ASSUME T # {} PROVE FALSE
  OBVIOUS
<1>2. T \subseteq Nat
  OBVIOUS
<1>3. PICK m \in T : \A x \in T : m <= x
  BY <1>1, <1>2, LeastNat
<1>4. m # 0
  <2>1. SUFFICES ASSUME m = 0 PROVE FALSE
    OBVIOUS
  <2> DEFINE g == [i \in 0 .. 0 |-> 0]
  <2>2. g \in [0 .. m -> Int] /\ Summation(f, m, g)
    BY <2>1 DEF Summation
  <2>3. QED
    BY <1>3, <2>2
<1>5. m \in 1 .. n /\ m - 1 \in 0 .. n /\ m - 1 \notin T
  BY <1>3, <1>4
<1>6. PICK g \in [0 .. m - 1 -> Int] : Summation(f, m - 1, g)
  BY <1>5
<1> DEFINE h == [i \in 0 .. m |-> IF i <= m - 1 THEN g[i] ELSE g[m - 1] + f[m]]
<1>7. g[m - 1] \in Int /\ f[m] \in Int
  BY <1>5
<1>8. h \in [0 .. m -> Int]
  BY <1>5, <1>7
<1>9. \A i \in 0 .. m : h[i] = IF i = 0 THEN 0 ELSE h[i - 1] + f[i]
  <2> SUFFICES ASSUME NEW i \in 0 .. m
               PROVE  h[i] = IF i = 0 THEN 0 ELSE h[i - 1] + f[i]
    OBVIOUS
  <2>1. CASE i <= m - 1
    <3>1. g[i] = IF i = 0 THEN 0 ELSE g[i - 1] + f[i]
      BY <1>5, <1>6, <2>1 DEF Summation
    <3>2. h[i] = g[i] /\ (i # 0 => h[i - 1] = g[i - 1])
      BY <1>5, <2>1
    <3>3. QED
      BY <3>1, <3>2
  <2>2. CASE i = m
    BY <1>5, <2>2
  <2>3. QED
    BY <1>5, <2>1, <2>2
<1>10. h = [i \in 0 .. m |-> IF i = 0 THEN 0 ELSE h[i - 1] + f[i]]
  <2>1. h = [i \in 0 .. m |-> h[i]]
    OBVIOUS
  <2> HIDE DEF h
  <2>2. QED
    BY <1>9, <2>1
<1>11. QED
  BY <1>3, <1>8, <1>10 DEF Summation

LEMMA PartialSums ==
  ASSUME NEW n \in Nat, NEW f \in [1 .. n -> Int]
  PROVE  \E g \in [0 .. n -> Int] :
           /\ g[0] = 0
           /\ \A i \in 1 .. n : g[i] = g[i - 1] + f[i]
           /\ SumTo(f, n) = g[n]
<1> DEFINE c == CHOOSE g : Summation(f, n, g)
<1>1. PICK g \in [0 .. n -> Int] : Summation(f, n, g)
  BY SummationExists
<1>2. Summation(f, n, c)
  BY <1>1
<1>3. SumTo(f, n) = c[n]
  BY DEF SumTo, Summation
<1> HIDE DEF c
<1>4. c = [i \in 0 .. n |-> c[i]]
  BY <1>2 DEF Summation
<1>5. c[0] = 0 /\ \A i \in 1 .. n : c[i] = c[i - 1] + f[i]
  BY <1>2 DEF Summation
<1> DEFINE T == {i \in 0 .. n : c[i] \notin Int}
<1>6. T = {}
  <2>1. SUFFICES ASSUME T # {} PROVE FALSE
    OBVIOUS
  <2>2. T \subseteq Nat
    OBVIOUS
  <2>3. PICK m \in T : \A x \in T : m <= x
    BY <2>1, <2>2, LeastNat
  <2>4. m \in 1 .. n /\ m - 1 \in 0 .. n /\ m - 1 \notin T
    BY <1>5, <2>3
  <2>5. c[m - 1] \in Int /\ f[m] \in Int
    BY <2>4
  <2>6. QED
    BY <1>5, <2>3, <2>4, <2>5
<1>7. c \in [0 .. n -> Int]
  BY <1>4, <1>6
<1>8. QED
  BY <1>3, <1>5, <1>7

LEMMA Regroup ==
  ASSUME NEW a \in Int, NEW b \in Int, NEW c \in Int
  PROVE  a + (b + c) = (a + b) + c /\ (a + c) + b = (a + b) + c
OBVIOUS

(* One summand changes.                                                    *)
LEMMA SumChange ==
  ASSUME NEW n \in Nat, NEW f \in [1 .. n -> Int], NEW f2 \in [1 .. n -> Int],
         NEW j \in 1 .. n, \A i \in 1 .. n : i # j => f2[i] = f[i]
  PROVE  SumTo(f2, n) = SumTo(f, n) + f2[j] - f[j]
<1>1. PICK g \in [0 .. n -> Int] :
        /\ g[0] = 0
        /\ \A i \in 1 .. n : g[i] = g[i - 1] + f[i]
        /\ SumTo(f, n) = g[n]
  BY PartialSums
<1>2. PICK g2 \in [0 .. n -> Int] :
        /\ g2[0] = 0
        /\ \A i \in 1 .. n : g2[i] = g2[i - 1] + f2[i]
        /\ SumTo(f2, n) = g2[n]
  BY PartialSums
<1> DEFINE d == f2[j] - f[j]
           Agree(i) == (i < j => g2[i] = g[i]) /\ (i >= j => g2[i] = g[i] + d)
           T == {i \in 0 .. n : ~ Agree(i)}
<1>3. d \in Int /\ f2[j] = f[j] + d
  OBVIOUS
<1> HIDE DEF d
<1>4. T = {}
  <2>1. SUFFICES ASSUME T # {} PROVE FALSE
    OBVIOUS
  <2>2. T \subseteq Nat
    OBVIOUS
  <2>3. PICK m \in T : \A x \in T : m <= x
    BY <2>1, <2>2, LeastNat
  <2>4. m # 0
    BY <1>1, <1>2, <2>3
  <2>5. m \in 1 .. n /\ m - 1 \in 0 .. n
    BY <2>3, <2>4
  <2>6. m - 1 \notin T
    <3> HIDE DEF T
    <3> QED
      BY <2>3, <2>5
  <2>7. Agree(m - 1) /\ ~ Agree(m)
    BY <2>3, <2>5, <2>6
  <2>8. /\ g[m - 1] \in Int /\ f[m] \in Int /\ f2[m] \in Int
        /\ g[m] = g[m - 1] + f[m] /\ g2[m] = g2[m - 1] + f2[m]
    BY <1>1, <1>2, <2>5
  <2>9. (m = j => f2[m] = f[m] + d) /\ (m # j => f2[m] = f[m])
    BY <1>3, <2>5
  <2> HIDE DEF T
  <2>10. CASE m < j
    <3>1. m - 1 < j /\ m # j
      BY <2>5, <2>10
    <3>2. QED
      BY <2>5, <2>7, <2>8, <2>9, <2>10, <3>1
  <2>11. CASE m = j
    <3>1. m - 1 < j
      BY <2>5, <2>11
    <3>2. g2[m] = g[m - 1] + (f[m] + d)
      BY <2>7, <2>8, <2>9, <2>11, <3>1
    <3>3. g[m - 1] + (f[m] + d) = (g[m - 1] + f[m]) + d
      BY <1>3, <2>8, Regroup
    <3>4. g2[m] = g[m] + d
      BY <2>8, <3>2, <3>3, Zenon
    <3>5. QED
      BY <2>5, <2>7, <2>11, <3>4
  <2>12. CASE m > j
    <3>1. m - 1 >= j /\ m # j
      BY <2>5, <2>12
    <3>2. g2[m] = (g[m - 1] + d) + f[m]
      BY <2>7, <2>8, <2>9, <3>1
    <3>3. (g[m - 1] + d) + f[m] = (g[m - 1] + f[m]) + d
      BY <1>3, <2>8, Regroup
    <3>4. g2[m] = g[m] + d
      BY <2>8, <3>2, <3>3, Zenon
    <3>5. QED
      BY <2>5, <2>7, <2>12, <3>4
  <2>13. QED
    BY <2>5, <2>10, <2>11, <2>12
<1>5. n \in 0 .. n /\ n >= j /\ n \notin T
  BY <1>4
<1>6. g2[n] = g[n] + d
  BY <1>5
<1>7. g[n] \in Int /\ f[j] \in Int /\ f2[j] \in Int
  OBVIOUS
<1>8. QED
  BY <1>1, <1>2, <1>6, <1>7 DEF d

(* The first summand apart.                                                *)
LEMMA SumTail ==
  ASSUME NEW n \in Nat, NEW f \in [1 .. n + 1 -> Int], NEW f2 \in [1 .. n -> Int],
         \A i \in 1 .. n : f2[i] = f[i + 1]
  PROVE  SumTo(f, n + 1) = f[1] + SumTo(f2, n)
<1>0. n + 1 \in Nat
  OBVIOUS
<1>1. PICK g \in [0 .. n + 1 -> Int] :
        /\ g[0] = 0
        /\ \A i \in 1 .. n + 1 : g[i] = g[i - 1] + f[i]
        /\ SumTo(f, n + 1) = g[n + 1]
  BY <1>0, PartialSums
<1>2. PICK g2 \in [0 .. n -> Int] :
        /\ g2[0] = 0
        /\ \A i \in 1 .. n : g2[i] = g2[i - 1] + f2[i]
        /\ SumTo(f2, n) = g2[n]
  BY PartialSums
<1> DEFINE T == {i \in 0 .. n : g[i + 1] # f[1] + g2[i]}
<1>3. f[1] \in Int /\ g[1] = f[1]
  <2>1. 1 \in 1 .. n + 1
    OBVIOUS
  <2>2. f[1] \in Int /\ g[1] = g[1 - 1] + f[1]
    BY <1>1, <2>1
  <2>3. 1 - 1 = 0
    OBVIOUS
  <2>4. QED
    BY <1>1, <2>2, <2>3
<1>4. T = {}
  <2>1. SUFFICES ASSUME T # {} PROVE FALSE
    OBVIOUS
  <2>2. T \subseteq Nat
    OBVIOUS
  <2>3. PICK m \in T : \A x \in T : m <= x
    BY <2>1, <2>2, LeastNat
  <2>4. m \in 1 .. n /\ m - 1 \in 0 .. n /\ m - 1 \notin T
    BY <1>2, <1>3, <2>3
  <2>5. g[m] = f[1] + g2[m - 1]
    BY <2>4
  <2>6. g[m + 1] = g[m] + f[m + 1] /\ g2[m] = g2[m - 1] + f[m + 1]
    BY <1>1, <1>2, <2>4
  <2>7. g2[m - 1] \in Int /\ f[m + 1] \in Int
    BY <2>4
  <2>8. g[m + 1] # f[1] + g2[m]
    BY <2>3
  <2> HIDE DEF T
  <2>9. QED
    BY <1>3, <2>5, <2>6, <2>7, <2>8
<1>5. n \in 0 .. n
  OBVIOUS
<1>6. g[n + 1] = f[1] + g2[n]
  BY <1>4, <1>5
<1>7. QED
  BY <1>1, <1>2, <1>6

LEMMA SumOfNats ==
  ASSUME NEW n \in Nat, NEW f \in [1 .. n -> Nat]
  PROVE  SumTo(f, n) \in Nat
<1>1. f \in [1 .. n -> Int]
  OBVIOUS
<1>2. PICK g \in [0 .. n -> Int] :
        /\ g[0] = 0
        /\ \A i \in 1 .. n : g[i] = g[i - 1] + f[i]
        /\ SumTo(f, n) = g[n]
  BY <1>1, PartialSums
<1> DEFINE T == {i \in 0 .. n : g[i] < 0}
<1>3. T = {}
  <2>1. SUFFICES ASSUME T # {} PROVE FALSE
    OBVIOUS
  <2>2. T \subseteq Nat
    OBVIOUS
  <2>3. PICK m \in T : \A x \in T : m <= x
    BY <2>1, <2>2, LeastNat
  <2>4. m \in 1 .. n /\ m - 1 \in 0 .. n /\ m - 1 \notin T
    BY <1>2, <2>3
  <2>5. g[m] = g[m - 1] + f[m] /\ g[m - 1] \in Int /\ f[m] \in Nat
    BY <1>2, <2>4
  <2>6. ~ (g[m - 1] < 0) /\ g[m] < 0
    BY <2>3, <2>4
  <2> HIDE DEF T
  <2>7. QED
    BY <2>5, <2>6
<1>4. g[n] \in Int /\ ~ (g[n] < 0)
  BY <1>3
<1>5. QED
  BY <1>2, <1>4


-----------------------------------------------------------------------------
(* Words.                                                                  *)

Congruent(x, y) == \E z \in Int : x = y + (Modulus * z)

LEMMA MulDistributes ==
  ASSUME NEW m \in Int, NEW a \in Int, NEW b \in Int
  PROVE  m * a \in Int /\ (m * (a + b)) = (m * a) + (m * b) /\ (m * (-a)) = -(m * a)
OBVIOUS

LEMMA WordOf ==
  ASSUME NEW x \in Int
  PROVE  /\ (x % Modulus) \in 0 .. Modulus - 1
         /\ Congruent(x % Modulus, x)
<1> DEFINE q == x \div Modulus
<1>1. Modulus \in Nat \ {0}
  BY SizeAssumption
<1>2. q \in Int /\ (x % Modulus) \in 0 .. Modulus - 1 /\ x = (Modulus * q) + (x % Modulus)
  BY <1>1
<1> HIDE DEF q
<1>3. (Modulus * (-q)) = -(Modulus * q) /\ (Modulus * q) \in Int /\ -q \in Int
  BY <1>1, <1>2, MulDistributes
<1>4. (x % Modulus) = x + (Modulus * (-q))
  BY <1>2, <1>3
<1>5. QED
  BY <1>2, <1>3, <1>4 DEF Congruent

(* Equal words.                                                            *)
LEMMA CongruentWords ==
  ASSUME NEW x \in Int, NEW y \in Int, Congruent(x, y)
  PROVE  x % Modulus = y % Modulus
<1>1. Modulus \in Nat \ {0} /\ Modulus \in Int
  BY SizeAssumption
<1>2. PICK z \in Int : x = y + (Modulus * z)
  BY DEF Congruent
<1>3. PICK p \in Int : (x % Modulus) = x + (Modulus * p)
  BY WordOf DEF Congruent
<1>4. PICK q \in Int : (y % Modulus) = y + (Modulus * q)
  BY WordOf DEF Congruent
<1>5. (x % Modulus) \in 0 .. Modulus - 1 /\ (y % Modulus) \in 0 .. Modulus - 1
  BY WordOf
<1> DEFINE d == (z + p) - q
<1>6. d \in Int /\ (Modulus * d) = ((Modulus * z) + (Modulus * p)) - (Modulus * q)
  <2>1. d = (z + p) + (-q) /\ z + p \in Int /\ -q \in Int
    OBVIOUS
  <2>2. (Modulus * ((z + p) + (-q))) = (Modulus * (z + p)) + (Modulus * (-q))
    BY <1>1, <2>1, MulDistributes
  <2>3. (Modulus * (z + p)) = (Modulus * z) + (Modulus * p)
    BY <1>1, MulDistributes
  <2>4. (Modulus * (-q)) = -(Modulus * q)
    BY <1>1, MulDistributes
  <2>5. (Modulus * z) \in Int /\ (Modulus * p) \in Int /\ (Modulus * q) \in Int
    BY <1>1, MulDistributes
  <2>6. QED
    BY <2>1, <2>2, <2>3, <2>4, <2>5
<1> HIDE DEF d
<1>7. (Modulus * z) \in Int /\ (Modulus * p) \in Int /\ (Modulus * q) \in Int
  BY <1>1, MulDistributes
<1>8. (x % Modulus) - (y % Modulus) = (Modulus * d)
  BY <1>2, <1>3, <1>4, <1>6, <1>7
<1>9. (Modulus * d) < Modulus /\ (Modulus * d) > -Modulus
  BY <1>1, <1>5, <1>8
<1>10. d = 0
  <2>1. CASE d >= 1
    <3>1. (Modulus * d) >= Modulus
      BY <1>1, <1>6, <2>1
    <3>2. QED
      BY <1>1, <1>6, <1>9, <3>1
  <2>2. CASE d <= -1
    <3>1. (Modulus * d) <= -Modulus
      BY <1>1, <1>6, <2>2
    <3>2. QED
      BY <1>1, <1>6, <1>9, <3>1
  <2>3. QED
    BY <1>6, <2>1, <2>2
<1>11. (Modulus * d) = 0
  BY <1>1, <1>10
<1>12. QED
  BY <1>5, <1>8, <1>11

(* Both sides change by the same, up to a multiple of the word.            *)
LEMMA CongruentStep ==
  ASSUME NEW x \in Int, NEW y \in Int, NEW x2 \in Int, NEW y2 \in Int,
         Congruent(x, y), Congruent(x2 - x, y2 - y)
  PROVE  Congruent(x2, y2)
<1>1. Modulus \in Int
  BY SizeAssumption
<1>2. PICK p \in Int : x = y + (Modulus * p)
  BY DEF Congruent
<1>3. PICK q \in Int : x2 - x = (y2 - y) + (Modulus * q)
  BY DEF Congruent
<1>4. /\ (Modulus * (p + q)) = (Modulus * p) + (Modulus * q) /\ p + q \in Int
      /\ (Modulus * p) \in Int /\ (Modulus * q) \in Int
  BY <1>1, MulDistributes
<1>5. x2 = y2 + (Modulus * (p + q))
  BY <1>2, <1>3, <1>4
<1>6. QED
  BY <1>4, <1>5 DEF Congruent

LEMMA CongruentSame == ASSUME NEW x \in Int PROVE Congruent(x, x)
<1>1. x = x + (Modulus * 0) /\ 0 \in Int
  BY SizeAssumption
<1>2. QED
  BY <1>1 DEF Congruent

(* fetch_add and fetch_sub change the value by what they add or subtract,  *)
(* up to a multiple of the word.                                           *)
LEMMA WordChange ==
  ASSUME NEW v \in Int, NEW d \in Int
  PROVE  Congruent(((v + d) % Modulus) - v, d)
<1>1. Modulus \in Int /\ v + d \in Int
  BY SizeAssumption
<1>2. PICK z \in Int : ((v + d) % Modulus) = (v + d) + (Modulus * z)
  BY <1>1, WordOf DEF Congruent
<1>3. (Modulus * z) \in Int
  BY <1>1, MulDistributes
<1>4. ((v + d) % Modulus) - v = d + (Modulus * z)
  BY <1>2, <1>3
<1>5. QED
  BY <1>4 DEF Congruent


-----------------------------------------------------------------------------
(* What the buckets hold, and what an upload holds.                        *)

BucketRec ==
  [key_hash : Nat, key : Keys \union {NoKey}, value : 0 .. Modulus - 1, ready : BOOLEAN]
Table == [Bucket -> BucketRec]
Item == [key : Keys, value : 1 .. Modulus - 1]

ValueIn(b, k) == IF b.ready /\ b.key = k THEN b.value ELSE 0
StoredIn(table, k) == SumTo(StoredAt(table, k), MAX_BUCKETS)
SumOf(seq, k) == SumTo(ValueAt(seq, k), Len(seq))

LEMMA StoredAtType ==
  ASSUME NEW table \in Table, NEW k
  PROVE  /\ StoredAt(table, k) \in [1 .. MAX_BUCKETS -> Nat]
         /\ StoredAt(table, k) \in [1 .. MAX_BUCKETS -> Int]
         /\ \A i \in Bucket : StoredAt(table, k)[i + 1] = ValueIn(table[i], k)
<1>1. MAX_BUCKETS \in Nat \ {0} /\ Modulus \in Nat
  BY SizeAssumption
<1>2. ASSUME NEW b \in BucketRec PROVE ValueIn(b, k) \in Nat
  BY <1>1 DEF BucketRec, ValueIn
<1>3. \A i \in 1 .. MAX_BUCKETS : i - 1 \in Bucket /\ table[i - 1] \in BucketRec
  BY <1>1 DEF Bucket, Table
<1>4. StoredAt(table, k) = [i \in 1 .. MAX_BUCKETS |-> ValueIn(table[i - 1], k)]
  BY DEF StoredAt, ValueIn
<1>5. \A i \in 1 .. MAX_BUCKETS : ValueIn(table[i - 1], k) \in Nat
  BY <1>2, <1>3
<1>6. StoredAt(table, k) \in [1 .. MAX_BUCKETS -> Nat]
  BY <1>4, <1>5
<1>7. \A i \in Bucket : i + 1 \in 1 .. MAX_BUCKETS /\ (i + 1) - 1 = i
  BY <1>1 DEF Bucket
<1>8. \A i \in Bucket : StoredAt(table, k)[i + 1] = ValueIn(table[i], k)
  BY <1>4, <1>7
<1>9. QED
  BY <1>6, <1>8

(* One bucket is written.                                                  *)
LEMMA StoredPut ==
  ASSUME NEW table \in Table, NEW table2 \in Table, NEW i \in Bucket, NEW k,
         \A j \in Bucket \ {i} : table2[j] = table[j]
  PROVE  /\ StoredIn(table2, k) =
              StoredIn(table, k) + ValueIn(table2[i], k) - ValueIn(table[i], k)
         /\ StoredIn(table, k) \in Nat
         /\ StoredIn(table2, k) \in Nat
<1> DEFINE f == StoredAt(table, k)
           f2 == StoredAt(table2, k)
<1>1. MAX_BUCKETS \in Nat /\ i + 1 \in 1 .. MAX_BUCKETS
  BY SizeAssumption DEF Bucket
<1>2. /\ f \in [1 .. MAX_BUCKETS -> Int] /\ f2 \in [1 .. MAX_BUCKETS -> Int]
      /\ f \in [1 .. MAX_BUCKETS -> Nat] /\ f2 \in [1 .. MAX_BUCKETS -> Nat]
      /\ \A j \in Bucket : f[j + 1] = ValueIn(table[j], k)
      /\ \A j \in Bucket : f2[j + 1] = ValueIn(table2[j], k)
  BY StoredAtType
<1> HIDE DEF f, f2
<1>3. \A n \in 1 .. MAX_BUCKETS : n - 1 \in Bucket /\ (n - 1) + 1 = n
  BY <1>1 DEF Bucket
<1>4. \A n \in 1 .. MAX_BUCKETS : n # i + 1 => n - 1 \in Bucket \ {i}
  BY <1>1, <1>3 DEF Bucket
<1>5. \A n \in 1 .. MAX_BUCKETS : n # i + 1 => f2[n] = f[n]
  BY <1>2, <1>3, <1>4
<1>6. SumTo(f2, MAX_BUCKETS) = SumTo(f, MAX_BUCKETS) + f2[i + 1] - f[i + 1]
  BY <1>1, <1>2, <1>5, SumChange
<1>7. SumTo(f, MAX_BUCKETS) \in Nat /\ SumTo(f2, MAX_BUCKETS) \in Nat
  BY <1>1, <1>2, SumOfNats
<1>8. QED
  BY <1>2, <1>6, <1>7 DEF StoredIn, f, f2

LEMMA StoredNat ==
  ASSUME NEW table \in Table, NEW k
  PROVE  StoredIn(table, k) \in Nat
BY StoredAtType, SumOfNats, SizeAssumption DEF StoredIn

LEMMA SumOfNat ==
  ASSUME NEW seq \in Seq(Item), NEW k
  PROVE  /\ SumOf(seq, k) \in Nat
         /\ ValueAt(seq, k) \in [1 .. Len(seq) -> Nat]
<1>1. \A i \in 1 .. Len(seq) : seq[i] \in Item /\ Len(seq) \in Nat
  OBVIOUS
<1>2. ASSUME NEW i \in 1 .. Len(seq)
      PROVE  (IF seq[i].key = k THEN seq[i].value ELSE 0) \in Nat
  BY <1>1, SizeAssumption DEF Item
<1>3. ValueAt(seq, k) \in [1 .. Len(seq) -> Nat]
  BY <1>2 DEF ValueAt
<1>4. QED
  BY <1>3, SumOfNats DEF SumOf

LEMMA SumOfEmpty ==
  ASSUME NEW k
  PROVE  SumOf(<<>>, k) = 0
<1> DEFINE f == ValueAt(<<>>, k)
<1>1. f \in [1 .. 0 -> Int]
  BY DEF ValueAt
<1>2. \E g \in [0 .. 0 -> Int] : g[0] = 0 /\ SumTo(f, 0) = g[0]
  <2> HIDE DEF f
  <2> QED
    BY <1>1, PartialSums
<1>3. QED
  BY <1>2 DEF SumOf

LEMMA SumOfTail ==
  ASSUME NEW seq \in Seq(Item), seq # <<>>, NEW k
  PROVE  SumOf(seq, k) =
           (IF Head(seq).key = k THEN Head(seq).value ELSE 0) + SumOf(Tail(seq), k)
<1> DEFINE n == Len(Tail(seq))
           f == ValueAt(seq, k)
           f2 == ValueAt(Tail(seq), k)
<1>1. /\ n \in Nat /\ Len(seq) = n + 1 /\ Tail(seq) \in Seq(Item)
      /\ Head(seq) = seq[1]
      /\ \A i \in 1 .. n : Tail(seq)[i] = seq[i + 1]
  OBVIOUS
<1>2. f \in [1 .. n + 1 -> Nat] /\ f2 \in [1 .. n -> Nat]
  BY <1>1, SumOfNat
<1>3. \A i \in 1 .. n : f2[i] = f[i + 1]
  <2>1. \A i \in 1 .. n : i + 1 \in 1 .. n + 1
    BY <1>1
  <2>2. QED
    BY <1>1, <2>1 DEF ValueAt
<1>4. 1 \in 1 .. n + 1 /\ f[1] = IF Head(seq).key = k THEN Head(seq).value ELSE 0
  BY <1>1 DEF ValueAt
<1> HIDE DEF f, f2, n
<1>5. f \in [1 .. n + 1 -> Int] /\ f2 \in [1 .. n -> Int]
  BY <1>2
<1>6. SumTo(f, n + 1) = f[1] + SumTo(f2, n)
  BY <1>1, <1>3, <1>5, SumTail
<1>7. QED
  BY <1>1, <1>4, <1>6 DEF SumOf, f, f2, n

-----------------------------------------------------------------------------
(* The invariant.                                                          *)

(* A bucket that is ready is claimed and has a key.                        *)
Owned ==
  \A i \in Bucket :
    bucket[i].ready => bucket[i].key_hash # 0 /\ bucket[i].key \in Keys

(* A bucket is filled by one worker, and nobody counts in it before.       *)
Filling ==
  \A w \in Workers :
    /\ pc[w] # "idle" => key[w] \in Keys
    /\ pc[w] = "fill" => ~ bucket[idx[w]].ready /\ bucket[idx[w]].key_hash # 0
    /\ \A v \in Workers :
         pc[w] = "fill" /\ pc[v] = "fill" /\ idx[v] = idx[w] => v = w

(* What was uploaded came from a bucket, which is still there.             *)
Uploaded ==
  \A n \in 1 .. Len(items) :
    \E i \in Bucket : bucket[i].ready /\ bucket[i].key = items[n].key

(* NothingLost, as a congruence.                                           *)
Balance ==
  \A k \in Keys :
    Congruent(Stored(k) + accepted[k] - Pending(k), counted[k] + repeated[k])

IInv == TypeOK /\ Owned /\ Filling /\ Uploaded /\ Balance

(* The numbers that NothingLost is about.                                  *)
LEMMA Numbers ==
  ASSUME TypeOK, NEW k \in Keys
  PROVE  /\ Stored(k) \in Nat /\ Pending(k) \in Nat
         /\ accepted[k] \in Nat /\ counted[k] \in Nat /\ repeated[k] \in Nat
<1>1. bucket \in Table /\ items \in Seq(Item)
  BY DEF TypeOK, Table, BucketRec, Item
<1>2. Stored(k) \in Nat
  BY <1>1, StoredNat DEF Stored, StoredIn
<1>3. ValuesOf(k) \in Nat
  BY <1>1, SumOfNat DEF ValuesOf, SumOf
<1>4. QED
  BY <1>2, <1>3 DEF Pending, TypeOK

LEMMA BalanceStep ==
  ASSUME TypeOK, TypeOK', Balance,
         \A k \in Keys :
           Congruent((Stored(k)' - Stored(k)) + (accepted'[k] - accepted[k])
                       - (Pending(k)' - Pending(k)),
                     (counted'[k] - counted[k]) + (repeated'[k] - repeated[k]))
  PROVE  Balance'
<1> SUFFICES ASSUME NEW k \in Keys
             PROVE  Congruent(Stored(k)' + accepted'[k] - Pending(k)',
                              counted'[k] + repeated'[k])
  BY DEF Balance
<1> DEFINE x == Stored(k) + accepted[k] - Pending(k)
           y == counted[k] + repeated[k]
           x2 == Stored(k)' + accepted'[k] - Pending(k)'
           y2 == counted'[k] + repeated'[k]
<1>1. /\ Stored(k) \in Nat /\ Pending(k) \in Nat
      /\ accepted[k] \in Nat /\ counted[k] \in Nat /\ repeated[k] \in Nat
  BY Numbers
<1>2. /\ Stored(k)' \in Nat /\ Pending(k)' \in Nat
      /\ accepted'[k] \in Nat /\ counted'[k] \in Nat /\ repeated'[k] \in Nat
  <2>1. bucket' \in Table /\ items' \in Seq(Item)
    BY DEF TypeOK, Table, BucketRec, Item
  <2>2. Stored(k)' \in Nat
    BY <2>1, StoredNat DEF Stored, StoredIn
  <2>3. ValuesOf(k)' \in Nat
    BY <2>1, SumOfNat DEF ValuesOf, SumOf
  <2>4. QED
    BY <2>2, <2>3 DEF Pending, TypeOK
<1>3. /\ x \in Int /\ y \in Int /\ x2 \in Int /\ y2 \in Int
      /\ x2 - x = (Stored(k)' - Stored(k)) + (accepted'[k] - accepted[k])
                       - (Pending(k)' - Pending(k))
      /\ y2 - y = (counted'[k] - counted[k]) + (repeated'[k] - repeated[k])
  BY <1>1, <1>2
<1>4. Congruent(x, y)
  BY DEF Balance
<1>5. Congruent(x2 - x, y2 - y)
  BY <1>3
<1> HIDE DEF x, y, x2, y2
<1>6. Congruent(x2, y2)
  BY <1>3, <1>4, <1>5, CongruentStep
<1>7. QED
  BY <1>6 DEF x2, y2


-----------------------------------------------------------------------------
(* The steps of the workers.                                               *)

LEMMA BucketMoves ==
  ASSUME NEW i \in Bucket
  PROVE  after(i) \in Bucket
BY SizeAssumption DEF after, Bucket

LEMMA HomeBucket ==
  ASSUME NEW k \in Keys
  PROVE  home(k) \in Bucket
<1>1. Hash[k] \in Nat /\ MAX_BUCKETS \in Nat \ {0}
  BY KeyAssumption, SizeAssumption
<1>2. QED
  BY <1>1 DEF home, Bucket

(* A worker goes on without writing to a bucket.                           *)
LEMMA WorkerMoves ==
  ASSUME IInv, NEW w \in Workers, NEW p \in {"idle", "load", "claim"},
         NEW k \in Keys \union {NoKey}, NEW i \in Bucket,
         p # "idle" => k \in Keys,
         pc' = [pc EXCEPT ![w] = p], key' = [key EXCEPT ![w] = k],
         idx' = [idx EXCEPT ![w] = i], crashes' \in Nat,
         UNCHANGED <<bucket, push_vars, counted>>
  PROVE  IInv'
<1>1. UNCHANGED <<bucket, push, at, items, accepted, repeated, pushes, late, counted>>
  BY DEF push_vars
<1>2. TypeOK'
  BY <1>1 DEF IInv, TypeOK
<1>3. /\ pc'[w] = p /\ key'[w] = k
      /\ \A v \in Workers \ {w} : pc'[v] = pc[v] /\ key'[v] = key[v] /\ idx'[v] = idx[v]
  BY DEF IInv, TypeOK
<1>4. Filling'
  BY <1>1, <1>3 DEF Filling, IInv
<1>5. Owned' /\ Uploaded'
  BY <1>1 DEF IInv, Owned, Uploaded
<1>6. Balance'
  BY <1>1 DEF IInv, Balance, Stored, Pending, ValuesOf
<1>7. QED
  BY <1>2, <1>4, <1>5, <1>6 DEF IInv

LEMMA WorkerStays ==
  ASSUME TypeOK, NEW w \in Workers
  PROVE  /\ key[w] \in Keys \union {NoKey} /\ idx[w] \in Bucket
         /\ key = [key EXCEPT ![w] = key[w]] /\ idx = [idx EXCEPT ![w] = idx[w]]
BY DEF TypeOK

LEMMA RecordStep ==
  ASSUME IInv, NEW w \in Workers, NEW k \in Keys, Record(w, k)
  PROVE  IInv'
BY HomeBucket, WorkerMoves DEF Record, IInv, TypeOK

LEMMA DoneStep ==
  ASSUME IInv, NEW w \in Workers, Done(w), crashes' \in Nat,
         UNCHANGED <<bucket, push_vars, counted>>
  PROVE  IInv'
<1>1. /\ key[w] \in Keys \union {NoKey} /\ idx[w] \in Bucket
      /\ key' = [key EXCEPT ![w] = key[w]] /\ idx' = [idx EXCEPT ![w] = idx[w]]
      /\ pc' = [pc EXCEPT ![w] = "idle"]
  BY WorkerStays DEF Done, IInv
<1>2. QED
  BY <1>1, WorkerMoves

LEMMA AdvanceStep ==
  ASSUME IInv, NEW w \in Workers, pc[w] # "idle", Advance(w), crashes' \in Nat,
         UNCHANGED <<bucket, push_vars, counted>>
  PROVE  IInv'
<1>1. CASE after(idx[w]) = home(key[w])
  BY <1>1, DoneStep DEF Advance
<1>2. CASE after(idx[w]) # home(key[w])
  <2>1. key[w] \in Keys
    BY DEF IInv, Filling
  <2>2. idx[w] \in Bucket /\ after(idx[w]) \in Bucket
    BY BucketMoves DEF IInv, TypeOK
  <2>3. key' = [key EXCEPT ![w] = key[w]] /\ pc' = [pc EXCEPT ![w] = "load"]
        /\ idx' = [idx EXCEPT ![w] = after(idx[w])]
    BY <1>2, WorkerStays DEF Advance, IInv
  <2>4. QED
    BY <2>1, <2>2, <2>3, WorkerMoves
<1>3. QED
  BY <1>1, <1>2

LEMMA PassStep ==
  ASSUME IInv, NEW w \in Workers, PassBucket(w)
  PROVE  IInv'
BY AdvanceStep DEF PassBucket, IInv, TypeOK

LEMMA SeeStep ==
  ASSUME IInv, NEW w \in Workers, SeeVacant(w)
  PROVE  IInv'
<1>1. key[w] \in Keys /\ pc' = [pc EXCEPT ![w] = "claim"]
  BY DEF IInv, Filling, SeeVacant
<1>2. idx[w] \in Bucket /\ key' = [key EXCEPT ![w] = key[w]]
      /\ idx' = [idx EXCEPT ![w] = idx[w]]
  BY WorkerStays DEF IInv, SeeVacant
<1>3. crashes' \in Nat /\ UNCHANGED <<bucket, push_vars, counted>>
  BY DEF SeeVacant, IInv, TypeOK
<1>4. QED
  BY <1>1, <1>2, <1>3, WorkerMoves

LEMMA CrashStep ==
  ASSUME IInv, NEW w \in Workers, Crash(w)
  PROVE  IInv'
<1>1. crashes' \in Nat
  BY DEF Crash, IInv, TypeOK
<1>2. QED
  BY <1>1, DoneStep DEF Crash

LEMMA StoredChange ==
  ASSUME bucket \in Table, bucket' \in Table, NEW i \in Bucket, NEW e, bucket'[i] = e,
         NEW k, \A j \in Bucket \ {i} : bucket'[j] = bucket[j]
  PROVE  /\ StoredIn(bucket', k) = StoredIn(bucket, k) + ValueIn(e, k) - ValueIn(bucket[i], k)
         /\ StoredIn(bucket, k) \in Nat
BY StoredPut

LEMMA ValueWritten ==
  ASSUME NEW b \in BucketRec, NEW x \in 0 .. Modulus - 1
  PROVE  LET e == [b EXCEPT !.value = x]
         IN  /\ e \in BucketRec /\ e.value = x
             /\ e.ready = b.ready /\ e.key = b.key /\ e.key_hash = b.key_hash
BY DEF BucketRec

(* A worker writes to one bucket and takes it from nobody.                 *)
LEMMA BucketWritten ==
  ASSUME IInv, NEW i \in Bucket, NEW e \in BucketRec,
         bucket' = [bucket EXCEPT ![i] = e],
         bucket[i].ready => e.ready /\ e.key = bucket[i].key /\ e.key_hash = bucket[i].key_hash,
         e.ready => e.key_hash # 0 /\ e.key \in Keys,
         UNCHANGED items
  PROVE  /\ bucket \in Table /\ bucket' \in Table
         /\ bucket'[i] = e
         /\ \A j \in Bucket \ {i} : bucket'[j] = bucket[j]
         /\ Owned' /\ Uploaded'
         /\ \A k : Stored(k)' - Stored(k) = ValueIn(e, k) - ValueIn(bucket[i], k)
<1>1. bucket \in Table
  BY DEF IInv, TypeOK, Table, BucketRec
<1>2. bucket' \in Table
  BY <1>1 DEF Table
<1>3. bucket'[i] = e /\ \A j \in Bucket \ {i} : bucket'[j] = bucket[j]
  BY <1>1 DEF Table
<1>4. Owned'
  BY <1>3 DEF Owned, IInv
<1>5. \A j \in Bucket : bucket[j].ready => bucket'[j].ready /\ bucket'[j].key = bucket[j].key
  BY <1>3
<1>6. Uploaded'
  BY <1>5 DEF Uploaded, IInv
<1>7. ASSUME NEW k
      PROVE  Stored(k)' - Stored(k) = ValueIn(e, k) - ValueIn(bucket[i], k)
  <2>1. /\ StoredIn(bucket', k) =
             StoredIn(bucket, k) + ValueIn(e, k) - ValueIn(bucket[i], k)
        /\ StoredIn(bucket, k) \in Nat
    <3>1. \A j \in Bucket \ {i} : bucket'[j] = bucket[j]
      BY <1>3
    <3>2. bucket'[i] = e
      BY <1>3
    <3>3. QED
      BY <1>1, <1>2, <3>1, <3>2, StoredChange
  <2>2. Stored(k)' = StoredIn(bucket', k) /\ Stored(k) = StoredIn(bucket, k)
    BY DEF Stored, StoredIn
  <2>3. e \in BucketRec /\ bucket[i] \in BucketRec /\ Modulus \in Nat
    BY <1>1, SizeAssumption DEF Table
  <2>4. ValueIn(e, k) \in Nat /\ ValueIn(bucket[i], k) \in Nat
    BY <2>3 DEF ValueIn, BucketRec
  <2>5. QED
    BY <2>1, <2>2, <2>4
<1>8. QED
  BY <1>1, <1>2, <1>3, <1>4, <1>6, <1>7


(* Filling survives a step of w in which no other worker moves.            *)
LEMMA FillingStep ==
  ASSUME IInv, NEW w \in Workers, NEW p,
         pc' = [pc EXCEPT ![w] = p], UNCHANGED <<key, idx>>,
         p # "idle" => key[w] \in Keys,
         p = "fill" => ~ bucket'[idx[w]].ready /\ bucket'[idx[w]].key_hash # 0,
         \A v \in Workers \ {w} : pc[v] = "fill" =>
           /\ p = "fill" => idx[v] # idx[w]
           /\ bucket'[idx[v]] = bucket[idx[v]]
  PROVE  Filling'
<1>1. pc'[w] = p /\ \A v \in Workers \ {w} : pc'[v] = pc[v]
  BY DEF IInv, TypeOK
<1>2. \A v \in Workers : key'[v] = key[v] /\ idx'[v] = idx[v]
  OBVIOUS
<1>3. QED
  BY <1>1, <1>2 DEF Filling, IInv

LEMMA CountOne ==
  ASSUME TypeOK, NEW q \in Keys, counted' = [counted EXCEPT ![q] = @ + 1], NEW k \in Keys
  PROVE  counted'[k] - counted[k] = IF k = q THEN 1 ELSE 0
BY DEF TypeOK

LEMMA AddToBucketStep ==
  ASSUME IInv, NEW w \in Workers, AddToBucket(w)
  PROVE  IInv'
<1> DEFINE i == idx[w]
           q == key[w]
           v == bucket[i].value
           e == [bucket[i] EXCEPT !.value = (v + 1) % Modulus]
<1>1. i \in Bucket /\ bucket[i] \in BucketRec /\ q \in Keys
  BY DEF IInv, TypeOK, AddToBucket, Filling, BucketRec
<1>2. v \in Int /\ ((v + 1) % Modulus) \in 0 .. Modulus - 1
  <2>1. v \in Int /\ v + 1 \in Int
    BY <1>1, SizeAssumption DEF BucketRec
  <2> HIDE DEF v
  <2>2. QED
    BY <2>1, WordOf
<1>3. bucket' = [bucket EXCEPT ![i] = e]
  BY <1>1 DEF AddToBucket, IInv, TypeOK
<1>4. /\ bucket[i].ready /\ bucket[i].key = q
      /\ counted' = [counted EXCEPT ![q] = @ + 1]
      /\ pc' = [pc EXCEPT ![w] = "idle"] /\ UNCHANGED <<key, idx>>
      /\ UNCHANGED <<push, at, items, accepted, repeated, pushes, late, crashes>>
  BY DEF AddToBucket, Done, push_vars
<1>5. /\ e \in BucketRec /\ e.ready /\ e.key = q /\ e.key_hash = bucket[i].key_hash
      /\ e.value = (v + 1) % Modulus
  <2> DEFINE x == (v + 1) % Modulus
  <2>1. x \in 0 .. Modulus - 1
    BY <1>2
  <2>2. e = [bucket[i] EXCEPT !.value = x]
    OBVIOUS
  <2> HIDE DEF x, e, i
  <2>3. QED
    BY <1>1, <1>4, <2>1, <2>2, ValueWritten DEF x
<1>6. bucket[i].key_hash # 0
  BY <1>1, <1>4 DEF IInv, Owned
<1> HIDE DEF e
<1>7. /\ bucket \in Table /\ bucket' \in Table /\ bucket'[i] = e
      /\ \A j \in Bucket \ {i} : bucket'[j] = bucket[j]
      /\ Owned' /\ Uploaded'
      /\ \A k : Stored(k)' - Stored(k) = ValueIn(e, k) - ValueIn(bucket[i], k)
  <2>1. items' = items
    BY <1>4
  <2>2. bucket[i].ready => e.ready /\ e.key = bucket[i].key /\ e.key_hash = bucket[i].key_hash
    BY <1>4, <1>5
  <2>3. e.ready => e.key_hash # 0 /\ e.key \in Keys
    BY <1>1, <1>5, <1>6
  <2> HIDE DEF i
  <2>4. QED
    BY <1>1, <1>3, <1>5, <2>1, <2>2, <2>3, BucketWritten
<1>8. TypeOK'
  <2>1. counted' \in [Keys -> Nat] /\ pc' \in [Workers -> {"idle", "load", "claim", "fill"}]
    BY <1>1, <1>4 DEF IInv, TypeOK
  <2>2. QED
    BY <1>4, <1>7, <2>1 DEF IInv, TypeOK, Table, BucketRec
<1>9. Filling'
  <2>1. \A u \in Workers \ {w} : pc[u] = "fill" => idx[u] \in Bucket \ {i}
    BY <1>4 DEF IInv, Filling, TypeOK
  <2>2. \A u \in Workers \ {w} : pc[u] = "fill" => bucket'[idx[u]] = bucket[idx[u]]
    BY <1>7, <2>1
  <2>3. QED
    <3>1. \A u \in Workers \ {w} : pc[u] = "fill" =>
            /\ "idle" = "fill" => idx[u] # idx[w]
            /\ bucket'[idx[u]] = bucket[idx[u]]
      BY <2>2
    <3>2. "idle" # "fill" /\ "idle" # "idle" => key[w] \in Keys
      OBVIOUS
    <3>3. pc' = [pc EXCEPT ![w] = "idle"] /\ UNCHANGED <<key, idx>>
      BY <1>4
    <3>4. QED
      BY <3>1, <3>2, <3>3, FillingStep, Zenon
<1>10. Balance'
  <2> SUFFICES ASSUME NEW k \in Keys
               PROVE  Congruent((Stored(k)' - Stored(k)) + (accepted'[k] - accepted[k])
                                  - (Pending(k)' - Pending(k)),
                                (counted'[k] - counted[k]) + (repeated'[k] - repeated[k]))
    BY <1>8, BalanceStep DEF IInv
  <2>1. Pending(k)' = Pending(k) /\ accepted'[k] = accepted[k] /\ repeated'[k] = repeated[k]
    BY <1>4 DEF Pending, ValuesOf
  <2>2. Pending(k) \in Nat /\ accepted[k] \in Nat /\ repeated[k] \in Nat
    BY Numbers DEF IInv
  <2>3. counted'[k] - counted[k] = IF k = q THEN 1 ELSE 0
    BY <1>1, <1>4, CountOne DEF IInv
  <2>4. ValueIn(e, k) = IF k = q THEN (v + 1) % Modulus ELSE 0
    BY <1>5 DEF ValueIn
  <2>5. ValueIn(bucket[i], k) = IF k = q THEN v ELSE 0
    BY <1>4 DEF ValueIn
  <2> DEFINE x == (v + 1) % Modulus
  <2>6. x \in Int /\ Congruent(x - v, 1)
    <3>1. v \in Int /\ 1 \in Int
      BY <1>2
    <3>2. x \in 0 .. Modulus - 1
      BY <1>2
    <3> HIDE DEF v
    <3>3. Congruent(x - v, 1)
      BY <3>1, WordChange
    <3> HIDE DEF x
    <3>4. QED
      BY <3>2, <3>3, SizeAssumption
  <2>7. Stored(k)' - Stored(k) = ValueIn(e, k) - ValueIn(bucket[i], k)
    BY <1>7
  <2> HIDE DEF x, v, i
  <2>8. CASE k = q
    <3>1. Stored(k)' - Stored(k) = x - v
      BY <2>4, <2>5, <2>7, <2>8 DEF x
    <3>2. (x - v) + (accepted'[k] - accepted[k]) - (Pending(k)' - Pending(k)) = x - v
      BY <1>2, <2>1, <2>2, <2>6
    <3>3. (counted'[k] - counted[k]) + (repeated'[k] - repeated[k]) = 1
      BY <2>1, <2>2, <2>3, <2>8
    <3>4. QED
      BY <2>6, <3>1, <3>2, <3>3
  <2>9. CASE k # q
    <3>1. Stored(k)' - Stored(k) = 0
      BY <2>4, <2>5, <2>7, <2>9
    <3>2. 0 + (accepted'[k] - accepted[k]) - (Pending(k)' - Pending(k)) = 0
      BY <2>1, <2>2
    <3>3. (counted'[k] - counted[k]) + (repeated'[k] - repeated[k]) = 0
      BY <2>1, <2>2, <2>3, <2>9
    <3>4. QED
      BY <3>1, <3>2, <3>3, CongruentSame
  <2>10. QED
    BY <2>8, <2>9
<1>11. QED
  BY <1>7, <1>8, <1>9, <1>10 DEF IInv


(* The claim: nobody else fills the bucket, since it was vacant.           *)
LEMMA ClaimStep ==
  ASSUME IInv, NEW w \in Workers, ClaimBucket(w)
  PROVE  IInv'
<1> DEFINE i == idx[w]
           q == key[w]
           e == [bucket[i] EXCEPT !.key_hash = Hash[q]]
<1>0. pc[w] = "claim" /\ crashes' \in Nat /\ UNCHANGED <<push_vars, counted>>
  BY DEF ClaimBucket, IInv, TypeOK
<1>1. CASE bucket[i].key_hash # 0
  <2>1. Advance(w) /\ UNCHANGED bucket
    BY <1>1 DEF ClaimBucket
  <2>2. QED
    BY <1>0, <2>1, AdvanceStep
<1>2. CASE bucket[i].key_hash = 0
  <2>1. i \in Bucket /\ bucket[i] \in BucketRec /\ q \in Keys /\ bucket \in Table
    BY <1>0 DEF IInv, TypeOK, Filling, BucketRec, Table
  <2>2. Hash[q] \in Nat \ {0}
    BY <2>1, KeyAssumption
  <2>3. ~ bucket[i].ready
    BY <1>2, <2>1 DEF IInv, Owned
  <2>4. /\ bucket' = [bucket EXCEPT ![i] = e]
        /\ pc' = [pc EXCEPT ![w] = "fill"] /\ UNCHANGED <<key, idx>>
    BY <1>2, <2>1 DEF ClaimBucket, Table
  <2>5. e \in BucketRec /\ e.ready = bucket[i].ready /\ e.key_hash # 0
    BY <2>1, <2>2 DEF BucketRec
  <2> HIDE DEF e
  <2>6. UNCHANGED <<push, at, items, accepted, repeated, pushes, late, counted, crashes>>
    BY DEF ClaimBucket, push_vars
  <2>7. /\ bucket' \in Table /\ bucket'[i] = e
        /\ \A j \in Bucket \ {i} : bucket'[j] = bucket[j]
        /\ Owned' /\ Uploaded'
        /\ \A k : Stored(k)' - Stored(k) = ValueIn(e, k) - ValueIn(bucket[i], k)
    <3> HIDE DEF i
    <3> QED
      BY <2>1, <2>3, <2>4, <2>5, <2>6, BucketWritten
  <2>8. TypeOK'
    <3>1. pc' \in [Workers -> {"idle", "load", "claim", "fill"}]
      BY <2>4 DEF IInv, TypeOK
    <3>2. QED
      BY <2>4, <2>6, <2>7, <3>1 DEF IInv, TypeOK, Table, BucketRec
  <2>9. Filling'
    <3>1. \A u \in Workers \ {w} : pc[u] = "fill" => idx[u] \in Bucket \ {i}
      BY <1>2 DEF IInv, Filling, TypeOK
    <3>2. \A u \in Workers \ {w} : pc[u] = "fill" =>
            /\ "fill" = "fill" => idx[u] # idx[w]
            /\ bucket'[idx[u]] = bucket[idx[u]]
      BY <2>7, <3>1
    <3>3. ~ bucket'[idx[w]].ready /\ bucket'[idx[w]].key_hash # 0
      BY <2>3, <2>5, <2>7
    <3>4. key[w] \in Keys
      BY <2>1
    <3>5. QED
      BY <2>4, <3>2, <3>3, <3>4, FillingStep, Zenon
  <2>10. Balance'
    <3> SUFFICES ASSUME NEW k \in Keys
                 PROVE  Congruent((Stored(k)' - Stored(k)) + (accepted'[k] - accepted[k])
                                    - (Pending(k)' - Pending(k)),
                                  (counted'[k] - counted[k]) + (repeated'[k] - repeated[k]))
      BY <2>8, BalanceStep DEF IInv
    <3>1. Pending(k)' = Pending(k) /\ accepted' = accepted /\ repeated' = repeated
          /\ counted' = counted
      BY <2>6 DEF Pending, ValuesOf
    <3>2. Pending(k) \in Nat /\ accepted[k] \in Nat /\ repeated[k] \in Nat /\ counted[k] \in Nat
      BY Numbers DEF IInv
    <3>3. ValueIn(e, k) = 0 /\ ValueIn(bucket[i], k) = 0
      BY <2>3, <2>5 DEF ValueIn
    <3>4. Stored(k)' - Stored(k) = 0
      BY <2>7, <3>3
    <3>5. /\ 0 + (accepted'[k] - accepted[k]) - (Pending(k)' - Pending(k)) = 0
          /\ (counted'[k] - counted[k]) + (repeated'[k] - repeated[k]) = 0
      BY <3>1, <3>2
    <3>6. QED
      BY <3>4, <3>5, CongruentSame
  <2>11. QED
    BY <2>7, <2>8, <2>9, <2>10 DEF IInv
<1>3. QED
  BY <1>1, <1>2

LEMMA FilledBucket ==
  ASSUME NEW b \in BucketRec, NEW q \in Keys
  PROVE  LET e == [b EXCEPT !.key = q, !.value = 1, !.ready = TRUE]
         IN  /\ e \in BucketRec /\ e.value = 1
             /\ e.ready /\ e.key = q /\ e.key_hash = b.key_hash
<1> DEFINE Value == 0 .. Modulus - 1
           Key == Keys \union {NoKey}
           e == [b EXCEPT !.key = q, !.value = 1, !.ready = TRUE]
<1>1. BucketRec = [key_hash : Nat, key : Key, value : Value, ready : BOOLEAN]
  BY Zenon DEF BucketRec
<1>2. 1 \in Value /\ q \in Key
  BY SizeAssumption
<1> HIDE DEF Value, Key
<1>3. e \in BucketRec
  BY <1>1, <1>2, Zenon
<1>4. e.value = 1 /\ e.key = q /\ e.key_hash = b.key_hash
  BY <1>1, <1>2, SMT
<1>5. e.ready
  BY <1>1, <1>2, SMT
<1>6. QED
  BY <1>3, <1>4, <1>5, Zenon

(* The owner fills its bucket with its first count.                        *)
LEMMA FillStep ==
  ASSUME IInv, NEW w \in Workers, FillBucket(w)
  PROVE  IInv'
<1> DEFINE i == idx[w]
           q == key[w]
           e == [bucket[i] EXCEPT !.key = q, !.value = 1, !.ready = TRUE]
<1>1. /\ i \in Bucket /\ bucket[i] \in BucketRec /\ q \in Keys /\ bucket \in Table
      /\ ~ bucket[i].ready /\ bucket[i].key_hash # 0 /\ pc[w] = "fill"
  BY DEF IInv, TypeOK, FillBucket, Filling, BucketRec, Table
<1>2. bucket' = [bucket EXCEPT ![i] = e]
  BY <1>1 DEF FillBucket, Table
<1>3. /\ counted' = [counted EXCEPT ![q] = @ + 1]
      /\ pc' = [pc EXCEPT ![w] = "idle"] /\ UNCHANGED <<key, idx>>
      /\ UNCHANGED <<push, at, items, accepted, repeated, pushes, late, crashes>>
  BY DEF FillBucket, Done, push_vars
<1>4. e \in BucketRec /\ e.value = 1 /\ e.ready /\ e.key = q /\ e.key_hash = bucket[i].key_hash
  <2> HIDE DEF i, q
  <2> QED
    BY <1>1, FilledBucket
<1> HIDE DEF e
<1>5. /\ bucket' \in Table /\ bucket'[i] = e
      /\ \A j \in Bucket \ {i} : bucket'[j] = bucket[j]
      /\ Owned' /\ Uploaded'
      /\ \A k : Stored(k)' - Stored(k) = ValueIn(e, k) - ValueIn(bucket[i], k)
  <2>1. e.ready => e.key_hash # 0 /\ e.key \in Keys
    BY <1>1, <1>4
  <2> HIDE DEF i, q
  <2>2. QED
    BY <1>1, <1>2, <1>3, <1>4, <2>1, BucketWritten
<1>6. TypeOK'
  <2>1. counted' \in [Keys -> Nat] /\ pc' \in [Workers -> {"idle", "load", "claim", "fill"}]
    BY <1>1, <1>3 DEF IInv, TypeOK
  <2>2. QED
    BY <1>3, <1>5, <2>1 DEF IInv, TypeOK, Table, BucketRec
<1>7. Filling'
  <2>1. \A u \in Workers \ {w} : pc[u] = "fill" => idx[u] \in Bucket \ {i}
    BY <1>1 DEF IInv, Filling, TypeOK
  <2>2. \A u \in Workers \ {w} : pc[u] = "fill" =>
          /\ "idle" = "fill" => idx[u] # idx[w]
          /\ bucket'[idx[u]] = bucket[idx[u]]
    BY <1>5, <2>1
  <2>3. "idle" # "fill" /\ "idle" # "idle" => key[w] \in Keys
    OBVIOUS
  <2>4. QED
    BY <1>3, <2>2, <2>3, FillingStep, Zenon
<1>8. Balance'
  <2> SUFFICES ASSUME NEW k \in Keys
               PROVE  Congruent((Stored(k)' - Stored(k)) + (accepted'[k] - accepted[k])
                                  - (Pending(k)' - Pending(k)),
                                (counted'[k] - counted[k]) + (repeated'[k] - repeated[k]))
    BY <1>6, BalanceStep DEF IInv
  <2>1. Pending(k)' = Pending(k) /\ accepted'[k] = accepted[k] /\ repeated'[k] = repeated[k]
    BY <1>3 DEF Pending, ValuesOf
  <2>2. Pending(k) \in Nat /\ accepted[k] \in Nat /\ repeated[k] \in Nat
    BY Numbers DEF IInv
  <2> DEFINE n == IF k = q THEN 1 ELSE 0
  <2>3. counted'[k] - counted[k] = n
    BY <1>1, <1>3, CountOne DEF IInv
  <2>4. ValueIn(e, k) = n /\ ValueIn(bucket[i], k) = 0
    BY <1>1, <1>4 DEF ValueIn
  <2>5. n \in Int
    OBVIOUS
  <2> HIDE DEF n
  <2>6. Stored(k)' - Stored(k) = n
    BY <1>5, <2>4, <2>5
  <2>7. /\ n + (accepted'[k] - accepted[k]) - (Pending(k)' - Pending(k)) = n
        /\ n + (repeated'[k] - repeated[k]) = n
    BY <2>1, <2>2, <2>5
  <2>8. QED
    BY <2>3, <2>5, <2>6, <2>7, CongruentSame
<1>9. QED
  BY <1>5, <1>6, <1>7, <1>8 DEF IInv

-----------------------------------------------------------------------------
(* The steps of the poller.                                                *)

(* It goes on without writing to a bucket, and what it has to subtract     *)
(* changes by what LAPI accepts and is not to be repeated.                 *)
LEMMA PollerMoves ==
  ASSUME IInv, TypeOK', Uploaded', UNCHANGED <<bucket, pc, key, idx, counted>>,
         \A k \in Keys : (accepted'[k] - accepted[k]) - (Pending(k)' - Pending(k))
                           = repeated'[k] - repeated[k]
  PROVE  IInv'
<1>1. Owned' /\ Filling'
  BY DEF IInv, Owned, Filling
<1>2. Balance'
  <2> SUFFICES ASSUME NEW k \in Keys
               PROVE  Congruent((Stored(k)' - Stored(k)) + (accepted'[k] - accepted[k])
                                  - (Pending(k)' - Pending(k)),
                                (counted'[k] - counted[k]) + (repeated'[k] - repeated[k]))
    BY BalanceStep DEF IInv
  <2>1. Stored(k)' = Stored(k) /\ counted'[k] = counted[k]
    BY DEF Stored
  <2>2. /\ Stored(k) \in Nat /\ Pending(k) \in Nat
        /\ accepted[k] \in Nat /\ counted[k] \in Nat /\ repeated[k] \in Nat
    BY Numbers DEF IInv
  <2>3. Pending(k)' \in Nat /\ accepted'[k] \in Nat /\ repeated'[k] \in Nat
    <3>1. items' \in Seq(Item)
      BY DEF TypeOK, Item
    <3>2. ValuesOf(k)' \in Nat
      BY <3>1, SumOfNat DEF ValuesOf, SumOf
    <3>3. QED
      BY <3>2 DEF Pending, TypeOK
  <2>4. (Stored(k)' - Stored(k)) + (accepted'[k] - accepted[k]) - (Pending(k)' - Pending(k))
          = repeated'[k] - repeated[k]
    <3>1. (accepted'[k] - accepted[k]) - (Pending(k)' - Pending(k)) = repeated'[k] - repeated[k]
      OBVIOUS
    <3>2. QED
      BY <2>1, <2>2, <2>3, <3>1
  <2>5. (counted'[k] - counted[k]) + (repeated'[k] - repeated[k]) = repeated'[k] - repeated[k]
    BY <2>1, <2>2, <2>3
  <2>6. repeated'[k] - repeated[k] \in Int
    BY <2>2, <2>3
  <2>7. QED
    BY <2>4, <2>5, <2>6, CongruentSame
<1>3. QED
  BY <1>1, <1>2 DEF IInv

(* It has nothing to subtract, before and after.                           *)
LEMMA NothingPending ==
  ASSUME IInv, TypeOK', Uploaded',
         UNCHANGED <<bucket, pc, key, idx, counted, accepted, repeated>>,
         \A k \in Keys : Pending(k)' = Pending(k)
  PROVE  IInv'
<1>1. ASSUME NEW k \in Keys
      PROVE  (accepted'[k] - accepted[k]) - (Pending(k)' - Pending(k)) = repeated'[k] - repeated[k]
  <2>1. Pending(k) \in Nat /\ accepted[k] \in Nat /\ repeated[k] \in Nat
    BY Numbers DEF IInv
  <2>2. QED
    BY <2>1
<1>2. QED
  BY <1>1, PollerMoves

LEMMA NoItems ==
  ASSUME NEW k \in Keys
  PROVE  items = <<>> => ValuesOf(k) = 0
BY SumOfEmpty DEF ValuesOf, SumOf

LEMMA BeginPushStep ==
  ASSUME IInv, BeginPush
  PROVE  IInv'
<1>1. /\ push = "idle" /\ push' = "collect" /\ at' = 0 /\ items' = <<>>
      /\ pushes' = pushes + 1
      /\ UNCHANGED <<bucket, pc, key, idx, counted, accepted, repeated, crashes, late>>
  BY DEF BeginPush, inc_vars
<1>2. TypeOK'
  BY <1>1, SizeAssumption DEF IInv, TypeOK
<1>3. Uploaded'
  BY <1>1 DEF Uploaded
<1>4. \A k \in Keys : Pending(k)' = Pending(k)
  BY <1>1 DEF Pending
<1>5. QED
  BY <1>1, <1>2, <1>3, <1>4, NothingPending

(* A bucket that is ready is in the snapshot with its key.                 *)
LEMMA CollectStep ==
  ASSUME IInv, Collect
  PROVE  IInv'
<1> DEFINE b == bucket[at]
           it == [key |-> b.key, value |-> b.value]
<1>1. /\ push = "collect" /\ push' = push /\ at' = at + 1 /\ at < MAX_BUCKETS
      /\ items' = IF b.ready /\ b.value # 0 THEN Append(items, it) ELSE items
      /\ UNCHANGED <<bucket, pc, key, idx, counted, accepted, repeated, pushes, crashes, late>>
  BY DEF Collect, inc_vars
<1>2. at \in Bucket /\ at + 1 \in 0 .. MAX_BUCKETS
  BY <1>1, SizeAssumption DEF IInv, TypeOK, Bucket
<1>3. b \in BucketRec /\ items \in Seq(Item)
  BY <1>2 DEF IInv, TypeOK, BucketRec, Item
<1>4. \A k \in Keys : Pending(k)' = Pending(k)
  BY <1>1 DEF Pending
<1>5. items' \in Seq(Item) /\ Uploaded'
  <2>1. CASE b.ready /\ b.value # 0
    <3>1. it \in Item
      <4>1. b.key \in Keys
        BY <1>2, <2>1 DEF IInv, Owned
      <4>2. b.value \in 1 .. Modulus - 1
        BY <1>3, <2>1, SizeAssumption DEF BucketRec
      <4>3. QED
        BY <4>1, <4>2 DEF Item
    <3>2. items' = Append(items, it)
      BY <1>1, <2>1
    <3>3. it.key = b.key
      OBVIOUS
    <3> HIDE DEF it
    <3>4. items' \in Seq(Item) /\ Len(items') = Len(items) + 1
          /\ items'[Len(items) + 1] = it
          /\ \A n \in 1 .. Len(items) : items'[n] = items[n]
      BY <1>3, <3>1, <3>2
    <3>5. Uploaded'
      <4> SUFFICES ASSUME NEW n \in 1 .. Len(items')
                   PROVE  \E i \in Bucket : bucket[i].ready /\ bucket[i].key = items'[n].key
        BY <1>1 DEF Uploaded
      <4>1. CASE n = Len(items) + 1
        BY <1>2, <2>1, <3>3, <3>4, <4>1
      <4>2. CASE n # Len(items) + 1
        <5>1. n \in 1 .. Len(items) /\ items'[n] = items[n]
          BY <1>3, <3>4, <4>2
        <5>2. QED
          BY <5>1 DEF IInv, Uploaded
      <4>3. QED
        BY <4>1, <4>2
    <3>6. QED
      BY <3>4, <3>5
  <2>2. CASE ~ (b.ready /\ b.value # 0)
    <3>1. items' = items
      BY <1>1, <2>2
    <3>2. QED
      BY <1>1, <1>3, <3>1 DEF IInv, Uploaded
  <2>3. QED
    BY <2>1, <2>2
<1>6. TypeOK'
  BY <1>1, <1>2, <1>5 DEF IInv, TypeOK, Item
<1>7. QED
  BY <1>1, <1>4, <1>5, <1>6, NothingPending

(* LAPI has accepted the snapshot.                                         *)
LEMMA PostedStep ==
  ASSUME IInv, Posted
  PROVE  IInv'
<1>1. /\ push = "collect" /\ push' = IF items = <<>> THEN "idle" ELSE "reset"
      /\ accepted' = [k \in Keys |-> accepted[k] + ValuesOf(k)]
      /\ UNCHANGED <<bucket, pc, key, idx, at, items, counted, repeated, pushes, crashes, late>>
  BY DEF Posted, inc_vars
<1>2. \A k \in Keys : ValuesOf(k) \in Nat
  BY SumOfNat DEF IInv, TypeOK, ValuesOf, SumOf, Item
<1>3. accepted' \in [Keys -> Nat]
  BY <1>1, <1>2 DEF IInv, TypeOK
<1>4. TypeOK'
  BY <1>1, <1>3 DEF IInv, TypeOK
<1>5. Uploaded'
  BY <1>1 DEF IInv, Uploaded
<1>6. ASSUME NEW k \in Keys
      PROVE  (accepted'[k] - accepted[k]) - (Pending(k)' - Pending(k)) = repeated'[k] - repeated[k]
  <2>1. Pending(k) = 0
    BY <1>1 DEF Pending
  <2>2. Pending(k)' = ValuesOf(k)
    <3>1. ValuesOf(k)' = ValuesOf(k)
      BY <1>1 DEF ValuesOf
    <3>2. QED
      BY <1>1, <3>1, NoItems DEF Pending
  <2>3. accepted'[k] = accepted[k] + ValuesOf(k) /\ repeated'[k] = repeated[k]
    BY <1>1
  <2>4. accepted[k] \in Nat /\ repeated[k] \in Nat /\ ValuesOf(k) \in Nat
    BY <1>2 DEF IInv, TypeOK
  <2>5. QED
    BY <2>1, <2>2, <2>3, <2>4
<1>7. QED
  BY <1>1, <1>4, <1>5, <1>6, PollerMoves

(* The snapshot is dropped; what LAPI has accepted of it will be repeated. *)
LEMMA DropStep ==
  ASSUME IInv, push' = "idle", items' = <<>>, crashes' \in Nat, late' \in Nat,
         NEW x, NEW y, \A k \in Keys : x[k] \in Nat /\ y[k] \in Nat,
         accepted' = [k \in Keys |-> accepted[k] + x[k]],
         repeated' = [k \in Keys |-> repeated[k] + y[k]],
         \A k \in Keys : y[k] = x[k] + Pending(k),
         UNCHANGED <<bucket, pc, key, idx, at, counted, pushes>>
  PROVE  IInv'
<1>1. accepted' \in [Keys -> Nat] /\ repeated' \in [Keys -> Nat]
  BY DEF IInv, TypeOK
<1>2. TypeOK'
  BY <1>1 DEF IInv, TypeOK
<1>3. Uploaded'
  BY DEF Uploaded
<1>4. ASSUME NEW k \in Keys
      PROVE  (accepted'[k] - accepted[k]) - (Pending(k)' - Pending(k)) = repeated'[k] - repeated[k]
  <2>1. Pending(k)' = 0
    BY DEF Pending
  <2>2. /\ accepted'[k] = accepted[k] + x[k] /\ repeated'[k] = repeated[k] + y[k]
        /\ y[k] = x[k] + Pending(k) /\ x[k] \in Nat
    OBVIOUS
  <2>3. accepted[k] \in Nat /\ repeated[k] \in Nat /\ Pending(k) \in Nat
    BY Numbers DEF IInv
  <2>4. QED
    BY <2>1, <2>2, <2>3
<1>5. QED
  BY <1>2, <1>3, <1>4, PollerMoves

LEMMA PostedLateStep ==
  ASSUME IInv, PostedLate
  PROVE  IInv'
<1> DEFINE x == [k \in Keys |-> ValuesOf(k)]
<1>1. /\ push = "collect" /\ push' = "idle" /\ items' = <<>> /\ late' = late + 1
      /\ UNCHANGED <<bucket, pc, key, idx, at, counted, pushes, crashes>>
      /\ accepted' = [k \in Keys |-> accepted[k] + x[k]]
      /\ repeated' = [k \in Keys |-> repeated[k] + x[k]]
  BY DEF PostedLate, inc_vars
<1>2. \A k \in Keys : x[k] \in Nat
  BY SumOfNat DEF IInv, TypeOK, ValuesOf, SumOf, Item
<1>3. \A k \in Keys : x[k] = x[k] + Pending(k)
  BY <1>1, <1>2 DEF Pending
<1>4. crashes' \in Nat /\ late' \in Nat
  BY <1>1 DEF IInv, TypeOK
<1> HIDE DEF x
<1>5. QED
  BY <1>1, <1>2, <1>3, <1>4, DropStep

LEMMA PostFailedStep ==
  ASSUME IInv, PostFailed
  PROVE  IInv'
<1>1. /\ push = "collect" /\ push' = "idle" /\ items' = <<>>
      /\ UNCHANGED <<bucket, pc, key, idx, at, counted, accepted, repeated, pushes, crashes, late>>
  BY DEF PostFailed, inc_vars
<1>2. TypeOK'
  BY <1>1 DEF IInv, TypeOK
<1>3. Uploaded'
  BY <1>1 DEF Uploaded
<1>4. \A k \in Keys : Pending(k)' = Pending(k)
  BY <1>1 DEF Pending
<1>5. QED
  BY <1>1, <1>2, <1>3, <1>4, NothingPending

LEMMA EndPushStep ==
  ASSUME IInv, EndPush
  PROVE  IInv'
<1>1. /\ push = "reset" /\ push' = "idle" /\ items = <<>>
      /\ UNCHANGED <<bucket, pc, key, idx, at, items, counted, accepted, repeated, pushes, crashes, late>>
  BY DEF EndPush, inc_vars
<1>2. TypeOK'
  BY <1>1 DEF IInv, TypeOK
<1>3. Uploaded'
  BY <1>1 DEF IInv, Uploaded
<1>4. \A k \in Keys : Pending(k)' = Pending(k)
  BY <1>1, NoItems DEF Pending
<1>5. QED
  BY <1>1, <1>2, <1>3, <1>4, NothingPending

LEMMA KillPollerStep ==
  ASSUME IInv, KillPoller
  PROVE  IInv'
<1> DEFINE x == [k \in Keys |-> 0]
           y == [k \in Keys |-> Pending(k)]
<1>1. /\ push' = "idle" /\ items' = <<>> /\ crashes' = crashes + 1
      /\ UNCHANGED <<bucket, pc, key, idx, at, counted, accepted, pushes, late>>
      /\ repeated' = [k \in Keys |-> repeated[k] + y[k]]
  BY DEF KillPoller, inc_vars
<1>2. accepted' = [k \in Keys |-> accepted[k] + x[k]]
  BY <1>1 DEF IInv, TypeOK
<1>3. \A k \in Keys : x[k] \in Nat /\ y[k] \in Nat /\ y[k] = x[k] + Pending(k)
  BY Numbers DEF IInv
<1>4. crashes' \in Nat /\ late' \in Nat
  BY <1>1 DEF IInv, TypeOK
<1> HIDE DEF x, y
<1>5. QED
  BY <1>1, <1>2, <1>3, <1>4, DropStep

(* How far a bucket is from the home of a key: a different distance for    *)
(* each bucket.                                                            *)
LEMMA Distance ==
  ASSUME NEW h \in Bucket, NEW i \in Bucket
  PROVE  (i - h) % MAX_BUCKETS = IF i >= h THEN i - h ELSE (i - h) + MAX_BUCKETS
<1>1. MAX_BUCKETS \in Nat \ {0} /\ h \in 0 .. MAX_BUCKETS - 1 /\ i \in 0 .. MAX_BUCKETS - 1
  BY SizeAssumption DEF Bucket
<1>2. ASSUME NEW n \in 0 .. MAX_BUCKETS - 1 PROVE (n % MAX_BUCKETS) = n
  BY <1>1
<1>3. CASE i >= h
  <2>1. i - h \in 0 .. MAX_BUCKETS - 1
    BY <1>1, <1>3
  <2>2. QED
    BY <1>2, <1>3, <2>1
<1>4. CASE i < h
  <2> DEFINE x == i - h
             q == x \div MAX_BUCKETS
             r == x % MAX_BUCKETS
  <2>1. x \in Int /\ x < 0 /\ x > -MAX_BUCKETS
    BY <1>1, <1>4
  <2> HIDE DEF x
  <2>2. q \in Int /\ r \in 0 .. MAX_BUCKETS - 1 /\ x = (MAX_BUCKETS * q) + r
    BY <1>1, <2>1
  <2> HIDE DEF q, r
  <2>3. (MAX_BUCKETS * q) \in Int
    BY <1>1, <2>2
  <2>4. (MAX_BUCKETS * q) < 0 /\ (MAX_BUCKETS * q) > -(MAX_BUCKETS + MAX_BUCKETS)
    BY <1>1, <2>1, <2>2, <2>3
  <2>5. q = -1
    <3>1. CASE q >= 0
      <4>1. (MAX_BUCKETS * q) >= 0
        BY <1>1, <2>2, <3>1
      <4>2. QED
        BY <2>3, <2>4, <4>1
    <3>2. CASE q <= -2
      <4>1. (MAX_BUCKETS * q) <= -(MAX_BUCKETS + MAX_BUCKETS)
        BY <1>1, <2>2, <3>2
      <4>2. QED
        BY <1>1, <2>3, <2>4, <4>1
    <3>3. QED
      BY <2>2, <3>1, <3>2
  <2>6. (MAX_BUCKETS * q) = -MAX_BUCKETS
    BY <1>1, <2>5
  <2>7. r = x + MAX_BUCKETS
    BY <1>1, <2>1, <2>2, <2>6
  <2>8. ~ (i >= h)
    BY <1>1, <1>4
  <2>9. QED
    BY <2>7, <2>8 DEF r, x
<1>5. QED
  BY <1>1, <1>3, <1>4

(* A key that was uploaded has one first bucket.                           *)
LEMMA OneFirst ==
  ASSUME NEW k \in Keys, NEW i \in Bucket, bucket[i].ready, bucket[i].key = k
  PROVE  \E j \in Bucket : FirstOf(k) = {j} /\ bucket[j].ready /\ bucket[j].key = k
<1> DEFINE rank(n) == (n - home(k)) % MAX_BUCKETS
           hits == {n \in Bucket : bucket[n].ready /\ bucket[n].key = k}
           T == {rank(n) : n \in hits}
<1>1. home(k) \in Bucket /\ MAX_BUCKETS \in Nat \ {0}
  BY HomeBucket, SizeAssumption
<1>2. \A n \in Bucket : rank(n) = IF n >= home(k) THEN n - home(k)
                                   ELSE (n - home(k)) + MAX_BUCKETS
  BY <1>1, Distance
<1> DEFINE h == home(k)
<1>3. /\ \A n \in Bucket : rank(n) \in Nat
      /\ \A m, n \in Bucket : rank(m) <= rank(n) /\ rank(n) <= rank(m) => m = n
  <2> HIDE DEF rank
  <2>1. h \in 0 .. MAX_BUCKETS - 1 /\ Bucket = 0 .. MAX_BUCKETS - 1
    BY <1>1 DEF Bucket
  <2>2. \A n \in 0 .. MAX_BUCKETS - 1 : rank(n) = IF n >= h THEN n - h ELSE (n - h) + MAX_BUCKETS
    BY <1>2, <2>1
  <2> HIDE DEF h
  <2>3. QED
    BY <1>1, <2>1, <2>2
<1>4. FirstOf(k) = {n \in hits : \A m \in hits : rank(n) <= rank(m)}
  BY DEF FirstOf
<1> HIDE DEF rank
<1>5. T \subseteq Nat /\ T # {}
  BY <1>3
<1>6. PICK t \in T : \A s \in T : t <= s
  BY <1>5, LeastNat
<1>7. PICK j \in hits : t = rank(j)
  BY <1>6
<1>8. \A m \in hits : rank(j) <= rank(m)
  BY <1>6, <1>7
<1>9. FirstOf(k) = {j}
  <2>1. j \in FirstOf(k)
    BY <1>4, <1>8, Zenon
  <2>2. ASSUME NEW n \in FirstOf(k) PROVE n = j
    <3>1. n \in hits /\ rank(n) <= rank(j) /\ rank(j) <= rank(n)
      BY <1>4, <1>7, <1>8, <2>2, Zenon
    <3>2. QED
      BY <1>3, <1>7, <3>1
  <2>3. QED
    BY <2>1, <2>2, Zenon
<1>10. QED
  BY <1>7, <1>9

(* What was uploaded of one bucket is subtracted from it: what is stored   *)
(* and what is to be subtracted change alike.                              *)
LEMMA ResetItemStep ==
  ASSUME IInv, ResetItem
  PROVE  IInv'
<1> DEFINE item == Head(items)
           q == item.key
           u == item.value
<1>1. /\ push = "reset" /\ items # <<>> /\ items' = Tail(items)
      /\ bucket' = [i \in Bucket |->
                      IF i \in FirstOf(q)
                      THEN [bucket[i] EXCEPT !.value = (@ - u) % Modulus] ELSE bucket[i]]
      /\ UNCHANGED <<pc, key, idx, push, at, counted, accepted, repeated, pushes, crashes, late>>
  BY DEF ResetItem, reset_after_push, Subtract, inc_vars
<1>2. items \in Seq(Item) /\ bucket \in Table
  BY DEF IInv, TypeOK, Item, Table, BucketRec
<1>3. /\ item \in Item /\ item = items[1] /\ 1 \in 1 .. Len(items)
      /\ items' \in Seq(Item) /\ Len(items) = Len(items') + 1 /\ Len(items') \in Nat
      /\ \A n \in 1 .. Len(items') : items'[n] = items[n + 1]
  BY <1>1, <1>2
<1>4. q \in Keys /\ u \in Nat
  BY <1>3, SizeAssumption DEF Item
<1>5. PICK j \in Bucket : FirstOf(q) = {j} /\ bucket[j].ready /\ bucket[j].key = q
  <2>1. PICK i \in Bucket : bucket[i].ready /\ bucket[i].key = q
    BY <1>3 DEF IInv, Uploaded
  <2> HIDE DEF q
  <2>2. QED
    BY <1>4, <2>1, OneFirst
<1> DEFINE v == bucket[j].value
           x == (v - u) % Modulus
           e == [bucket[j] EXCEPT !.value = x]
<1>6. bucket[j] \in BucketRec
  BY <1>2 DEF Table
<1>7. v \in Int /\ x \in 0 .. Modulus - 1 /\ x \in Int
      /\ Congruent(x - v, -u)
  <2>1. v \in Int
    BY <1>6, SizeAssumption DEF BucketRec
  <2> HIDE DEF v, u
  <2>2. v - u \in Int /\ v + (-u) = v - u /\ -u \in Int
    BY <1>4, <2>1
  <2>3. x \in 0 .. Modulus - 1
    BY <2>2, WordOf
  <2>4. Congruent(((v + (-u)) % Modulus) - v, -u)
    BY <2>1, <2>2, WordChange
  <2>5. Congruent(x - v, -u)
    BY <2>2, <2>4
  <2>6. x \in Int
    BY <2>3, SizeAssumption
  <2>7. QED
    BY <2>1, <2>3, <2>5, <2>6
<1>8. /\ e \in BucketRec /\ e.value = x
      /\ e.ready /\ e.key = q /\ e.key_hash = bucket[j].key_hash
  <2>1. bucket[j] \in BucketRec /\ x \in 0 .. Modulus - 1
    BY <1>6, <1>7
  <2> HIDE DEF x, q
  <2>2. QED
    BY <1>5, <2>1, ValueWritten
<1>9. bucket'[j] = e /\ \A i \in Bucket \ {j} : bucket'[i] = bucket[i]
  <2>1. bucket'[j] = e
    BY <1>1, <1>5
  <2>2. \A i \in Bucket \ {j} : bucket'[i] = bucket[i]
    BY <1>1, <1>5
  <2>3. QED
    BY <2>1, <2>2
<1> HIDE DEF e
<1>10. bucket' \in Table
  <2>1. DOMAIN bucket' = Bucket /\ bucket' = [i \in Bucket |-> bucket'[i]]
    BY <1>1
  <2>2. \A i \in Bucket : bucket'[i] \in BucketRec
    BY <1>2, <1>8, <1>9 DEF Table
  <2>3. QED
    BY <2>1, <2>2 DEF Table
<1>11. Owned'
  <2>1. bucket[j].key_hash # 0 /\ q \in Keys
    BY <1>4, <1>5 DEF IInv, Owned
  <2>2. QED
    BY <1>8, <1>9, <2>1 DEF IInv, Owned
<1>12. \A i \in Bucket : bucket[i].ready => bucket'[i].ready /\ bucket'[i].key = bucket[i].key
  BY <1>5, <1>8, <1>9
<1>13. Uploaded'
  <2> SUFFICES ASSUME NEW n \in 1 .. Len(items')
               PROVE  \E i \in Bucket : bucket'[i].ready /\ bucket'[i].key = items'[n].key
    BY DEF Uploaded
  <2>1. n + 1 \in 1 .. Len(items) /\ items'[n] = items[n + 1]
    BY <1>3
  <2>2. PICK i \in Bucket : bucket[i].ready /\ bucket[i].key = items[n + 1].key
    BY <2>1 DEF IInv, Uploaded
  <2>3. QED
    BY <1>12, <2>1, <2>2
<1>14. TypeOK'
  BY <1>1, <1>3, <1>10 DEF IInv, TypeOK, Table, BucketRec, Item
<1>15. Filling'
  <2>1. ASSUME NEW w \in Workers, pc[w] = "fill"
        PROVE  bucket'[idx[w]] = bucket[idx[w]]
    BY <1>5, <1>9, <2>1 DEF IInv, Filling, TypeOK
  <2>2. pc' = pc /\ key' = key /\ idx' = idx
    BY <1>1
  <2>3. QED
    BY <2>1, <2>2 DEF IInv, Filling
<1>16. Balance'
  <2> SUFFICES ASSUME NEW k \in Keys
               PROVE  Congruent((Stored(k)' - Stored(k)) + (accepted'[k] - accepted[k])
                                  - (Pending(k)' - Pending(k)),
                                (counted'[k] - counted[k]) + (repeated'[k] - repeated[k]))
    BY <1>14, BalanceStep DEF IInv
  <2>1. /\ accepted'[k] = accepted[k] /\ repeated'[k] = repeated[k]
        /\ counted'[k] = counted[k]
    BY <1>1
  <2>2. /\ Stored(k) \in Nat /\ Pending(k) \in Nat
        /\ accepted[k] \in Nat /\ counted[k] \in Nat /\ repeated[k] \in Nat
    BY Numbers DEF IInv
  <2>3. SumOf(items, k) = (IF q = k THEN u ELSE 0) + SumOf(items', k)
    BY <1>1, <1>2, SumOfTail
  <2>4. Pending(k) = SumOf(items, k) /\ Pending(k)' = SumOf(items', k)
    BY <1>1 DEF Pending, ValuesOf, SumOf
  <2>5. SumOf(items', k) \in Nat
    BY <1>3, SumOfNat
  <2>6. /\ StoredIn(bucket', k) = StoredIn(bucket, k) + ValueIn(e, k) - ValueIn(bucket[j], k)
        /\ StoredIn(bucket, k) \in Nat
    <3>1. bucket'[j] = e /\ \A i \in Bucket \ {j} : bucket'[i] = bucket[i]
      BY <1>9
    <3>2. QED
      BY <1>2, <1>10, <3>1, StoredChange
  <2>7. Stored(k)' = StoredIn(bucket', k) /\ Stored(k) = StoredIn(bucket, k)
    BY DEF Stored, StoredIn
  <2>8. ValueIn(e, k) = IF q = k THEN x ELSE 0
    BY <1>8 DEF ValueIn
  <2>9. ValueIn(bucket[j], k) = IF q = k THEN v ELSE 0
    BY <1>5 DEF ValueIn
  <2> HIDE DEF x, v, u, q, item
  <2>10. CASE q = k
    <3>1. Stored(k)' - Stored(k) = x - v
      BY <1>7, <2>2, <2>6, <2>7, <2>8, <2>9, <2>10
    <3>2. Pending(k)' - Pending(k) = -u
      BY <1>4, <2>3, <2>4, <2>5, <2>10
    <3>3. (x - v) + (accepted'[k] - accepted[k]) - (-u) = (x - v) + u
      BY <1>4, <1>7, <2>1, <2>2
    <3>4. (counted'[k] - counted[k]) + (repeated'[k] - repeated[k]) = 0
      BY <2>1, <2>2
    <3>5. Congruent((x - v) + u, 0)
      <4>1. PICK z \in Int : x - v = -u + (Modulus * z)
        BY <1>7 DEF Congruent
      <4>2. (Modulus * z) \in Int
        BY SizeAssumption, MulDistributes
      <4>3. (x - v) + u = 0 + (Modulus * z)
        BY <1>4, <1>7, <4>1, <4>2
      <4>4. QED
        BY <4>3 DEF Congruent
    <3>6. QED
      BY <3>1, <3>2, <3>3, <3>4, <3>5
  <2>11. CASE q # k
    <3>1. Stored(k)' - Stored(k) = 0
      BY <2>2, <2>6, <2>7, <2>8, <2>9, <2>11
    <3>2. Pending(k)' - Pending(k) = 0
      BY <2>3, <2>4, <2>5, <2>11
    <3>3. /\ 0 + (accepted'[k] - accepted[k]) - 0 = 0
          /\ (counted'[k] - counted[k]) + (repeated'[k] - repeated[k]) = 0
      BY <2>1, <2>2
    <3>4. QED
      BY <3>1, <3>2, <3>3, CongruentSame
  <2>12. QED
    BY <2>10, <2>11
<1>17. QED
  BY <1>11, <1>13, <1>14, <1>15, <1>16 DEF IInv

-----------------------------------------------------------------------------
(* The theorems.                                                           *)

LEMMA InitIInv ==
  ASSUME Init
  PROVE  IInv
<1>1. MAX_BUCKETS \in Nat \ {0} /\ Modulus \in Nat \ {0, 1} /\ 0 \in Bucket
  BY SizeAssumption DEF Bucket
<1>2. Vacant \in BucketRec /\ ~ Vacant.ready
  BY <1>1 DEF Vacant, BucketRec
<1>3. /\ bucket = [i \in Bucket |-> Vacant]
      /\ pc = [w \in Workers |-> "idle"] /\ key = [w \in Workers |-> NoKey]
      /\ idx = [w \in Workers |-> 0] /\ push = "idle" /\ at = 0 /\ items = <<>>
      /\ counted = [k \in Keys |-> 0] /\ accepted = [k \in Keys |-> 0]
      /\ repeated = [k \in Keys |-> 0] /\ pushes = 0 /\ crashes = 0 /\ late = 0
  BY DEF Init
<1>4. bucket \in Table /\ items \in Seq(Item)
  BY <1>2, <1>3 DEF Table
<1>5. TypeOK
  BY <1>1, <1>3, <1>4 DEF TypeOK, Table, BucketRec, Item
<1>6. Owned /\ Filling /\ Uploaded
  BY <1>2, <1>3 DEF Owned, Filling, Uploaded
<1>7. Balance
  <2> SUFFICES ASSUME NEW k \in Keys
               PROVE  Congruent(Stored(k) + accepted[k] - Pending(k), counted[k] + repeated[k])
    BY DEF Balance
  <2>1. Stored(k) = 0
    <3> DEFINE f == StoredAt(bucket, k)
    <3>1. \A i \in 1 .. MAX_BUCKETS : i - 1 \in Bucket
      BY <1>1 DEF Bucket
    <3>2. f = [i \in 1 .. MAX_BUCKETS |-> 0]
      BY <1>2, <1>3, <3>1 DEF StoredAt
    <3>3. f \in [1 .. MAX_BUCKETS -> Int] /\ MAX_BUCKETS \in Nat
      BY <1>1, <3>2
    <3> HIDE DEF f
    <3>4. PICK g \in [0 .. MAX_BUCKETS -> Int] :
            /\ g[0] = 0
            /\ \A i \in 1 .. MAX_BUCKETS : g[i] = g[i - 1] + f[i]
            /\ SumTo(f, MAX_BUCKETS) = g[MAX_BUCKETS]
      BY <3>3, PartialSums
    <3> DEFINE T == {i \in 0 .. MAX_BUCKETS : g[i] # 0}
    <3>5. T = {}
      <4>1. SUFFICES ASSUME T # {} PROVE FALSE
        OBVIOUS
      <4>2. T \subseteq Nat
        OBVIOUS
      <4>3. PICK m \in T : \A n \in T : m <= n
        BY <4>1, <4>2, LeastNat
      <4>4. m \in 1 .. MAX_BUCKETS /\ m - 1 \in 0 .. MAX_BUCKETS /\ m - 1 \notin T
        <5>1. m # 0 /\ m \in 0 .. MAX_BUCKETS
          BY <3>4, <4>3
        <5>2. m \in 1 .. MAX_BUCKETS /\ m - 1 \in 0 .. MAX_BUCKETS /\ ~ (m <= m - 1)
          BY <1>1, <5>1
        <5> HIDE DEF T
        <5>3. QED
          BY <4>3, <5>2
      <4>5. g[m] = g[m - 1] + f[m] /\ g[m - 1] = 0 /\ f[m] = 0
        BY <3>2, <3>4, <4>4
      <4>6. QED
        BY <4>3, <4>5
    <3>6. QED
      BY <1>1, <3>4, <3>5 DEF Stored, f
  <2>2. accepted[k] = 0 /\ counted[k] = 0 /\ repeated[k] = 0 /\ Pending(k) = 0
    BY <1>3 DEF Pending
  <2>3. QED
    BY <2>1, <2>2, CongruentSame
<1>8. QED
  BY <1>5, <1>6, <1>7 DEF IInv

LEMMA Inductive ==
  ASSUME IInv, [Next]_vars
  PROVE  IInv'
<1>1. ASSUME NEW w \in Workers, NEW k \in Keys, Record(w, k)
      PROVE  IInv'
  BY <1>1, RecordStep
<1>2. ASSUME NEW w \in Workers, bucket_inc(w)
      PROVE  IInv'
  BY <1>2, AddToBucketStep, PassStep, SeeStep, ClaimStep, FillStep DEF bucket_inc
<1>3. ASSUME NEW w \in Workers, Crash(w)
      PROVE  IInv'
  BY <1>3, CrashStep
<1>4. ASSUME push_to_lapi
      PROVE  IInv'
  BY <1>4, BeginPushStep, CollectStep, PostedStep, PostedLateStep, PostFailedStep,
     ResetItemStep, EndPushStep DEF push_to_lapi
<1>5. CASE KillPoller
  BY <1>5, KillPollerStep
<1>6. CASE UNCHANGED vars
  <2>1. UNCHANGED <<bucket, pc, key, idx, push, at, items, accepted, repeated, pushes,
                    late, counted, crashes>>
    BY <1>6 DEF vars, inc_vars, push_vars
  <2>2. TypeOK' /\ Owned' /\ Filling' /\ Uploaded'
    BY <2>1 DEF IInv, TypeOK, Owned, Filling, Uploaded
  <2>3. Balance'
    BY <2>1 DEF IInv, Balance, Stored, Pending, ValuesOf
  <2>4. QED
    BY <2>2, <2>3 DEF IInv
<1>7. QED
  BY <1>1, <1>2, <1>3, <1>4, <1>5, <1>6, Zenon DEF Next

(* The counters, the snapshot and what LAPI has accepted stay in balance,  *)
(* whatever step of a worker comes between two steps of the poller.        *)
THEOREM Invariance == Spec => []IInv
<1>1. Init => IInv
  BY InitIInv
<1>2. IInv /\ [Next]_vars => IInv'
  BY Inductive
<1>3. QED
  BY <1>1, <1>2, PTL DEF Spec

(* Every counter stays a word, and a snapshot holds keys and counts.       *)
THEOREM TypeCorrect == Spec => []TypeOK
<1>1. IInv => TypeOK
  BY DEF IInv
<1>2. QED
  BY <1>1, Invariance, PTL

(* No request is lost or uploaded twice by the races of bucket_inc with    *)
(* collect_items and reset_after_push.                                     *)
THEOREM NoCountLost == Spec => []NothingLost
<1>1. IInv => NothingLost
  <2> SUFFICES ASSUME IInv, NEW k \in Keys
               PROVE  (Stored(k) + accepted[k] - Pending(k)) % Modulus
                        = (counted[k] + repeated[k]) % Modulus
    BY DEF NothingLost
  <2> DEFINE x == Stored(k) + accepted[k] - Pending(k)
             y == counted[k] + repeated[k]
  <2>1. x \in Int /\ y \in Int
    BY Numbers DEF IInv
  <2>2. Congruent(x, y)
    BY DEF IInv, Balance
  <2> HIDE DEF x, y
  <2>3. (x % Modulus) = (y % Modulus)
    BY <2>1, <2>2, CongruentWords
  <2>4. QED
    BY <2>3 DEF x, y
<1>2. QED
  BY <1>1, Invariance, PTL
=============================================================================
