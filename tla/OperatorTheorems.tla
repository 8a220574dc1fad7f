---------------------------- MODULE OperatorTheorems ----------------------------
(***************************************************************************)
(* Facts about the operators that several models are built from.  First    *)
(* quotients and remainders, the bits of a number, folds, and sums: a sum  *)
(* is a number, it does not depend on the order in which its terms are     *)
(* added, and it is linear.  Facts about folds are proved by induction on  *)
(* the number of elements, with the induction hypothesis as a set.  Then   *)
(* the three traversals, for every layout and mask: which loop iteration   *)
(* comes next, which pairs the iterations name, and where these pairs live.*)
(***************************************************************************)
EXTENDS PairTraversal, Amplitudes, FiniteSetsExt, FiniteSetTheorems, WellFoundedInduction, TLAPS

-------------------------------------------------------------------------------
(* Arithmetic.                                                             *)

LEMMA Division ==
  ASSUME NEW a \in Nat, NEW b \in Nat \ {0}
  PROVE  a \div b \in Nat /\ (a % b) \in 0..(b - 1) /\ a = b * (a \div b) + (a % b)
OBVIOUS

LEMMA DivisionUnique ==
  ASSUME NEW b \in Nat \ {0}, NEW q \in Nat, NEW r \in Nat, r < b
  PROVE  (b * q + r) \div b = q /\ ((b * q + r) % b) = r
OBVIOUS

LEMMA Quotients ==
  ASSUME NEW b \in Nat \ {0}, NEW p \in Nat, NEW q \in Nat, NEW r \in Nat, NEW s \in Nat,
         r < b, s < b, b * p + r = b * q + s
  PROVE  p = q /\ r = s
BY DivisionUnique

LEMMA MultipleOf ==
  ASSUME NEW a \in Nat, NEW b \in Nat \ {0}, (a % b) = 0
  PROVE  a \div b \in Nat /\ a = b * (a \div b)
BY Division

LEMMA FactorsInOrder ==
  ASSUME NEW b \in Nat \ {0}, NEW p \in Nat, NEW q \in Nat, b * p < b * q
  PROVE  p < q /\ b * p + b <= b * q
<1>1. p < q
  OBVIOUS
<1>2. q - p - 1 \in Nat
  BY <1>1
<1>3. b * (q - p - 1) \in Nat
  BY <1>2
<1>4. b * q = b * p + b + b * (q - p - 1)
  OBVIOUS
<1> QED BY <1>1, <1>3, <1>4

(* A set of numbers has a least one.                                       *)
LEMMA LeastNumber ==
  ASSUME NEW N \in SUBSET Nat, N # {}
  PROVE  \E n \in N : \A m \in N : n <= m
<1>1. PICK n \in N : \A m \in N : ~(<<m, n>> \in OpToRel(<, Nat))
  BY NatLessThanWellFounded, WFMin
<1>2. ASSUME NEW m \in N PROVE n <= m
  <2> SUFFICES ASSUME m < n PROVE FALSE
    OBVIOUS
  <2>1. <<m, n>> \in OpToRel(<, Nat)
    BY DEF OpToRel
  <2> QED BY <1>1, <2>1
<1> QED BY <1>2

-------------------------------------------------------------------------------
(* The bits of a number.                                                   *)

\* The bit of s of weight m, a power of two.
BitAt(s, m) == (s \div m) % 2

LEMMA EvenQuotients ==
  ASSUME NEW q \in Nat, NEW k \in Int, q + 2 * k \in Nat
  PROVE  ((q + 2 * k) % 2) = (q % 2)
OBVIOUS

(* Writing a bit keeps a number below every multiple of twice the power.   *)
LEMMA WriteBit ==
  ASSUME NEW m \in Nat \ {0}, NEW n \in Nat, (n % (2 * m)) = 0,
         NEW s \in Nat, s < n, NEW x \in {0, 1}, NEW t \in Int,
         t = s + (x - BitAt(s, m)) * m
  PROVE  t \in Nat /\ t < n /\ BitAt(t, m) = x
<1> DEFINE d == 2 * m  q == s \div d  r == s % d  k == n \div d
           y == r \div m  u == r % m
<1>1. d \in Nat \ {0}
  OBVIOUS
<1>2. q \in Nat /\ r \in 0..(d - 1) /\ s = d * q + r
  <2> HIDE DEF d
  <2> QED BY <1>1, Division
<1>3. k \in Nat /\ n = d * k
  <2> HIDE DEF d
  <2>1. (n % d) = 0
    BY DEF d
  <2> QED BY <1>1, <2>1, MultipleOf
<1> HIDE DEF q, k, r
<1>4. y \in Nat /\ u \in 0..(m - 1) /\ r = m * y + u
  <2>1. r \in Nat
    BY <1>2
  <2> HIDE DEF d
  <2> QED BY <2>1, Division
<1> HIDE DEF y, u
<1>5. y \in {0, 1}
  <2> SUFFICES ASSUME y >= 2 PROVE FALSE
    BY <1>4
  <2>1. y - 2 \in Nat
    BY <1>4
  <2>2. m * (y - 2) \in Nat
    BY <2>1
  <2>3. m * y = m * (y - 2) + 2 * m
    BY <1>4
  <2> QED BY <1>2, <1>4, <2>2, <2>3
<1>6. s = m * (2 * q + y) + u
  BY <1>2, <1>4, <1>5
<1>7. s \div m = 2 * q + y
  <2> DEFINE p == 2 * q + y
  <2>1. p \in Nat /\ u \in Nat /\ u < m /\ s = m * p + u
    BY <1>2, <1>4, <1>5, <1>6
  <2> HIDE DEF p
  <2>2. (m * p + u) \div m = p
    BY <2>1, DivisionUnique
  <2> QED BY <2>1, <2>2 DEF p
<1>8. ((s \div m) % 2) = y
  BY <1>2, <1>5, <1>7
<1>9. t = m * (2 * q + x) + u
  <2>1. t = s + (x - y) * m
    BY <1>8 DEF BitAt
  <2>2. x \in Int /\ y \in Int /\ q \in Int /\ u \in Int
    BY <1>2, <1>4
  <2> QED BY <1>6, <2>1, <2>2
<1>10. t \div m = 2 * q + x
  <2> DEFINE p == 2 * q + x
  <2>1. p \in Nat /\ u \in Nat /\ u < m /\ t = m * p + u
    BY <1>2, <1>4, <1>9
  <2> HIDE DEF p
  <2>2. (m * p + u) \div m = p
    BY <2>1, DivisionUnique
  <2> QED BY <2>1, <2>2 DEF p
<1>11. q < k
  <2>1. d * q <= s
    BY <1>2
  <2>2. d * q < d * k
    BY <1>1, <1>2, <1>3, <2>1
  <2> HIDE DEF d
  <2> QED BY <1>1, <1>2, <1>3, <2>2, FactorsInOrder
<1>12. d * q + d <= n
  <2>1. d * q < d * k
    BY <1>1, <1>2, <1>3, <1>11
  <2> HIDE DEF d
  <2> QED BY <1>1, <1>2, <1>3, <2>1, FactorsInOrder
<1>13. t \in Nat /\ t < n
  <2>1. t = d * q + m * x + u
    BY <1>2, <1>4, <1>9
  <2>0. d * q \in Nat /\ d \in Nat
    BY <1>2
  <2>2. m * x \in {0, m} /\ u \in Nat /\ u < m
    BY <1>4
  <2>3. m * x + u \in Nat /\ m * x + u < d
    BY <2>2
  <2> DEFINE e == d * q  z == m * x + u
  <2>4. t = e + z /\ e \in Nat /\ z \in Nat /\ z < d /\ e + d <= n
    <3> HIDE DEF d
    <3>1. e \in Nat /\ z \in Nat /\ z < d /\ e + d <= n
      BY <1>12, <2>0, <2>3
    <3>2. m * x \in Int /\ u \in Int
      BY <2>2
    <3>3. t = e + z
      BY <2>0, <2>1, <3>2
    <3> QED BY <3>1, <3>3
  <2> HIDE DEF e, z, d
  <2>5. d \in Nat
    BY <2>0
  <2> QED BY <2>4, <2>5
<1>14. ((2 * q + x) % 2) = x
  BY <1>2
<1> QED BY <1>10, <1>13, <1>14 DEF BitAt

(* ... and leaves every other bit as it is.                                *)
LEMMA OtherBit ==
  ASSUME NEW m \in Nat \ {0}, NEW w \in Nat \ {0},
         (w % (2 * m)) = 0 \/ (m % (2 * w)) = 0,
         NEW s \in Nat, NEW x \in {0, 1}, NEW t \in Nat,
         t = s + (x - BitAt(s, m)) * m
  PROVE  BitAt(t, w) = BitAt(s, w)
<1> DEFINE b == BitAt(s, m)
           q == s \div w  r == s % w
<1>1. b \in {0, 1}
  <2>1. s \div m \in Nat
    BY Division
  <2> QED BY <2>1 DEF BitAt
<1>2. q \in Nat /\ r \in 0..(w - 1) /\ s = w * q + r
  BY Division
<1>3. t = s + (x - b) * m
  OBVIOUS
<1>4. CASE (w % (2 * m)) = 0
  <2> DEFINE c == BitAt(r, m)
             v == r + (x - c) * m
             d == 2 * m  k == w \div d
  <2>1. k \in Nat /\ w = d * k
    <3>1. d \in Nat \ {0} /\ (w % d) = 0
      BY <1>4
    <3> HIDE DEF d
    <3> QED BY <3>1, MultipleOf
  <2> HIDE DEF k, q, r
  <2>2. c = b
    <3> DEFINE y == r \div m  u == r % m
    <3>0. r \in Nat
      BY <1>2
    <3>1. y \in Nat /\ u \in 0..(m - 1) /\ r = m * y + u
      BY <3>0, Division
    <3> HIDE DEF y, u
    <3>2. k * q \in Nat /\ s = m * (2 * (k * q) + y) + u
      BY <1>2, <2>1, <3>1
    <3> DEFINE j == k * q  p == 2 * j + y
    <3>3. j \in Nat
      BY <3>2
    <3>4. s = m * p + u
      BY <3>2
    <3> HIDE DEF j
    <3>5. p \in Nat
      BY <3>1, <3>3
    <3>6. (p % 2) = (y % 2)
      BY <3>1, <3>3
    <3> HIDE DEF p
    <3>7. u \in Nat /\ u < m
      BY <3>1
    <3>8. (m * p + u) \div m = p
      BY <3>5, <3>7, DivisionUnique
    <3> QED BY <3>4, <3>6, <3>8 DEF y, BitAt
  <2>3. v \in Int
    <3>0. r \in Nat
      BY <1>2
    <3>1. r \div m \in Nat
      BY <3>0, Division
    <3> QED BY <1>2, <3>1 DEF BitAt
  <2>4. v \in Nat /\ v < w
    <3>1. r \in Nat /\ r < w
      BY <1>2
    <3> HIDE DEF v
    <3>2. v = r + (x - BitAt(r, m)) * m
      BY DEF v
    <3> QED BY <1>4, <2>3, <3>1, <3>2, WriteBit
  <2>5. t = w * q + v
    <3>1. w * q \in Int /\ (x - b) * m \in Int
      BY <1>1, <1>2
    <3> HIDE DEF b, c
    <3> QED BY <1>2, <1>3, <2>2, <3>1
  <2> HIDE DEF v
  <2>6. t \div w = q
    BY <1>2, <2>4, <2>5, DivisionUnique
  <2> QED BY <2>6 DEF q, BitAt
<1>5. CASE (m % (2 * w)) = 0
  <2> DEFINE d == 2 * w  k == m \div d
  <2>1. k \in Nat /\ m = d * k
    <3>1. d \in Nat \ {0} /\ (m % d) = 0
      BY <1>5
    <3> HIDE DEF d
    <3> QED BY <3>1, MultipleOf
  <2> DEFINE j == (x - b) * k  p == q + 2 * j
  <2> HIDE DEF k, q, r, b
  <2>2. j \in Int
    BY <1>1, <2>1
  <2>3. t = w * p + r
    <3>1. (x - b) * m = d * j
      BY <1>1, <2>1
    <3>2. t = (w * q + r) + d * j
      BY <1>2, <1>3, <3>1
    <3> HIDE DEF j
    <3> QED BY <1>2, <2>2, <3>2
  <2> HIDE DEF j
  <2>4. p \in Int
    BY <1>2, <2>2
  <2>5. p \in Nat
    <3> HIDE DEF p
    <3> SUFFICES ASSUME p < 0 PROVE FALSE
      BY <2>4
    <3>1. -p - 1 \in Nat
      BY <2>4
    <3>2. w * (-p - 1) \in Nat
      BY <3>1
    <3>3. w * p = -(w * (-p - 1)) - w
      BY <2>4
    <3> QED BY <1>2, <2>3, <3>2, <3>3
  <2>6. t \div w = p
    <3> HIDE DEF p
    <3>1. r \in Nat /\ r < w
      BY <1>2
    <3> QED BY <2>3, <2>5, <3>1, DivisionUnique
  <2>7. (p % 2) = (q % 2)
    BY <1>2, <2>2, <2>5, EvenQuotients
  <2> HIDE DEF p
  <2> QED BY <2>6, <2>7 DEF q, BitAt
<1> QED BY <1>4, <1>5

-------------------------------------------------------------------------------
(* Induction, over numbers and over the subsets of a finite set.           *)

LEMMA NumberInduction ==
  ASSUME NEW G \in SUBSET Nat, 0 \in G, \A n \in G : n + 1 \in G
  PROVE  G = Nat
<1> SUFFICES ASSUME Nat \ G # {} PROVE FALSE
  OBVIOUS
<1>1. PICK n \in Nat \ G : \A m \in Nat \ G : ~(<<m, n>> \in OpToRel(<, Nat))
  BY NatLessThanWellFounded, WFMin
<1>2. n - 1 \in Nat /\ (n - 1) + 1 = n
  <2>1. n \in Nat /\ n # 0
    OBVIOUS
  <2> QED BY <2>1
<1>3. n - 1 \notin G
  BY <1>2
<1>4. <<n - 1, n>> \in OpToRel(<, Nat)
  BY <1>2 DEF OpToRel
<1> QED
  BY <1>1, <1>2, <1>3, <1>4

LEMMA SubsetInduction ==
  ASSUME NEW S, IsFiniteSet(S), NEW Good,
         \A T \in SUBSET S : (\A x \in T : T \ {x} \in Good) => T \in Good
  PROVE  SUBSET S \subseteq Good
<1> DEFINE G == {n \in Nat : \A T \in SUBSET S : Cardinality(T) = n => T \in Good}
<1>0. \A T \in SUBSET S : IsFiniteSet(T) /\ Cardinality(T) \in Nat
  BY FS_Subset, FS_CardinalityType
<1>1. 0 \in G
  <2>1. ASSUME NEW T \in SUBSET S, Cardinality(T) = 0 PROVE T \in Good
    <3>1. T = {}
      BY <2>1, <1>0, FS_EmptySet
    <3> QED BY <3>1
  <2> QED BY <2>1
<1>2. ASSUME NEW n \in G PROVE n + 1 \in G
  <2>1. ASSUME NEW T \in SUBSET S, Cardinality(T) = n + 1 PROVE T \in Good
    <3>1. ASSUME NEW x \in T PROVE T \ {x} \in Good
      <4>1. Cardinality(T \ {x}) = n
        BY <2>1, <1>0, FS_RemoveElement
      <4> QED BY <4>1
    <3> QED BY <3>1
  <2> QED BY <2>1
<1>3. G = Nat
  <2> HIDE DEF G
  <2>1. G \in SUBSET Nat
    BY DEF G
  <2> QED BY <1>1, <1>2, <2>1, NumberInduction
<1>4. ASSUME NEW T \in SUBSET S PROVE T \in Good
  BY <1>0, <1>3
<1> QED BY <1>4

-------------------------------------------------------------------------------
(* Folds.                                                                  *)

\* Ways of picking one element of every set that has some.
Picks(S) == {p \in [(SUBSET S) \ {{}} -> S] : \A s \in (SUBSET S) \ {{}} : p[s] \in s}

\* Function g folds F over every subset of S, picking one element after the other.
Folding(S, base, F, pick, g) ==
  \A s \in SUBSET S : g[s] = IF s = {} THEN base ELSE F[pick[s]][g[s \ {pick[s]}]]

(* There is a function that folds F over the subsets of a finite set.      *)
LEMMA FoldExists ==
  ASSUME NEW S, IsFiniteSet(S), NEW V, NEW base \in V, NEW F \in [S -> [V -> V]],
         NEW pick \in Picks(S)
  PROVE  \E g \in [SUBSET S -> V] : Folding(S, base, F, pick, g)
<1> DEFINE Small(n) == {s \in SUBSET S : Cardinality(s) <= n}
           Folds(D, g) ==
             \A s \in D : g[s] = IF s = {} THEN base ELSE F[pick[s]][g[s \ {pick[s]}]]
           G == {n \in Nat : \E g \in [Small(n) -> V] : Folds(Small(n), g)}
<1>a. pick \in [(SUBSET S) \ {{}} -> S] /\ \A s \in (SUBSET S) \ {{}} : pick[s] \in s
  BY DEF Picks
<1>0. \A s \in SUBSET S : IsFiniteSet(s) /\ Cardinality(s) \in Nat
  BY FS_Subset, FS_CardinalityType
<1>1. 0 \in G
  <2>1. \A s \in Small(0) : s = {}
    <3> SUFFICES ASSUME NEW s \in Small(0) PROVE s = {}
      OBVIOUS
    <3>1. Cardinality(s) = 0
      BY <1>0
    <3> QED BY <3>1, <1>0, FS_EmptySet
  <2>2. [s \in Small(0) |-> base] \in [Small(0) -> V]
    OBVIOUS
  <2>3. Folds(Small(0), [s \in Small(0) |-> base])
    BY <2>1
  <2> QED BY <2>2, <2>3
<1>2. ASSUME NEW n \in G PROVE n + 1 \in G
  <2>1. PICK g \in [Small(n) -> V] : Folds(Small(n), g)
    OBVIOUS
  <2> DEFINE h == [s \in Small(n + 1) |->
                     IF s \in Small(n) THEN g[s] ELSE F[pick[s]][g[s \ {pick[s]}]]]
  <2>2. ASSUME NEW s \in Small(n + 1), s # {}
        PROVE  s \ {pick[s]} \in Small(n) /\ s \ {pick[s]} \in Small(n + 1) /\ pick[s] \in S
    <3>1. pick[s] \in s
      BY <1>a, <2>2
    <3>2. Cardinality(s \ {pick[s]}) = Cardinality(s) - 1 /\ Cardinality(s) \in Nat
      BY <3>1, <1>0, FS_RemoveElement
    <3> QED BY <3>1, <3>2, <1>2
  <2>3. {} \in Small(n)
    BY FS_EmptySet, <1>2
  <2>4. \A s \in Small(n) : s \in Small(n + 1)
    BY <1>0, <1>2
  <2>5. h \in [Small(n + 1) -> V]
    <3>1. ASSUME NEW s \in Small(n + 1) PROVE h[s] \in V
      <4>1. s \in Small(n) => g[s] \in V
        BY <2>1
      <4>2. s \notin Small(n) => F[pick[s]][g[s \ {pick[s]}]] \in V
        <5> HIDE DEF Small
        <5> SUFFICES ASSUME s \notin Small(n) PROVE F[pick[s]][g[s \ {pick[s]}]] \in V
          OBVIOUS
        <5>1. s # {}
          BY <2>3
        <5>2. g[s \ {pick[s]}] \in V /\ pick[s] \in S
          BY <2>1, <2>2, <5>1
        <5>3. F[pick[s]] \in [V -> V]
          BY <5>2
        <5> QED BY <5>2, <5>3
      <4>3. h[s] = IF s \in Small(n) THEN g[s] ELSE F[pick[s]][g[s \ {pick[s]}]]
        BY DEF h
      <4> QED BY <4>1, <4>2, <4>3
    <3> QED BY <3>1
  <2>6. Folds(Small(n + 1), h)
    <3> SUFFICES ASSUME NEW s \in Small(n + 1)
                 PROVE  h[s] = IF s = {} THEN base ELSE F[pick[s]][h[s \ {pick[s]}]]
      OBVIOUS
    <3> HIDE DEF Small
    <3> QED BY <2>1, <2>2, <2>3, <2>4
  <2> HIDE DEF h
  <2>7. n + 1 \in Nat
    BY <1>2
  <2> QED BY <2>5, <2>6, <2>7
<1>3. G = Nat
  <2> HIDE DEF G
  <2>1. G \in SUBSET Nat
    BY DEF G
  <2> QED BY <1>1, <1>2, <2>1, NumberInduction
<1>4. Cardinality(S) \in G
  BY <1>0, <1>3
<1>5. Small(Cardinality(S)) = SUBSET S
  BY FS_Subset, FS_CardinalityType
<1>6. \E g \in [SUBSET S -> V] : Folds(SUBSET S, g)
  BY <1>4, <1>5
<1> QED BY <1>6 DEF Folding

(* A prefix of a sequence's indices ends in its greatest.                  *)
LEMMA IndexPrefixes ==
  /\ \A m \in Nat : m # 0 => Max(1..m) = m /\ (1..m) \ {m} = 1..(m - 1)
  /\ 1..0 = {}
<1>1. ASSUME NEW m \in Nat, m # 0
      PROVE  Max(1..m) = m /\ (1..m) \ {m} = 1..(m - 1)
  <2>1. \A x \in 1..m : (\A y \in 1..m : x >= y) <=> x = m
    BY <1>1
  <2>2. m \in 1..m
    BY <1>1
  <2>3. Max(1..m) = m
    BY <2>1, <2>2 DEF Max
  <2> QED BY <1>1, <2>3
<1> QED BY <1>1

LEMMA MaxIn ==
  ASSUME NEW n \in Nat, NEW s \in (SUBSET (1..n)) \ {{}}
  PROVE  Max(s) \in s
<1> DEFINE D == {d \in Nat : n - d \in s}
<1>1. PICK x \in s : TRUE
  OBVIOUS
<1>2. n - x \in D
  BY <1>1
<1>3. D \in SUBSET Nat /\ D # {}
  BY <1>2
<1> HIDE DEF D
<1>4. PICK d \in D : \A e \in D : d <= e
  BY <1>3, LeastNumber
<1>5. n - d \in s /\ \A y \in s : n - y \in D
  BY <1>3, <1>4 DEF D
<1>6. \A y \in s : n - d >= y
  BY <1>3, <1>4, <1>5
<1> QED BY <1>5, <1>6 DEF Max

\* Function g folds F over sets of indices, in their order.
LeftFolding(n, base, F, g) ==
  \A s \in SUBSET (1..n) : g[s] = IF s = {} THEN base ELSE F[Max(s)][g[s \ {Max(s)}]]

(* There is a function that folds F over a sequence from the left.         *)
LEMMA LeftFold ==
  ASSUME NEW n \in Nat, NEW V, NEW base \in V, NEW F \in [1..n -> [V -> V]]
  PROVE  \E g \in [SUBSET (1..n) -> V] : LeftFolding(n, base, F, g)
<1> DEFINE pick == [s \in (SUBSET (1..n)) \ {{}} |-> Max(s)]
<1>1. pick \in Picks(1..n)
  BY MaxIn DEF Picks
<1>2. \A s \in SUBSET (1..n) : s # {} => pick[s] = Max(s)
  OBVIOUS
<1>3. IsFiniteSet(1..n)
  BY FS_Interval
<1> HIDE DEF pick
<1>4. PICK g \in [SUBSET (1..n) -> V] : Folding(1..n, base, F, pick, g)
  BY <1>1, <1>3, FoldExists
<1>5. ASSUME NEW s \in SUBSET (1..n)
      PROVE  g[s] = IF s = {} THEN base ELSE F[Max(s)][g[s \ {Max(s)}]]
  <2>1. g[s] = IF s = {} THEN base ELSE F[pick[s]][g[s \ {pick[s]}]]
    BY <1>4 DEF Folding
  <2> QED BY <1>2, <2>1
<1> QED BY <1>5 DEF LeftFolding

-------------------------------------------------------------------------------
(* Sums.                                                                   *)

Some(s) == CHOOSE x \in s : TRUE

LEMMA SomeIn == \A s : s # {} => Some(s) \in s
BY DEF Some

\* Function g sums f over every set in D, one element after the other.
Sums(f, D, g) == \A s \in D : g[s] = IF s = {} THEN 0 ELSE f[Some(s)] + g[s \ {Some(s)}]

LEMMA SumsExist ==
  ASSUME NEW S, IsFiniteSet(S), NEW f, \A x \in S : f[x] \in Int
  PROVE  \E g \in [SUBSET S -> Int] : Sums(f, SUBSET S, g)
<1> DEFINE F == [x \in S |-> [n \in Int |-> f[x] + n]]
           pick == [s \in (SUBSET S) \ {{}} |-> Some(s)]
<1>1. F \in [S -> [Int -> Int]] /\ \A x \in S, n \in Int : F[x][n] = f[x] + n
  OBVIOUS
<1>2. pick \in [(SUBSET S) \ {{}} -> S]
  BY SomeIn
<1>3. \A s \in (SUBSET S) \ {{}} : pick[s] \in s /\ pick[s] = Some(s)
  BY SomeIn
<1> HIDE DEF F, pick
<1>4. 0 \in Int
  OBVIOUS
<1>5. \A s \in (SUBSET S) \ {{}} : pick[s] \in s
  BY <1>3
<1>6. PICK g \in [SUBSET S -> Int] :
        \A s \in SUBSET S : g[s] = IF s = {} THEN 0 ELSE F[pick[s]][g[s \ {pick[s]}]]
  <2>1. F \in [S -> [Int -> Int]] /\ IsFiniteSet(S)
    BY <1>1
  <2>2. pick \in Picks(S)
    BY <1>2, <1>5 DEF Picks
  <2>3. \E g \in [SUBSET S -> Int] : Folding(S, 0, F, pick, g)
    BY <1>4, <2>1, <2>2, FoldExists
  <2> QED BY <2>3 DEF Folding
<1>7. \A s \in SUBSET S : s # {} => s \ {pick[s]} \in SUBSET S /\ pick[s] \in S
  BY <1>2
<1>8. ASSUME NEW s \in SUBSET S
      PROVE  g[s] = IF s = {} THEN 0 ELSE f[Some(s)] + g[s \ {Some(s)}]
  <2>1. CASE s = {}
    BY <1>6, <2>1
  <2>2. CASE s # {}
    <3>1. s \in (SUBSET S) \ {{}}
      BY <2>2
    <3>2. pick[s] = Some(s) /\ pick[s] \in S /\ g[s \ {pick[s]}] \in Int
      BY <1>2, <1>3, <3>1
    <3>3. g[s] = F[pick[s]][g[s \ {pick[s]}]]
      BY <1>6, <2>2
    <3> QED BY <1>1, <2>2, <3>2, <3>3
  <2> QED BY <2>1, <2>2
<1> QED BY <1>8 DEF Sums

\* What SumFunctionOnSet chooses is such a function.
LEMMA SumIsSums ==
  ASSUME NEW S, IsFiniteSet(S), NEW f, NEW g \in [SUBSET S -> Int], Sums(f, SUBSET S, g)
  PROVE  SumFunctionOnSet(f, S) = g[S]
<1> DEFINE Body(h) == [s \in SUBSET S |-> IF s = {} THEN 0 ELSE f[Some(s)] + h[s \ {Some(s)}]]
           chosen == CHOOSE h : h = Body(h)
<1>1. SumFunctionOnSet(f, S) = chosen[S]
  BY DEF SumFunctionOnSet, FoldFunctionOnSet, MapThenFoldSet, Some
<1>2. g = Body(g)
  <2>1. \A s \in SUBSET S : g[s] = Body(g)[s]
    BY DEF Sums
  <2> QED BY <2>1
<1>3. chosen = Body(chosen)
  <2> HIDE DEF Body
  <2> QED BY <1>2
<1> DEFINE Good == {s \in SUBSET S : chosen[s] = g[s]}
<1>4. ASSUME NEW T \in SUBSET S, \A x \in T : T \ {x} \in Good
      PROVE  T \in Good
  <2>1. chosen[T] = IF T = {} THEN 0 ELSE f[Some(T)] + chosen[T \ {Some(T)}]
    <3> HIDE DEF chosen
    <3> QED BY <1>3
  <2>2. g[T] = IF T = {} THEN 0 ELSE f[Some(T)] + g[T \ {Some(T)}]
    BY DEF Sums
  <2>3. T # {} => chosen[T \ {Some(T)}] = g[T \ {Some(T)}]
    <3> HIDE DEF chosen
    <3> QED BY <1>4, SomeIn
  <2>4. chosen[T] = g[T]
    <3> HIDE DEF chosen
    <3> QED BY <2>1, <2>2, <2>3
  <2> QED BY <2>4
<1>5. SUBSET S \subseteq Good
  <2>1. \A T \in SUBSET S : (\A x \in T : T \ {x} \in Good) => T \in Good
    BY <1>4
  <2>2. \A D : (\A T \in SUBSET S : (\A x \in T : T \ {x} \in D) => T \in D)
               => SUBSET S \subseteq D
    BY SubsetInduction
  <2> HIDE DEF Good
  <2> QED BY <2>1, <2>2
<1> HIDE DEF chosen
<1>6. S \in Good
  BY <1>5
<1> QED BY <1>1, <1>6

(* Sums are numbers, and the sum of no terms is 0.                         *)
LEMMA SumType ==
  ASSUME NEW S, IsFiniteSet(S), NEW f, \A x \in S : f[x] \in Int
  PROVE  SumFunctionOnSet(f, S) \in Int /\ (S = {} => SumFunctionOnSet(f, S) = 0)
<1>1. PICK g \in [SUBSET S -> Int] : Sums(f, SUBSET S, g)
  BY SumsExist
<1>2. SumFunctionOnSet(f, S) = g[S]
  BY <1>1, SumIsSums
<1>3. S = {} => g[S] = 0
  BY <1>1 DEF Sums
<1> QED BY <1>2, <1>3

LEMMA SumStep ==
  ASSUME NEW S, IsFiniteSet(S), NEW f, \A x \in S : f[x] \in Int, S # {}
  PROVE  SumFunctionOnSet(f, S) = f[Some(S)] + SumFunctionOnSet(f, S \ {Some(S)})
<1> DEFINE T == S \ {Some(S)}
<1>1. PICK g \in [SUBSET S -> Int] : Sums(f, SUBSET S, g)
  BY SumsExist
<1>2. SumFunctionOnSet(f, S) = g[S]
  BY <1>1, SumIsSums
<1>3. IsFiniteSet(T) /\ SUBSET T \subseteq SUBSET S
  BY FS_Subset
<1> DEFINE h == [s \in SUBSET T |-> g[s]]
<1>4. h \in [SUBSET T -> Int] /\ Sums(f, SUBSET T, h)
  <2>1. h \in [SUBSET T -> Int]
    BY <1>3
  <2>2. ASSUME NEW s \in SUBSET T
        PROVE  h[s] = IF s = {} THEN 0 ELSE f[Some(s)] + h[s \ {Some(s)}]
    <3>1. h[s] = g[s] /\ h[s \ {Some(s)}] = g[s \ {Some(s)}]
      OBVIOUS
    <3> QED BY <3>1, <1>1, <1>3 DEF Sums
  <2> HIDE DEF h
  <2> QED BY <2>1, <2>2 DEF Sums
<1>5. SumFunctionOnSet(f, T) = h[T]
  <2> HIDE DEF h, T
  <2> QED BY <1>3, <1>4, SumIsSums
<1>6. g[S] = f[Some(S)] + g[T]
  BY <1>1 DEF Sums
<1> QED BY <1>2, <1>5, <1>6

(* Any term may be added first.                                            *)
LEMMA SumSplit ==
  ASSUME NEW S, IsFiniteSet(S), NEW f, \A x \in S : f[x] \in Int, NEW a \in S
  PROVE  SumFunctionOnSet(f, S) = f[a] + SumFunctionOnSet(f, S \ {a})
<1> DEFINE Sum(T) == SumFunctionOnSet(f, T)
           Good == {T \in SUBSET S : \A x \in T : Sum(T) = f[x] + Sum(T \ {x})}
<1>0. ASSUME NEW T \in SUBSET S
      PROVE  /\ IsFiniteSet(T) /\ Sum(T) \in Int /\ \A x \in T : f[x] \in Int
             /\ T # {} => Some(T) \in T /\ Sum(T) = f[Some(T)] + Sum(T \ {Some(T)})
  <2>1. IsFiniteSet(T) /\ \A x \in T : f[x] \in Int
    BY FS_Subset
  <2> QED BY <2>1, SumType, SumStep, SomeIn
<1>1. ASSUME NEW T \in SUBSET S, \A x \in T : T \ {x} \in Good
      PROVE  T \in Good
  <2>1. ASSUME NEW x \in T PROVE Sum(T) = f[x] + Sum(T \ {x})
    <3> DEFINE y == Some(T)
    <3>1. y \in T /\ Sum(T) = f[y] + Sum(T \ {y})
      BY <1>0, <2>1
    <3>2. CASE x = y
      BY <3>1, <3>2
    <3>3. CASE x # y
      <4> DEFINE R == (T \ {x}) \ {y}
      <4>1. x \in T \ {y} /\ y \in T \ {x} /\ (T \ {y}) \ {x} = R
        BY <3>1, <3>3
      <4>2. Sum(T \ {y}) = f[x] + Sum(R)
        BY <1>1, <3>1, <4>1
      <4>3. Sum(T \ {x}) = f[y] + Sum(R)
        BY <1>1, <4>1
      <4>4. Sum(R) \in Int /\ f[x] \in Int /\ f[y] \in Int
        BY <1>0, <3>1
      <4> HIDE DEF Sum, y, R
      <4> QED BY <3>1, <4>2, <4>3, <4>4
    <3> QED BY <3>2, <3>3
  <2> QED BY <2>1
<1>2. SUBSET S \subseteq Good
  <2> HIDE DEF Good
  <2> QED BY <1>1, SubsetInduction
<1> QED BY <1>2

-------------------------------------------------------------------------------
(* What a sum does with its terms.                                         *)

(* Terms that are a multiple of others plus a constant add up to the same  *)
(* multiple of their sum, plus the constant as often as there are terms.   *)
LEMMA SumLinear ==
  ASSUME NEW S, IsFiniteSet(S), NEW f, NEW g, NEW a \in Int, NEW b \in Int,
         \A x \in S : f[x] \in Int /\ g[x] \in Int /\ (g[x] % 17) = ((a * f[x] + b) % 17)
  PROVE  (SumFunctionOnSet(g, S) % 17)
           = ((a * SumFunctionOnSet(f, S) + b * Cardinality(S)) % 17)
<1> DEFINE F(T) == SumFunctionOnSet(f, T)
           H(T) == SumFunctionOnSet(g, T)
           Good == {T \in SUBSET S : (H(T) % 17) = ((a * F(T) + b * Cardinality(T)) % 17)}
<1>0. ASSUME NEW T \in SUBSET S
      PROVE  /\ IsFiniteSet(T) /\ Cardinality(T) \in Nat /\ F(T) \in Int /\ H(T) \in Int
             /\ T = {} => Cardinality(T) = 0 /\ F(T) = 0 /\ H(T) = 0
  <2>1. IsFiniteSet(T) /\ \A x \in T : f[x] \in Int /\ g[x] \in Int
    BY FS_Subset
  <2>2. Cardinality(T) \in Nat /\ (T = {} => Cardinality(T) = 0)
    BY <2>1, FS_CardinalityType, FS_EmptySet
  <2>3. F(T) \in Int /\ (T = {} => F(T) = 0)
    BY <2>1, SumType
  <2>4. H(T) \in Int /\ (T = {} => H(T) = 0)
    BY <2>1, SumType
  <2> QED BY <2>1, <2>2, <2>3, <2>4
<1>1. ASSUME NEW T \in SUBSET S, \A x \in T : T \ {x} \in Good
      PROVE  T \in Good
  <2>1. CASE T = {}
    <3>1. H(T) = 0 /\ F(T) = 0 /\ Cardinality(T) = 0
      BY <1>0, <2>1
    <3> HIDE DEF H, F
    <3>2. (H(T) % 17) = ((a * F(T) + b * Cardinality(T)) % 17)
      BY <3>1
    <3> QED BY <3>2
  <2>2. CASE T # {}
    <3> DEFINE x == Some(T)
               R == T \ {x}
    <3>1. x \in T /\ R \in SUBSET S
      BY <2>2, SomeIn
    <3>2. f[x] \in Int /\ g[x] \in Int /\ (g[x] % 17) = ((a * f[x] + b) % 17)
      <4> HIDE DEF x
      <4> QED BY <3>1
    <3>3. F(T) = f[x] + F(R) /\ H(T) = g[x] + H(R)
      <4>1. IsFiniteSet(T) /\ \A y \in T : f[y] \in Int /\ g[y] \in Int
        BY <1>0
      <4> QED BY <4>1, <2>2, SumStep
    <3>4. Cardinality(T) = Cardinality(R) + 1
      <4> HIDE DEF x
      <4>1. Cardinality(R) = Cardinality(T) - 1
        BY <3>1, <1>0, FS_RemoveElement
      <4>2. Cardinality(T) \in Nat
        BY <1>0
      <4> QED BY <4>1, <4>2
    <3>5. (H(R) % 17) = ((a * F(R) + b * Cardinality(R)) % 17)
      <4> HIDE DEF x
      <4> QED BY <1>1, <3>1
    <3>6. F(R) \in Int /\ H(R) \in Int /\ Cardinality(R) \in Nat
      BY <1>0, <3>1
    <3> HIDE DEF F, H, R, x
    <3>7. (H(T) % 17) = ((a * F(T) + b * Cardinality(T)) % 17)
      <4> DEFINE u == f[x]  v == g[x]  p == F(R)  q == H(R)  c == Cardinality(R)
      <4>1. u \in Int /\ v \in Int /\ p \in Int /\ q \in Int /\ c \in Int
        BY <3>2, <3>6
      <4>2. (v % 17) = ((a * u + b) % 17) /\ (q % 17) = ((a * p + b * c) % 17)
        BY <3>2, <3>5
      <4>3. F(T) = u + p /\ H(T) = v + q /\ Cardinality(T) = c + 1
        BY <3>3, <3>4
      <4> HIDE DEF u, v, p, q, c
      <4>4. a * u \in Int /\ a * p \in Int /\ b * c \in Int
        BY <4>1
      <4>5. a * (u + p) + b * (c + 1) = (a * u + b) + (a * p + b * c)
        BY <4>1
      <4>6. ((v + q) % 17) = (((a * u + b) + (a * p + b * c)) % 17)
        <5> DEFINE m == a * u + b  n == a * p + b * c
        <5>1. m \in Int /\ n \in Int
          BY <4>1
        <5>2. (v % 17) = (m % 17) /\ (q % 17) = (n % 17)
          BY <4>2
        <5> HIDE DEF m, n
        <5>3. ((v + q) % 17) = ((m + n) % 17)
          BY <5>1, <5>2, <4>1
        <5> QED BY <5>3 DEF m, n
      <4>7. ((v + q) % 17) = ((a * (u + p) + b * (c + 1)) % 17)
        BY <4>5, <4>6
      <4> QED BY <4>3, <4>7
    <3> QED BY <3>7 DEF H, F
  <2> QED BY <2>1, <2>2
<1>2. SUBSET S \subseteq Good
  <2>1. \A T \in SUBSET S : (\A x \in T : T \ {x} \in Good) => T \in Good
    BY <1>1
  <2> HIDE DEF Good
  <2> QED BY <2>1, SubsetInduction
<1> QED BY <1>2

(* Equal terms, equal sums.                                                *)
LEMMA SumSame ==
  ASSUME NEW S, IsFiniteSet(S), NEW f, NEW g, \A x \in S : f[x] \in Int /\ g[x] = f[x]
  PROVE  SumFunctionOnSet(g, S) = SumFunctionOnSet(f, S)
<1>1. PICK h \in [SUBSET S -> Int] : Sums(f, SUBSET S, h)
  BY SumsExist
<1>2. SumFunctionOnSet(f, S) = h[S]
  BY <1>1, SumIsSums
<1>3. Sums(g, SUBSET S, h)
  <2>1. ASSUME NEW s \in SUBSET S
        PROVE  h[s] = IF s = {} THEN 0 ELSE g[Some(s)] + h[s \ {Some(s)}]
    <3>1. h[s] = IF s = {} THEN 0 ELSE f[Some(s)] + h[s \ {Some(s)}]
      BY <1>1 DEF Sums
    <3>2. s # {} => g[Some(s)] = f[Some(s)]
      BY SomeIn
    <3> QED BY <3>1, <3>2
  <2> QED BY <2>1 DEF Sums
<1>4. SumFunctionOnSet(g, S) = h[S]
  BY <1>3, SumIsSums
<1> QED BY <1>2, <1>4

(* A sum whose term at a changes by d changes by d.                        *)
LEMMA SumUpdate ==
  ASSUME NEW S, IsFiniteSet(S), NEW f, NEW g, NEW a \in S,
         \A x \in S : f[x] \in Int /\ g[x] \in Int /\ (x # a => g[x] = f[x])
  PROVE  SumFunctionOnSet(g, S) = SumFunctionOnSet(f, S) + (g[a] - f[a])
<1> DEFINE R == S \ {a}
<1>1. SumFunctionOnSet(f, S) = f[a] + SumFunctionOnSet(f, R)
  BY SumSplit
<1>2. SumFunctionOnSet(g, S) = g[a] + SumFunctionOnSet(g, R)
  BY SumSplit
<1>3. IsFiniteSet(R)
  BY FS_Subset
<1>4. \A x \in R : f[x] \in Int /\ g[x] = f[x]
  OBVIOUS
<1>5. SumFunctionOnSet(g, R) = SumFunctionOnSet(f, R)
  <2> HIDE DEF R
  <2> QED BY <1>3, <1>4, SumSame
<1>6. SumFunctionOnSet(f, R) \in Int
  <2> HIDE DEF R
  <2> QED BY <1>3, <1>4, SumType
<1>7. f[a] \in Int /\ g[a] \in Int
  OBVIOUS
<1> HIDE DEF R
<1> QED BY <1>1, <1>2, <1>5, <1>6, <1>7

(* The total of a vector of amplitudes is an amplitude.                    *)
LEMMA TotalType ==
  ASSUME NEW S, IsFiniteSet(S), NEW f, DOMAIN f = S, \A x \in S : f[x] \in Int
  PROVE  Total(f) \in Amplitude
<1>1. SumFunctionOnSet(f, S) \in Int
  BY SumType
<1>2. Total(f) = (SumFunctionOnSet(f, S) % 17)
  BY DEF Total, SumFunction, SumFunctionOnSet, FoldFunction
<1> QED BY <1>1, <1>2 DEF Amplitude

LEMMA TwoTerms ==
  ASSUME NEW f, f[1] \in Int, f[2] \in Int
  PROVE  SumFunctionOnSet(f, 1..2) = f[1] + f[2]
<1>1. IsFiniteSet({}) /\ IsFiniteSet({1}) /\ IsFiniteSet({1, 2})
  <2>1. IsFiniteSet({1})
    BY FS_Singleton
  <2>2. {1, 2} = {1} \cup {2}
    OBVIOUS
  <2>3. IsFiniteSet({1} \cup {2})
    BY <2>1, FS_AddElement
  <2> QED BY <2>1, <2>2, <2>3, FS_EmptySet
<1>2. SumFunctionOnSet(f, {1, 2}) = f[2] + SumFunctionOnSet(f, {1})
  <2>1. {1, 2} \ {2} = {1} /\ \A x \in {1, 2} : f[x] \in Int
    OBVIOUS
  <2>2. SumFunctionOnSet(f, {1, 2}) = f[2] + SumFunctionOnSet(f, {1, 2} \ {2})
    BY <1>1, <2>1, SumSplit
  <2> QED BY <2>1, <2>2
<1>3. SumFunctionOnSet(f, {1}) = f[1] + SumFunctionOnSet(f, {})
  <2>1. {1} \ {1} = {} /\ \A x \in {1} : f[x] \in Int
    OBVIOUS
  <2>2. SumFunctionOnSet(f, {1}) = f[1] + SumFunctionOnSet(f, {1} \ {1})
    BY <1>1, <2>1, SumSplit
  <2> QED BY <2>1, <2>2
<1>4. SumFunctionOnSet(f, {}) = 0
  BY <1>1, SumType
<1>5. 1..2 = {1, 2}
  OBVIOUS
<1> QED BY <1>2, <1>3, <1>4, <1>5

(* One term among others that are 0.                                       *)
LEMMA OneTerm ==
  ASSUME NEW S, IsFiniteSet(S), NEW f, NEW a \in S, f[a] \in Int,
         \A x \in S : x # a => f[x] = 0
  PROVE  SumFunctionOnSet(f, S) = f[a]
<1> DEFINE Good == {T \in SUBSET S : a \notin T => SumFunctionOnSet(f, T) = 0}
<1>0. ASSUME NEW T \in SUBSET S PROVE IsFiniteSet(T) /\ \A x \in T : f[x] \in Int
  BY FS_Subset
<1>1. ASSUME NEW T \in SUBSET S, \A x \in T : T \ {x} \in Good
      PROVE  T \in Good
  <2> SUFFICES ASSUME a \notin T PROVE SumFunctionOnSet(f, T) = 0
    OBVIOUS
  <2>1. CASE T = {}
    BY <1>0, <2>1, SumType
  <2>2. CASE T # {}
    <3>1. PICK x \in T : TRUE
      BY <2>2
    <3>2. SumFunctionOnSet(f, T) = f[x] + SumFunctionOnSet(f, T \ {x})
      BY <1>0, SumSplit
    <3>3. f[x] = 0 /\ SumFunctionOnSet(f, T \ {x}) = 0
      BY <1>1
    <3> QED BY <3>2, <3>3
  <2> QED BY <2>1, <2>2
<1>2. SUBSET S \subseteq Good
  <2>1. \A T \in SUBSET S : (\A x \in T : T \ {x} \in Good) => T \in Good
    BY <1>1
  <2>2. \A H : (\A T \in SUBSET S : (\A x \in T : T \ {x} \in H) => T \in H)
               => SUBSET S \subseteq H
    BY SubsetInduction
  <2> HIDE DEF Good
  <2> QED BY <2>1, <2>2
<1>3. SumFunctionOnSet(f, S \ {a}) = 0
  BY <1>2
<1>4. SumFunctionOnSet(f, S) = f[a] + SumFunctionOnSet(f, S \ {a})
  <2>1. \A x \in S : f[x] \in Int
    OBVIOUS
  <2> QED BY <2>1, SumSplit
<1> QED BY <1>3, <1>4

-------------------------------------------------------------------------------
(* Sums of the first terms.                                                *)

Prefix(f, n) == SumFunctionOnSet(f, 0..(n - 1))

\* The first n terms of f are numbers.
Summable(f, n) == \A x \in 0..(n - 1) : f[x] \in Int

\* The l terms of g are those of f from b on.
PartOf(g, l, f, b) == \A k \in 0..(l - 1) : g[k] = f[b + k]

LEMMA PrefixStep ==
  ASSUME NEW n \in Nat, NEW f, \A x \in 0..(n - 1) : f[x] \in Int
  PROVE  /\ Prefix(f, 0) = 0
         /\ \A m \in 0..n : Prefix(f, m) \in Int
         /\ \A m \in 0..(n - 1) : Prefix(f, m + 1) = f[m] + Prefix(f, m)
<1>1. ASSUME NEW m \in 0..n
      PROVE  IsFiniteSet(0..(m - 1)) /\ \A x \in 0..(m - 1) : f[x] \in Int
  <2>1. IsFiniteSet(0..(m - 1))
    <3>1. m - 1 \in Int /\ 0 \in Int
      OBVIOUS
    <3> QED BY <3>1, FS_Interval
  <2> QED BY <2>1
<1>2. Prefix(f, 0) = 0
  <2>1. 0 \in 0..n /\ 0..(0 - 1) = {}
    OBVIOUS
  <2> QED BY <1>1, <2>1, SumType DEF Prefix
<1>3. \A m \in 0..n : Prefix(f, m) \in Int
  BY <1>1, SumType DEF Prefix
<1>4. ASSUME NEW m \in 0..(n - 1)
      PROVE  Prefix(f, m + 1) = f[m] + Prefix(f, m)
  <2> DEFINE S == 0..((m + 1) - 1)
  <2>1. m + 1 \in 0..n /\ m \in S /\ S \ {m} = 0..(m - 1)
    OBVIOUS
  <2>2. IsFiniteSet(S) /\ \A x \in S : f[x] \in Int
    BY <1>1, <2>1
  <2>3. SumFunctionOnSet(f, S) = f[m] + SumFunctionOnSet(f, S \ {m})
    <3>1. m \in S
      BY <2>1
    <3> HIDE DEF S
    <3> QED BY <2>2, <3>1, SumSplit
  <2> QED BY <2>1, <2>3 DEF Prefix
<1> QED BY <1>2, <1>3, <1>4

(* The sums of a part of a sequence are those of the sequence but for what *)
(* comes before.                                                           *)
LEMMA PrefixOfPart ==
  ASSUME NEW n \in Nat, NEW f, Summable(f, n),
         NEW b \in Nat, NEW l \in Nat, b + l <= n, NEW g, PartOf(g, l, f, b)
  PROVE  \A j \in 0..l : Prefix(g, j) = Prefix(f, b + j) - Prefix(f, b)
<1>1. /\ \A m \in 0..n : Prefix(f, m) \in Int
      /\ \A m \in 0..(n - 1) : Prefix(f, m + 1) = f[m] + Prefix(f, m)
  BY PrefixStep DEF Summable
<1>2. \A k \in 0..(l - 1) : b + k \in 0..(n - 1) /\ g[k] = f[b + k] /\ g[k] \in Int
  BY DEF PartOf, Summable
<1>3. /\ Prefix(g, 0) = 0
      /\ \A m \in 0..l : Prefix(g, m) \in Int
      /\ \A m \in 0..(l - 1) : Prefix(g, m + 1) = g[m] + Prefix(g, m)
  BY <1>2, PrefixStep
<1> DEFINE G == {j \in Nat : j <= l => Prefix(g, j) = Prefix(f, b + j) - Prefix(f, b)}
<1>4. 0 \in G
  <2>1. b \in 0..n /\ b + 0 = b
    OBVIOUS
  <2>2. Prefix(f, b) \in Int
    BY <1>1, <2>1
  <2> QED BY <1>3, <2>1, <2>2
<1>5. ASSUME NEW j \in G PROVE j + 1 \in G
  <2> SUFFICES ASSUME j + 1 <= l
               PROVE  Prefix(g, j + 1) = Prefix(f, b + (j + 1)) - Prefix(f, b)
    BY <1>5
  <2>1. j \in Nat /\ Prefix(g, j) = Prefix(f, b + j) - Prefix(f, b)
    BY <1>5
  <2>2. j \in 0..(l - 1) /\ b + j \in 0..(n - 1) /\ b \in 0..n /\ b + j \in 0..n
        /\ b + (j + 1) = (b + j) + 1
    BY <2>1
  <2>3. Prefix(g, j + 1) = f[b + j] + Prefix(g, j)
    BY <1>2, <1>3, <2>2
  <2>4. Prefix(f, b + (j + 1)) = f[b + j] + Prefix(f, b + j)
    BY <1>1, <2>2
  <2>5. f[b + j] \in Int /\ Prefix(f, b + j) \in Int /\ Prefix(f, b) \in Int
    BY <1>1, <2>2 DEF Summable
  <2> HIDE DEF G
  <2> QED BY <2>1, <2>3, <2>4, <2>5
<1>6. G = Nat
  <2>1. G \in SUBSET Nat
    OBVIOUS
  <2> HIDE DEF G
  <2> QED BY <1>4, <1>5, <2>1, NumberInduction
<1> QED BY <1>6

-------------------------------------------------------------------------------
(* The next iteration of a nest of two or of three loops.                  *)

LEMMA EarlierPair ==
  ASSUME NEW p \in Nat \X Nat, NEW q \in Nat \X Nat
  PROVE  Earlier(p, q) <=> p[1] < q[1] \/ (p[1] = q[1] /\ p[2] < q[2])
<1>1. Len(p) = 2
  OBVIOUS
<1>2. Earlier(p, q) <=> \E i \in 1..2 : p[i] < q[i] /\ \A j \in 1..(i - 1) : p[j] = q[j]
  BY <1>1 DEF Earlier
<1>3. ASSUME Earlier(p, q) PROVE p[1] < q[1] \/ (p[1] = q[1] /\ p[2] < q[2])
  <2>1. PICK i \in 1..2 : p[i] < q[i] /\ \A j \in 1..(i - 1) : p[j] = q[j]
    BY <1>2, <1>3
  <2>2. CASE i = 1
    BY <2>1, <2>2
  <2>3. CASE i = 2
    <3>1. 1 \in 1..(i - 1)
      BY <2>3
    <3> QED BY <2>1, <2>3, <3>1
  <2> QED BY <2>2, <2>3
<1>4. ASSUME p[1] < q[1] PROVE Earlier(p, q)
  <2>1. 1 \in 1..2 /\ \A j \in 1..(1 - 1) : p[j] = q[j]
    OBVIOUS
  <2> QED BY <1>2, <1>4, <2>1
<1>5. ASSUME p[1] = q[1], p[2] < q[2] PROVE Earlier(p, q)
  <2>1. 2 \in 1..2 /\ \A j \in 1..(2 - 1) : p[j] = q[j]
    <3>1. \A j \in 1..(2 - 1) : j = 1
      OBVIOUS
    <3> QED BY <1>5, <3>1
  <2> QED BY <1>2, <1>5, <2>1
<1> QED BY <1>3, <1>4, <1>5

LEMMA EarlierTriple ==
  ASSUME NEW p \in Nat \X Nat \X Nat, NEW q \in Nat \X Nat \X Nat
  PROVE  Earlier(p, q) <=> \/ p[1] < q[1]
                           \/ p[1] = q[1] /\ p[2] < q[2]
                           \/ p[1] = q[1] /\ p[2] = q[2] /\ p[3] < q[3]
<1>1. Len(p) = 3
  OBVIOUS
<1>2. Earlier(p, q) <=> \E i \in 1..3 : p[i] < q[i] /\ \A j \in 1..(i - 1) : p[j] = q[j]
  BY <1>1 DEF Earlier
<1>3. ASSUME Earlier(p, q)
      PROVE  \/ p[1] < q[1]
             \/ p[1] = q[1] /\ p[2] < q[2]
             \/ p[1] = q[1] /\ p[2] = q[2] /\ p[3] < q[3]
  <2>1. PICK i \in 1..3 : p[i] < q[i] /\ \A j \in 1..(i - 1) : p[j] = q[j]
    BY <1>2, <1>3
  <2>2. CASE i = 1
    BY <2>1, <2>2
  <2>3. CASE i = 2
    <3>1. 1 \in 1..(i - 1)
      BY <2>3
    <3> QED BY <2>1, <2>3, <3>1
  <2>4. CASE i = 3
    <3>1. 1 \in 1..(i - 1) /\ 2 \in 1..(i - 1)
      BY <2>4
    <3> QED BY <2>1, <2>4, <3>1
  <2> QED BY <2>2, <2>3, <2>4
<1>4. ASSUME p[1] < q[1] PROVE Earlier(p, q)
  <2>1. 1 \in 1..3 /\ \A j \in 1..(1 - 1) : p[j] = q[j]
    OBVIOUS
  <2> QED BY <1>2, <1>4, <2>1
<1>5. ASSUME p[1] = q[1], p[2] < q[2] PROVE Earlier(p, q)
  <2>1. 2 \in 1..3 /\ \A j \in 1..(2 - 1) : p[j] = q[j]
    <3>1. \A j \in 1..(2 - 1) : j = 1
      OBVIOUS
    <3> QED BY <1>5, <3>1
  <2> QED BY <1>2, <1>5, <2>1
<1>6. ASSUME p[1] = q[1], p[2] = q[2], p[3] < q[3] PROVE Earlier(p, q)
  <2>1. 3 \in 1..3 /\ \A j \in 1..(3 - 1) : p[j] = q[j]
    <3>1. \A j \in 1..(3 - 1) : j = 1 \/ j = 2
      OBVIOUS
    <3> QED BY <1>6, <3>1
  <2> QED BY <1>2, <1>6, <2>1
<1> QED BY <1>3, <1>4, <1>5, <1>6

(* The iterations left of a nest of two loops have an earliest one.        *)
LEMMA EarliestPair ==
  ASSUME NEW S \in SUBSET (Nat \X Nat), S # {}
  PROVE  Earliest(S) \in S /\ \A q \in S \ {Earliest(S)} : Earlier(Earliest(S), q)
<1>1. PICK a \in {p[1] : p \in S} : \A b \in {p[1] : p \in S} : a <= b
  <2>1. {p[1] : p \in S} \in SUBSET Nat /\ {p[1] : p \in S} # {}
    OBVIOUS
  <2> QED BY <2>1, LeastNumber
<1> DEFINE N == {p[2] : p \in {q \in S : q[1] = a}}
<1>2. PICK b \in N : \A c \in N : b <= c
  <2>1. N \in SUBSET Nat /\ N # {}
    OBVIOUS
  <2> QED BY <2>1, LeastNumber
<1>3. PICK p \in S : p[1] = a /\ p[2] = b
  OBVIOUS
<1>4. ASSUME NEW q \in S \ {p} PROVE Earlier(p, q)
  <2>1. a <= q[1] /\ (q[1] = a => b <= q[2])
    BY <1>1, <1>2
  <2>2. q[1] # a \/ q[2] # b
    <3>1. p = <<p[1], p[2]>> /\ q = <<q[1], q[2]>>
      OBVIOUS
    <3> QED BY <1>3, <3>1
  <2>3. a \in Nat /\ b \in Nat /\ q[1] \in Nat /\ q[2] \in Nat
    BY <1>3
  <2>4. p[1] < q[1] \/ (p[1] = q[1] /\ p[2] < q[2])
    <3> HIDE DEF N
    <3> QED BY <1>3, <2>1, <2>2, <2>3
  <2>5. p \in Nat \X Nat /\ q \in Nat \X Nat
    OBVIOUS
  <2> QED BY <2>4, <2>5, EarlierPair
<1>5. \E e \in S : \A q \in S \ {e} : Earlier(e, q)
  BY <1>4
<1> QED BY <1>5 DEF Earliest

(* And so do those of a nest of three.                                     *)
LEMMA EarliestTriple ==
  ASSUME NEW S \in SUBSET (Nat \X Nat \X Nat), S # {}
  PROVE  Earliest(S) \in S /\ \A q \in S \ {Earliest(S)} : Earlier(Earliest(S), q)
<1>1. PICK a \in {p[1] : p \in S} : \A b \in {p[1] : p \in S} : a <= b
  <2>1. {p[1] : p \in S} \in SUBSET Nat /\ {p[1] : p \in S} # {}
    OBVIOUS
  <2> QED BY <2>1, LeastNumber
<1> DEFINE M == {p[2] : p \in {q \in S : q[1] = a}}
<1>2. PICK b \in M : \A c \in M : b <= c
  <2>1. M \in SUBSET Nat /\ M # {}
    OBVIOUS
  <2> QED BY <2>1, LeastNumber
<1> DEFINE N == {p[3] : p \in {q \in S : q[1] = a /\ q[2] = b}}
<1>3. PICK c \in N : \A d \in N : c <= d
  <2>1. N \in SUBSET Nat /\ N # {}
    OBVIOUS
  <2> QED BY <2>1, LeastNumber
<1>4. PICK p \in S : p[1] = a /\ p[2] = b /\ p[3] = c
  OBVIOUS
<1>5. ASSUME NEW q \in S \ {p} PROVE Earlier(p, q)
  <2>1. a <= q[1] /\ (q[1] = a => b <= q[2]) /\ (q[1] = a /\ q[2] = b => c <= q[3])
    BY <1>1, <1>2, <1>3
  <2>2. q[1] # a \/ q[2] # b \/ q[3] # c
    <3>1. p = <<p[1], p[2], p[3]>> /\ q = <<q[1], q[2], q[3]>>
      OBVIOUS
    <3> QED BY <1>4, <3>1
  <2>3. /\ a \in Nat /\ b \in Nat /\ c \in Nat
        /\ q[1] \in Nat /\ q[2] \in Nat /\ q[3] \in Nat
    BY <1>4
  <2>4. \/ p[1] < q[1]
        \/ p[1] = q[1] /\ p[2] < q[2]
        \/ p[1] = q[1] /\ p[2] = q[2] /\ p[3] < q[3]
    <3> HIDE DEF M, N
    <3> QED BY <1>4, <2>1, <2>2, <2>3
  <2>5. p \in Nat \X Nat \X Nat /\ q \in Nat \X Nat \X Nat
    OBVIOUS
  <2> QED BY <2>4, <2>5, EarlierTriple
<1>6. \E e \in S : \A q \in S \ {e} : Earlier(e, q)
  BY <1>5
<1> QED BY <1>6 DEF Earliest

-------------------------------------------------------------------------------
(* Layouts and masks.  The mask of a qubit is a power of two below the     *)
(* number of states, so twice the mask divides it, and every chunk width   *)
(* above the mask that is a power of two as well.                          *)

Sized(lay, mask) ==
  /\ lay.states \in Nat \ {0}
  /\ lay.width \in Nat \ {0}
  /\ mask \in Nat \ {0}
  /\ (lay.states % (2 * mask)) = 0
  /\ IsPowerOf2(lay.width) /\ mask < lay.width => (lay.width % (2 * mask)) = 0

\* A call for two states that differ in the target bit, where the layout
\* keeps them.
IsPair(lay, mask, call) ==
  /\ call.state0 \in 0..(lay.states - 1)
  /\ ((call.state0 \div mask) % 2) = 0
  /\ call.state1 = call.state0 + mask
  /\ call.state1 \in 0..(lay.states - 1)
  /\ call.ref0 = StateRef(lay, call.state0)
  /\ call.ref1 = StateRef(lay, call.state1)

Modes == {"Fallback", "IntraChunk", "InterChunk"}

(* A state of the layout lives in one of its chunks, at an offset the      *)
(* chunk has, also in the last, partial one.                               *)
LEMMA StateInChunk ==
  ASSUME NEW lay, lay.states \in Nat \ {0}, lay.width \in Nat \ {0},
         NEW s \in 0..(lay.states - 1)
  PROVE  /\ StateRef(lay, s).chunk \in ChunkIndices(lay)
         /\ StateRef(lay, s).local \in 0..(lay.width - 1)
         /\ StateRef(lay, s).local < StatesInChunk(lay, StateRef(lay, s).chunk)
<1> DEFINE n == lay.states  w == lay.width  c == s \div w  r == s % w
<1>0. n \in Nat \ {0} /\ w \in Nat \ {0} /\ s \in 0..(n - 1)
  OBVIOUS
<1> HIDE DEF n, w
<1>1. c \in Nat /\ r \in 0..(w - 1) /\ s = w * c + r
  <2>1. s \in Nat
    BY <1>0
  <2> QED BY <1>0, <2>1, Division
<1>2. c \in 0..((n + w - 1) \div w - 1)
  <2>1. c < (n + w - 1) \div w
    BY <1>0
  <2>2. (n + w - 1) \div w \in Nat
    BY <1>0
  <2> HIDE DEF c
  <2> QED BY <1>1, <2>1, <2>2
<1>3. r < n - c * w
  <2> HIDE DEF c, r
  <2> QED BY <1>0, <1>1
<1> QED
  BY <1>1, <1>2, <1>3 DEF StateRef, ChunkIndices, ChunkCount, StatesInChunk,
                          ChunkStateBegin, n, w

LEMMA RefInChunk ==
  ASSUME NEW lay, lay.width \in Nat \ {0}, NEW c \in Nat, NEW r \in 0..(lay.width - 1)
  PROVE  StateRef(lay, ChunkStateBegin(lay, c) + r) = [chunk |-> c, local |-> r]
<1> DEFINE w == lay.width
<1>1. w \in Nat \ {0} /\ r \in Nat /\ r < w
  OBVIOUS
<1> HIDE DEF w
<1>2. (w * c + r) \div w = c /\ ((w * c + r) % w) = r
  BY <1>1, DivisionUnique
<1>3. c * w = w * c
  BY <1>1
<1> QED BY <1>2, <1>3 DEF StateRef, ChunkStateBegin, w

(* A state at an offset below the mask from a multiple of twice the mask   *)
(* has the target bit clear, and its partner comes before the next such    *)
(* multiple.                                                               *)
LEMMA LowerState ==
  ASSUME NEW mask \in Nat \ {0}, NEW n \in Nat, (n % (2 * mask)) = 0,
         NEW base \in Nat, (base % (2 * mask)) = 0, NEW offset \in 0..(mask - 1), base < n
  PROVE  /\ base + offset + mask < n
         /\ (((base + offset) \div mask) % 2) = 0
<1> DEFINE q == base \div (2 * mask)
           k == n \div (2 * mask)
<1>0. 2 * mask \in Nat \ {0}
  OBVIOUS
<1>1. q \in Nat /\ base = 2 * mask * q
  BY <1>0, MultipleOf
<1>2. k \in Nat /\ n = 2 * mask * k
  BY <1>0, MultipleOf
<1> HIDE DEF q, k
<1>3. 2 * mask * q + 2 * mask <= 2 * mask * k
  BY <1>0, <1>1, <1>2, FactorsInOrder
<1>4. base + offset = mask * (2 * q) + offset /\ 2 * q \in Nat /\ offset \in Nat /\ offset < mask
  BY <1>1
<1>5. (base + offset) \div mask = 2 * q
  BY <1>4, DivisionUnique
<1>6. ((2 * q) % 2) = 0
  BY <1>1
<1> QED BY <1>1, <1>2, <1>3, <1>5, <1>6

-------------------------------------------------------------------------------
(* The calls of each traversal.                                            *)

LEMMA FallbackCall ==
  ASSUME NEW lay, NEW mask, Sized(lay, mask), NEW it \in FallbackIterations(lay, mask)
  PROVE  /\ it \in Nat \X Nat
         /\ IsPair(lay, mask, Call("Fallback", lay, mask, it))
<1> DEFINE n == lay.states
<1>1. n \in Nat \ {0} /\ mask \in Nat \ {0} /\ (n % (2 * mask)) = 0
  BY DEF Sized
<1>2. it[1] \in 0..(n - 1) /\ (it[1] % (2 * mask)) = 0 /\ it[2] \in 0..(mask - 1) /\ it = <<it[1], it[2]>>
  BY DEF FallbackIterations, Multiples
<1> HIDE DEF n
<1>3. it[1] \in Nat /\ it[2] \in Nat /\ it[1] < n
  BY <1>1, <1>2
<1>4. it[1] + it[2] + mask < n /\ (((it[1] + it[2]) \div mask) % 2) = 0
  BY <1>1, <1>2, <1>3, LowerState
<1>5. it[1] + it[2] \in 0..(n - 1) /\ it[1] + it[2] + mask \in 0..(n - 1)
  BY <1>1, <1>3, <1>4
<1>6. it \in Nat \X Nat
  BY <1>2, <1>3
<1>7. IsPair(lay, mask, Call("Fallback", lay, mask, it))
  BY <1>4, <1>5 DEF IsPair, Call, n
<1> QED BY <1>6, <1>7

LEMMA IntraCall ==
  ASSUME NEW lay, NEW mask, Sized(lay, mask), SelectMode(lay, mask) = "IntraChunk",
         NEW it \in IntraIterations(lay, mask)
  PROVE  /\ it \in Nat \X Nat \X Nat
         /\ IsPair(lay, mask, Call("IntraChunk", lay, mask, it))
<1> DEFINE n == lay.states  w == lay.width  c == it[1]  b == it[2]  o == it[3]
           here == StatesInChunk(lay, c)
<1>1. n \in Nat \ {0} /\ w \in Nat \ {0} /\ mask \in Nat \ {0} /\ (n % (2 * mask)) = 0
  BY DEF Sized
<1>2. mask < w /\ (w % (2 * mask)) = 0
  BY DEF SelectMode, Sized
<1>3. /\ it = <<c, b, o>> /\ c \in 0..((n + w - 1) \div w - 1)
      /\ o \in 0..(mask - 1) /\ b \in 0..(w - 1)
      /\ (b % (2 * mask)) = 0 /\ b + o + mask < here
  BY DEF IntraIterations, Multiples, ChunkIndices, ChunkCount
<1>4. here = IF w < n - c * w THEN w ELSE n - c * w
  BY DEF StatesInChunk, ChunkStateBegin
<1> HIDE DEF n, w, c, b, o, here
<1>5. (n + w - 1) \div w \in Nat
  BY <1>1
<1>6. c \in Nat /\ b \in Nat /\ o \in Nat
  BY <1>1, <1>3, <1>5
<1>7. b + o + mask < w /\ b + o + mask < n - c * w /\ c * w \in Nat /\ b + o \in Nat
  BY <1>1, <1>3, <1>4, <1>6
<1>8. (((c * w + b) % (2 * mask)) = 0)
  <2> DEFINE d == 2 * mask  u == w \div d  v == b \div d
  <2>1. d \in Nat \ {0}
    BY <1>1
  <2>2. u \in Nat /\ w = d * u /\ v \in Nat /\ b = d * v
    BY <1>1, <1>2, <1>3, <1>6, <2>1, MultipleOf
  <2> HIDE DEF d, u, v
  <2>3. c * w + b = d * (c * u + v) + 0 /\ c * u + v \in Nat
    BY <1>6, <2>1, <2>2
  <2>4. ((d * (c * u + v) + 0) % d) = 0
    BY <2>1, <2>3, DivisionUnique
  <2> QED BY <2>3, <2>4 DEF d
<1>9. (((c * w + b + o) \div mask) % 2) = 0
  <2>1. c * w + b \in Nat /\ c * w + b < n
    BY <1>1, <1>6, <1>7
  <2> QED BY <1>1, <1>3, <1>8, <2>1, LowerState
<1>10. /\ c * w + (b + o) \in 0..(n - 1) /\ c * w + (b + o) + mask \in 0..(n - 1)
       /\ b + o \in 0..(w - 1) /\ b + o + mask \in 0..(w - 1)
       /\ c * w + b + o = c * w + (b + o)
       /\ c * w + (b + o) + mask = c * w + (b + o + mask)
  BY <1>1, <1>6, <1>7
<1>11. /\ StateRef(lay, c * w + (b + o)) = [chunk |-> c, local |-> b + o]
       /\ StateRef(lay, c * w + (b + o) + mask) = [chunk |-> c, local |-> b + o + mask]
  BY <1>1, <1>6, <1>10, RefInChunk DEF ChunkStateBegin, w
<1>12. IsPair(lay, mask, Call("IntraChunk", lay, mask, it))
  <2> DEFINE call == [state0 |-> c * w + (b + o), state1 |-> c * w + (b + o) + mask,
                      ref0 |-> [chunk |-> c, local |-> b + o],
                      ref1 |-> [chunk |-> c, local |-> b + o + mask]]
  <2>1. Call("IntraChunk", lay, mask, it) = call
    BY DEF Call, ChunkStateBegin, c, b, o, w
  <2>2. IsPair(lay, mask, call)
    BY <1>9, <1>10, <1>11 DEF IsPair, n
  <2> QED BY <2>1, <2>2
<1>13. it \in Nat \X Nat \X Nat
  BY <1>3, <1>6
<1> QED BY <1>12, <1>13
LEMMA InterCall ==
  ASSUME NEW lay, NEW mask, Sized(lay, mask), SelectMode(lay, mask) = "InterChunk",
         NEW it \in InterIterations(lay, mask)
  PROVE  /\ it \in Nat \X Nat \X Nat
         /\ IsPair(lay, mask, Call("InterChunk", lay, mask, it))
<1> DEFINE n == lay.states  w == lay.width  g == it[1]  o == it[2]  r == it[3]
           delta == mask \div w
           c == g + o
           count == ChunkCount(lay)
<1>1. n \in Nat \ {0} /\ w \in Nat \ {0} /\ mask \in Nat \ {0}
  BY DEF Sized
<1>2. mask >= w /\ (mask % w) = 0
  BY DEF SelectMode
<1>3. /\ it = <<g, o, r>> /\ g \in 0..(count - 1) /\ o \in 0..(delta - 1) /\ r \in 0..(w - 1)
      /\ (g % (2 * delta)) = 0 /\ g + o + delta < count
      /\ r < StatesInChunk(lay, c) /\ r < StatesInChunk(lay, c + delta)
  BY DEF InterIterations, Multiples, ChunkIndices
<1>4. count \in Nat
  BY <1>1 DEF ChunkCount
<1> HIDE DEF n, w, g, o, r, count
<1>5. delta \in Nat \ {0} /\ mask = w * delta
  <2>1. delta \in Nat /\ mask = w * delta
    BY <1>1, <1>2, MultipleOf
  <2> HIDE DEF delta
  <2>2. delta # 0
    <3> SUFFICES ASSUME delta = 0 PROVE FALSE
      OBVIOUS
    <3>1. w * 0 = 0
      BY <1>1
    <3> QED BY <1>1, <2>1, <3>1
  <2> QED BY <2>1, <2>2
<1> HIDE DEF delta
<1>6. g \in Nat /\ o \in Nat /\ r \in Nat /\ c \in Nat /\ r < w /\ o < delta
  BY <1>1, <1>3, <1>4, <1>5
<1>7. r < n - c * w /\ r < n - (c + delta) * w
  <2>1. ASSUME NEW d \in Nat, r < StatesInChunk(lay, d) PROVE r < n - d * w
    <3>1. StatesInChunk(lay, d) = IF w < n - d * w THEN w ELSE n - d * w
      BY DEF StatesInChunk, ChunkStateBegin, n, w
    <3>2. d * w \in Nat
      BY <1>1
    <3> QED BY <1>1, <1>6, <2>1, <3>1, <3>2
  <2>2. c + delta \in Nat
    BY <1>5, <1>6
  <2> HIDE DEF c
  <2> QED BY <1>3, <1>6, <2>1, <2>2
<1>8. ((((c * w + r) \div mask)) % 2) = 0
  <2> DEFINE d == 2 * delta  u == g \div d
  <2>1. d \in Nat \ {0} /\ u \in Nat /\ g = d * u
    <3>1. d \in Nat \ {0}
      BY <1>5
    <3> HIDE DEF d
    <3>2. (g % d) = 0
      BY <1>3 DEF d
    <3> QED BY <1>6, <3>1, <3>2, MultipleOf
  <2> HIDE DEF u
  <2>2. o * w + r < mask /\ o * w + r \in Nat
    <3>1. w * o + w <= w * delta
      <4>1. delta - o - 1 \in Nat
        BY <1>5, <1>6
      <4>2. w * (delta - o - 1) \in Nat
        BY <1>1, <4>1
      <4>3. w * delta = w * o + w + w * (delta - o - 1)
        BY <1>1, <1>5, <1>6
      <4> QED BY <1>1, <1>5, <1>6, <4>2, <4>3
    <3>2. o * w = w * o /\ w * o \in Nat
      BY <1>1, <1>6
    <3> QED BY <1>1, <1>5, <1>6, <3>1, <3>2
  <2>3. c * w + r = mask * (2 * u) + (o * w + r)
    <3>1. (2 * delta * u) * w = (w * delta) * (2 * u)
      BY <1>1, <1>5, <2>1
    <3>2. (g + o) * w = g * w + o * w
      BY <1>1, <1>6
    <3> QED BY <1>1, <1>5, <1>6, <2>1, <3>1, <3>2
  <2>4. (mask * (2 * u) + (o * w + r)) \div mask = 2 * u
    <3>1. 2 * u \in Nat
      BY <2>1
    <3> QED BY <1>1, <2>2, <3>1, DivisionUnique
  <2>5. ((2 * u) % 2) = 0
    BY <2>1
  <2> QED BY <2>3, <2>4, <2>5
<1>9. (c + delta) * w + r = (c * w + r) + mask
  BY <1>1, <1>5, <1>6
<1>10. c * w + r \in 0..(n - 1) /\ (c * w + r) + mask \in 0..(n - 1)
  <2>1. c * w \in Nat /\ (c + delta) * w \in Nat
    BY <1>1, <1>5, <1>6
  <2> HIDE DEF c
  <2> QED BY <1>1, <1>6, <1>7, <1>9, <2>1
<1>11. /\ StateRef(lay, c * w + r) = [chunk |-> c, local |-> r]
       /\ StateRef(lay, (c + delta) * w + r) = [chunk |-> c + delta, local |-> r]
  <2>1. c + delta \in Nat /\ r \in 0..(w - 1)
    BY <1>1, <1>5, <1>6
  <2> HIDE DEF c
  <2> QED BY <1>1, <1>6, <2>1, RefInChunk DEF ChunkStateBegin, w
<1>12. IsPair(lay, mask, Call("InterChunk", lay, mask, it))
  <2> DEFINE call == [state0 |-> c * w + r, state1 |-> (c + delta) * w + r,
                      ref0 |-> [chunk |-> c, local |-> r],
                      ref1 |-> [chunk |-> c + delta, local |-> r]]
  <2>1. Call("InterChunk", lay, mask, it) = call
    BY DEF Call, ChunkStateBegin, g, o, r, w, delta
  <2>2. IsPair(lay, mask, call)
    <3> HIDE DEF c
    <3> QED BY <1>8, <1>9, <1>10, <1>11 DEF IsPair, n
  <2> QED BY <2>1, <2>2
<1>13. it \in Nat \X Nat \X Nat
  BY <1>3, <1>6
<1> QED BY <1>12, <1>13

(* The traversal chosen, or the one used when a cache cannot hold a pair.  *)
Chosen(lay, mask) == {SelectMode(lay, mask), "Fallback"}

LEMMA ChosenModes ==
  ASSUME NEW lay, NEW mask
  PROVE  SelectMode(lay, mask) \in Modes /\ Chosen(lay, mask) \subseteq Modes
BY DEF SelectMode, Chosen, Modes

(* Whatever traversal is chosen, each of its calls is for a pair.          *)
LEMMA CallIsPair ==
  ASSUME NEW lay, NEW mask, Sized(lay, mask), NEW mode \in Chosen(lay, mask),
         NEW it \in Iterations(mode, lay, mask)
  PROVE  IsPair(lay, mask, Call(mode, lay, mask, it))
<1>1. CASE mode = "Fallback"
  BY <1>1, FallbackCall DEF Iterations
<1>2. CASE mode = "IntraChunk"
  BY <1>2, IntraCall DEF Iterations, Chosen
<1>3. CASE mode = "InterChunk"
  BY <1>3, InterCall DEF Iterations, Chosen
<1> QED BY <1>1, <1>2, <1>3, ChosenModes DEF Modes

(* The iterations left of a traversal have an earliest one.                *)
LEMMA EarliestIteration ==
  ASSUME NEW lay, NEW mask, Sized(lay, mask), NEW mode \in Chosen(lay, mask),
         NEW S \in SUBSET Iterations(mode, lay, mask), S # {}
  PROVE  Earliest(S) \in S /\ \A q \in S \ {Earliest(S)} : Earlier(Earliest(S), q)
<1>1. CASE mode = "Fallback"
  <2>1. S \in SUBSET (Nat \X Nat)
    BY <1>1, FallbackCall DEF Iterations
  <2> QED BY <2>1, EarliestPair
<1>2. CASE mode = "IntraChunk"
  <2>1. S \in SUBSET (Nat \X Nat \X Nat)
    BY <1>2, IntraCall DEF Iterations, Chosen
  <2> QED BY <2>1, EarliestTriple
<1>3. CASE mode = "InterChunk"
  <2>1. S \in SUBSET (Nat \X Nat \X Nat)
    BY <1>3, InterCall DEF Iterations, Chosen
  <2> QED BY <2>1, EarliestTriple
<1> QED BY <1>1, <1>2, <1>3, ChosenModes DEF Modes

-------------------------------------------------------------------------------
(* The loop counters.                                                      *)

LEMMA IntraCounters ==
  ASSUME NEW lay, NEW mask, Sized(lay, mask), NEW it \in IntraIterations(lay, mask)
  PROVE  /\ it[1] \in Nat /\ it[2] \in Nat /\ it[3] \in Nat /\ it = <<it[1], it[2], it[3]>>
         /\ it[3] < mask /\ (it[2] % (2 * mask)) = 0
         /\ it[2] + it[3] < lay.width
<1> DEFINE n == lay.states  w == lay.width  count == ChunkCount(lay)
           here == StatesInChunk(lay, it[1])
<1>1. n \in Nat \ {0} /\ w \in Nat \ {0} /\ mask \in Nat \ {0}
  BY DEF Sized
<1>2. count \in Nat
  BY <1>1 DEF ChunkCount
<1>3. /\ it \in (0..(count - 1)) \X (0..(w - 1)) \X (0..(mask - 1))
      /\ (it[2] % (2 * mask)) = 0 /\ it[2] + it[3] + mask < here
  BY DEF IntraIterations, Multiples, ChunkIndices
<1>4. here = IF w < n - it[1] * w THEN w ELSE n - it[1] * w
  BY DEF StatesInChunk, ChunkStateBegin
<1> HIDE DEF n, w, count, here
<1>5. it[1] \in Nat /\ it[2] \in Nat /\ it[3] \in Nat /\ it[3] < mask /\ it = <<it[1], it[2], it[3]>>
  BY <1>1, <1>2, <1>3
<1>6. it[2] + it[3] < w
  <2>1. it[1] * w \in Nat
    BY <1>1, <1>5
  <2> QED BY <1>1, <1>3, <1>4, <1>5, <2>1
<1> QED BY <1>3, <1>5, <1>6 DEF w

LEMMA InterCounters ==
  ASSUME NEW lay, NEW mask, Sized(lay, mask), NEW it \in InterIterations(lay, mask),
         mask >= lay.width
  PROVE  /\ it[1] \in Nat /\ it[2] \in Nat /\ it[3] \in Nat /\ it = <<it[1], it[2], it[3]>>
         /\ mask \div lay.width \in Nat \ {0}
         /\ it[2] < mask \div lay.width /\ (it[1] % (2 * (mask \div lay.width))) = 0
         /\ it[3] < lay.width
<1> DEFINE w == lay.width  count == ChunkCount(lay)  delta == mask \div w
<1>1. lay.states \in Nat \ {0} /\ w \in Nat \ {0} /\ mask \in Nat \ {0} /\ mask >= w
  BY DEF Sized
<1>2. count \in Nat
  BY <1>1 DEF ChunkCount
<1>3. /\ it \in (0..(count - 1)) \X (0..(delta - 1)) \X (0..(w - 1))
      /\ (it[1] % (2 * delta)) = 0
  BY DEF InterIterations, Multiples, ChunkIndices
<1> HIDE DEF w, count
<1>4. delta \in Nat \ {0}
  BY <1>1
<1> HIDE DEF delta
<1>5. it[1] \in Nat /\ it[2] \in Nat /\ it[3] \in Nat /\ it = <<it[1], it[2], it[3]>>
  BY <1>1, <1>2, <1>3, <1>4
<1>6. it[2] < delta /\ it[3] < w
  BY <1>1, <1>3, <1>4
<1> QED BY <1>3, <1>4, <1>5, <1>6 DEF w, delta

(* An offset below a stride, added to a multiple of the stride or of its   *)
(* double, tells both.                                                     *)
LEMMA BaseAndOffset ==
  ASSUME NEW d \in Nat \ {0}, NEW a \in Nat, NEW b \in Nat, NEW x \in Nat, NEW y \in Nat,
         (a % (2 * d)) = 0, (b % (2 * d)) = 0, x < d, y < d, a + x = b + y
  PROVE  a = b /\ x = y
<1> DEFINE e == 2 * d  p == a \div e  q == b \div e
<1>1. e \in Nat \ {0} /\ x < e /\ y < e
  OBVIOUS
<1>2. (a % e) = 0 /\ (b % e) = 0
  OBVIOUS
<1> HIDE DEF e
<1>3. p \in Nat /\ a = e * p /\ q \in Nat /\ b = e * q
  BY <1>1, <1>2, MultipleOf
<1> HIDE DEF p, q
<1>4. e * p + x = e * q + y
  BY <1>3
<1>5. p = q /\ x = y
  BY <1>1, <1>3, <1>4, Quotients
<1> QED BY <1>3, <1>5

LEMMA BasesApart ==
  ASSUME NEW d \in Nat \ {0}, NEW a \in Nat, NEW b \in Nat, NEW x \in Nat, NEW y \in Nat,
         (a % (2 * d)) = 0, (b % (2 * d)) = 0, x < d, a < b
  PROVE  a + x <= b + y
<1> DEFINE e == 2 * d  p == a \div e  q == b \div e
<1>1. e \in Nat \ {0} /\ x < e
  OBVIOUS
<1>2. (a % e) = 0 /\ (b % e) = 0
  OBVIOUS
<1> HIDE DEF e
<1>3. p \in Nat /\ a = e * p /\ q \in Nat /\ b = e * q
  BY <1>1, <1>2, MultipleOf
<1> HIDE DEF p, q
<1>4. e * p + e <= e * q
  BY <1>1, <1>3, FactorsInOrder
<1> QED BY <1>1, <1>3, <1>4

(* No two iterations are for the same pair.                                *)
LEMMA PairTellsIteration ==
  ASSUME NEW lay, NEW mask, Sized(lay, mask), NEW mode \in Chosen(lay, mask),
         NEW it \in Iterations(mode, lay, mask), NEW jt \in Iterations(mode, lay, mask),
         Call(mode, lay, mask, it).state0 = Call(mode, lay, mask, jt).state0
  PROVE  it = jt
<1> DEFINE w == lay.width
<1>0. w \in Nat \ {0} /\ mask \in Nat \ {0}
  BY DEF Sized
<1>1. CASE mode = "Fallback"
  <2>1. /\ it \in Nat \X Nat /\ (it[1] % (2 * mask)) = 0 /\ it[2] \in 0..(mask - 1)
        /\ jt \in Nat \X Nat /\ (jt[1] % (2 * mask)) = 0 /\ jt[2] \in 0..(mask - 1)
    BY <1>1, FallbackCall DEF Iterations, FallbackIterations, Multiples
  <2>2. it[1] + it[2] = jt[1] + jt[2]
    BY <1>1 DEF Call
  <2>3. it[1] \in Nat /\ it[2] \in Nat /\ jt[1] \in Nat /\ jt[2] \in Nat
    BY <2>1
  <2>4. it[2] < mask /\ jt[2] < mask
    BY <1>0, <2>1
  <2>5. it[1] = jt[1] /\ it[2] = jt[2]
    <3> DEFINE a == it[1]  b == jt[1]  x == it[2]  y == jt[2]
    <3>1. a \in Nat /\ b \in Nat /\ x \in Nat /\ y \in Nat /\ x < mask /\ y < mask
      BY <2>3, <2>4
    <3>2. (a % (2 * mask)) = 0 /\ (b % (2 * mask)) = 0 /\ a + x = b + y
      BY <2>1, <2>2
    <3> HIDE DEF a, b, x, y
    <3>3. a = b /\ x = y
      BY <1>0, <3>1, <3>2, BaseAndOffset
    <3> QED BY <3>3 DEF a, b, x, y
  <2>6. it = <<it[1], it[2]>> /\ jt = <<jt[1], jt[2]>>
    BY <2>1
  <2> QED BY <2>5, <2>6
<1>2. CASE mode = "IntraChunk"
  <2>1. /\ it[1] \in Nat /\ it[2] \in Nat /\ it[3] \in Nat /\ it = <<it[1], it[2], it[3]>>
        /\ it[3] < mask /\ (it[2] % (2 * mask)) = 0 /\ it[2] + it[3] < w
        /\ jt[1] \in Nat /\ jt[2] \in Nat /\ jt[3] \in Nat /\ jt = <<jt[1], jt[2], jt[3]>>
        /\ jt[3] < mask /\ (jt[2] % (2 * mask)) = 0 /\ jt[2] + jt[3] < w
    BY <1>2, IntraCounters DEF Iterations
  <2>2. it[1] * w + (it[2] + it[3]) = jt[1] * w + (jt[2] + jt[3])
    BY <1>2 DEF Call, ChunkStateBegin
  <2> HIDE DEF w
  <2>3. w * it[1] + (it[2] + it[3]) = w * jt[1] + (jt[2] + jt[3])
    BY <1>0, <2>1, <2>2
  <2>4. it[2] + it[3] \in Nat /\ jt[2] + jt[3] \in Nat
    BY <2>1
  <2>5. it[1] = jt[1] /\ it[2] + it[3] = jt[2] + jt[3]
    BY <1>0, <2>1, <2>3, <2>4, Quotients
  <2>6. it[2] = jt[2] /\ it[3] = jt[3]
    BY <1>0, <2>1, <2>5, BaseAndOffset
  <2> QED BY <2>1, <2>5, <2>6
<1>3. CASE mode = "InterChunk"
  <2> DEFINE delta == mask \div w
  <2>0. mask >= w
    BY <1>3 DEF Chosen, SelectMode
  <2>1. /\ it[1] \in Nat /\ it[2] \in Nat /\ it[3] \in Nat /\ it = <<it[1], it[2], it[3]>>
        /\ it[2] < delta /\ (it[1] % (2 * delta)) = 0 /\ it[3] < w /\ delta \in Nat \ {0}
        /\ jt[1] \in Nat /\ jt[2] \in Nat /\ jt[3] \in Nat /\ jt = <<jt[1], jt[2], jt[3]>>
        /\ jt[2] < delta /\ (jt[1] % (2 * delta)) = 0 /\ jt[3] < w
    BY <1>3, <2>0, InterCounters DEF Iterations
  <2>2. (it[1] + it[2]) * w + it[3] = (jt[1] + jt[2]) * w + jt[3]
    BY <1>3 DEF Call, ChunkStateBegin
  <2> HIDE DEF w, delta
  <2>3. w * (it[1] + it[2]) + it[3] = w * (jt[1] + jt[2]) + jt[3]
    BY <1>0, <2>1, <2>2
  <2>4. it[1] + it[2] \in Nat /\ jt[1] + jt[2] \in Nat
    BY <2>1
  <2>5. it[1] + it[2] = jt[1] + jt[2] /\ it[3] = jt[3]
    BY <1>0, <2>1, <2>3, <2>4, Quotients
  <2>6. it[1] = jt[1] /\ it[2] = jt[2]
    <3> DEFINE a == it[1]  b == jt[1]  x == it[2]  y == jt[2]
    <3>1. /\ a \in Nat /\ b \in Nat /\ x \in Nat /\ y \in Nat
          /\ delta \in Nat \ {0} /\ x < delta /\ y < delta
      BY <2>1
    <3>2. (a % (2 * delta)) = 0 /\ (b % (2 * delta)) = 0 /\ a + x = b + y
      BY <2>1, <2>5
    <3> HIDE DEF a, b, x, y
    <3>3. a = b /\ x = y
      BY <3>1, <3>2, BaseAndOffset
    <3> QED BY <3>3 DEF a, b, x, y
  <2> QED BY <2>1, <2>5, <2>6
<1> QED BY <1>1, <1>2, <1>3, ChosenModes DEF Modes

(* The chunk-aware traversals take the chunks in ascending order.          *)
LEMMA ChunksInOrder ==
  ASSUME NEW lay, NEW mask, Sized(lay, mask), SelectMode(lay, mask) # "Fallback",
         NEW it \in Iterations(SelectMode(lay, mask), lay, mask),
         NEW jt \in Iterations(SelectMode(lay, mask), lay, mask), Earlier(it, jt)
  PROVE  Call(SelectMode(lay, mask), lay, mask, it).ref0.chunk
           <= Call(SelectMode(lay, mask), lay, mask, jt).ref0.chunk
<1> DEFINE w == lay.width
<1>1. CASE SelectMode(lay, mask) = "IntraChunk"
  <2>1. /\ it[1] \in Nat /\ jt[1] \in Nat
        /\ it \in Nat \X Nat \X Nat /\ jt \in Nat \X Nat \X Nat
    BY <1>1, IntraCall DEF Iterations
  <2>2. it[1] <= jt[1]
    BY <2>1, EarlierTriple
  <2> QED BY <1>1, <2>2 DEF Call
<1>2. CASE SelectMode(lay, mask) = "InterChunk"
  <2> DEFINE delta == mask \div w
  <2>0. mask >= w
    BY <1>2 DEF SelectMode
  <2>1. it \in Nat \X Nat \X Nat /\ jt \in Nat \X Nat \X Nat
    BY <1>2, InterCall DEF Iterations
  <2>2. /\ it[1] \in Nat /\ it[2] \in Nat /\ it[2] < delta /\ (it[1] % (2 * delta)) = 0
        /\ jt[1] \in Nat /\ jt[2] \in Nat /\ (jt[1] % (2 * delta)) = 0 /\ delta \in Nat \ {0}
    BY <1>2, <2>0, InterCounters DEF Iterations
  <2>3. it[1] + it[2] <= jt[1] + jt[2]
    <3>1. CASE it[1] < jt[1]
      <4> HIDE DEF delta
      <4> QED BY <2>2, <3>1, BasesApart
    <3>2. CASE it[1] = jt[1] /\ it[2] <= jt[2]
      BY <2>2, <3>2
    <3>3. it[1] < jt[1] \/ (it[1] = jt[1] /\ it[2] <= jt[2])
      BY <2>1, EarlierTriple
    <3> QED BY <3>1, <3>2, <3>3
  <2> QED BY <1>2, <2>3 DEF Call
<1> QED BY <1>1, <1>2, ChosenModes DEF Modes

(* There is a pair to visit, for every mask and by every traversal.        *)
LEMMA IterationsExist ==
  ASSUME NEW lay, NEW mask, Sized(lay, mask), NEW mode \in Chosen(lay, mask)
  PROVE  Iterations(mode, lay, mask) # {}
<1> DEFINE n == lay.states  w == lay.width  count == ChunkCount(lay)  delta == mask \div w
<1>1. n \in Nat \ {0} /\ w \in Nat \ {0} /\ mask \in Nat \ {0} /\ (n % (2 * mask)) = 0
  BY DEF Sized
<1>2. count = (n + w - 1) \div w /\ ChunkIndices(lay) = 0..(count - 1)
  BY DEF ChunkCount, ChunkIndices
<1>3. StatesInChunk(lay, 0) = IF w < n - 0 * w THEN w ELSE n - 0 * w
  BY DEF StatesInChunk, ChunkStateBegin
<1>4. StatesInChunk(lay, delta) = IF w < n - delta * w THEN w ELSE n - delta * w
  BY DEF StatesInChunk, ChunkStateBegin
<1> HIDE DEF n, w, count
<1>5. 2 * mask <= n
  <2> DEFINE d == 2 * mask  k == n \div d
  <2>1. d \in Nat \ {0} /\ n \in Nat
    BY <1>1
  <2>2. k \in Nat /\ n = d * k
    BY <1>1, <2>1, MultipleOf
  <2> HIDE DEF d, k
  <2>3. k # 0
    <3> SUFFICES ASSUME k = 0 PROVE FALSE
      OBVIOUS
    <3>1. d * 0 = 0
      BY <2>1
    <3> QED BY <1>1, <2>2, <3>1
  <2>4. d <= d * k
    <3>1. k - 1 \in Nat
      BY <2>2, <2>3
    <3>2. d * (k - 1) \in Nat
      BY <2>1, <3>1
    <3>3. d * k = d + d * (k - 1)
      BY <2>1, <2>2
    <3> QED BY <2>1, <3>2, <3>3
  <2> QED BY <2>2, <2>4 DEF d
<1>6. count \in Nat /\ count > 0
  BY <1>1, <1>2
<1>7. (0 % (2 * mask)) = 0 /\ 0 \in 0..(mask - 1)
  BY <1>1
<1>8. CASE mode = "Fallback"
  <2>1. 0 \in 0..(n - 1)
    BY <1>1
  <2>2. <<0, 0>> \in FallbackIterations(lay, mask)
    BY <1>7, <2>1 DEF FallbackIterations, Multiples, n
  <2> QED BY <1>8, <2>2 DEF Iterations
<1>9. CASE mode = "IntraChunk"
  <2>1. mask < w
    BY <1>9 DEF Chosen, SelectMode, w
  <2>2. 0 + 0 + mask < StatesInChunk(lay, 0) /\ StatesInChunk(lay, 0) \in Nat
    BY <1>1, <1>3, <1>5, <2>1
  <2>3. 0 \in Multiples(2 * mask, StatesInChunk(lay, 0)) /\ 0 \in 0..(w - 1)
        /\ 0 \in ChunkIndices(lay)
    BY <1>1, <1>2, <1>6, <1>7, <2>2 DEF Multiples
  <2>4. <<0, 0, 0>> \in IntraIterations(lay, mask)
    BY <1>7, <2>2, <2>3 DEF IntraIterations, w
  <2> QED BY <1>9, <2>4 DEF Iterations
<1>10. CASE mode = "InterChunk"
  <2>1. mask >= w /\ (mask % w) = 0
    BY <1>10 DEF Chosen, SelectMode, w
  <2>2. delta \in Nat \ {0} /\ mask = w * delta
    <3>1. delta \in Nat /\ mask = w * delta
      BY <1>1, <2>1, MultipleOf
    <3>2. delta # 0
      BY <1>1, <2>1
    <3> QED BY <3>1, <3>2
  <2> HIDE DEF delta
  <2>3. delta * w = mask
    BY <1>1, <2>2
  <2>4. 0 < StatesInChunk(lay, 0) /\ 0 < StatesInChunk(lay, delta)
    BY <1>1, <1>3, <1>4, <1>5, <2>3
  <2>5. delta < count
    <3>1. count = (n + w - 1) \div w /\ w * delta < n
      BY <1>1, <1>2, <1>5, <2>2
    <3> DEFINE r == (n + w - 1) % w
    <3>2. n + w - 1 = w * count + r /\ r < w /\ r \in Nat
      <4>1. n + w - 1 \in Nat
        BY <1>1
      <4> HIDE DEF r
      <4> QED BY <1>1, <3>1, <4>1, Division DEF r
    <3> HIDE DEF r
    <3>3. w * delta < w * count
      BY <1>1, <1>6, <2>2, <3>1, <3>2
    <3> QED BY <1>1, <1>6, <2>2, <3>3, FactorsInOrder
  <2>6. (0 % (2 * delta)) = 0 /\ 0 \in 0..(delta - 1) /\ 0 \in 0..(w - 1) /\ 0 \in 0..(count - 1)
    BY <1>1, <1>6, <2>2
  <2>7. <<0, 0, 0>> \in InterIterations(lay, mask)
    <3>1. /\ 0 \in ChunkIndices(lay) /\ 0 \in Multiples(2 * delta, count)
          /\ 0 + 0 + delta < count /\ 0 + 0 = 0 /\ 0 + 0 + delta = delta
      BY <1>2, <2>2, <2>5, <2>6 DEF Multiples
    <3> DEFINE it == <<0, 0, 0>>
    <3>2. it \in ChunkIndices(lay) \X (0..(delta - 1)) \X (0..(w - 1))
      BY <2>6, <3>1
    <3>3. /\ it[1] = 0 /\ it[2] = 0 /\ it[3] = 0
          /\ it[1] + it[2] = 0 /\ it[1] + it[2] + delta = delta
      BY <2>2
    <3> HIDE DEF it
    <3>4. it \in InterIterations(lay, mask)
      BY <2>4, <2>5, <3>1, <3>2, <3>3 DEF InterIterations, w, delta, count
    <3> QED BY <3>4 DEF it
  <2> QED BY <1>10, <2>7 DEF Iterations
<1> QED BY <1>8, <1>9, <1>10, ChosenModes DEF Modes

-------------------------------------------------------------------------------
(* Every state with the target bit clear is some iteration's lower state.  *)

(* A number with an even quotient is a multiple of the double and an       *)
(* offset.                                                                 *)
LEMMA EvenQuotient ==
  ASSUME NEW d \in Nat \ {0}, NEW s \in Nat, ((s \div d) % 2) = 0
  PROVE  \E base \in Nat, offset \in 0..(d - 1) :
           s = base + offset /\ (base % (2 * d)) = 0
<1> DEFINE q == s \div d  r == s % d  u == q \div 2
<1>1. q \in Nat /\ r \in 0..(d - 1) /\ s = d * q + r
  BY Division
<1>2. (q % 2) = 0
  OBVIOUS
<1> HIDE DEF q, r
<1>3. u \in Nat /\ q = 2 * u
  BY <1>1, <1>2, MultipleOf
<1> HIDE DEF u
<1>4. d * q \in Nat /\ d * q = (2 * d) * u + 0 /\ 2 * d \in Nat \ {0}
  BY <1>1, <1>3
<1>5. (((2 * d) * u + 0) % (2 * d)) = 0
  BY <1>3, <1>4, DivisionUnique
<1> QED BY <1>1, <1>4, <1>5

(* The states of a chunk a mask stays within come in whole multiples of    *)
(* twice the mask, also those of a partial chunk.                          *)
LEMMA ChunkOfMultiples ==
  ASSUME NEW d \in Nat \ {0}, NEW n \in Nat, NEW w \in Nat, NEW c \in Nat,
         (n % d) = 0, (w % d) = 0, c * w <= n
  PROVE  ((n - c * w) % d) = 0 /\ ((c * w) % d) = 0
<1> DEFINE k == n \div d  v == w \div d
<1>1. k \in Nat /\ n = d * k /\ v \in Nat /\ w = d * v
  BY MultipleOf
<1> HIDE DEF k, v
<1>2. c * w = d * (c * v) + 0 /\ c * v \in Nat
  BY <1>1
<1>3. n - c * w = d * (k - c * v) + 0
  BY <1>1, <1>2
<1>4. k - c * v \in Nat
  <2>1. d * (c * v) <= d * k
    BY <1>1, <1>2
  <2>2. c * v <= k
    <3> SUFFICES ASSUME k < c * v PROVE FALSE
      BY <1>1, <1>2
    <3>1. c * v - k \in Nat \ {0}
      BY <1>1, <1>2
    <3>2. d * (c * v) - d * k = d * (c * v - k)
      BY <1>1, <1>2
    <3>3. d * (c * v - k) > 0
      BY <3>1
    <3>4. d * (c * v) \in Nat /\ d * k \in Nat
      BY <1>1, <1>2
    <3> QED BY <2>1, <3>2, <3>3, <3>4
  <2> QED BY <1>1, <1>2, <2>2
<1>5. ((d * (c * v) + 0) % d) = 0 /\ ((d * (k - c * v) + 0) % d) = 0
  <2>1. ASSUME NEW q \in Nat PROVE ((d * q + 0) % d) = 0
    BY DivisionUnique
  <2> QED BY <1>2, <1>4, <2>1
<1> QED BY <1>2, <1>3, <1>5

LEMMA FallbackReaches ==
  ASSUME NEW lay, NEW mask, Sized(lay, mask),
         NEW s \in 0..(lay.states - 1), ((s \div mask) % 2) = 0
  PROVE  \E it \in FallbackIterations(lay, mask) : Call("Fallback", lay, mask, it).state0 = s
<1>1. mask \in Nat \ {0} /\ s \in Nat /\ lay.states \in Nat /\ s < lay.states
  BY DEF Sized
<1>2. PICK base \in Nat, offset \in 0..(mask - 1) :
        s = base + offset /\ (base % (2 * mask)) = 0
  BY <1>1, EvenQuotient
<1>3. base \in 0..(lay.states - 1)
  BY <1>1, <1>2
<1>4. <<base, offset>> \in FallbackIterations(lay, mask)
  BY <1>2, <1>3 DEF FallbackIterations, Multiples
<1>5. Call("Fallback", lay, mask, <<base, offset>>).state0 = s
  BY <1>2 DEF Call
<1> QED BY <1>4, <1>5

LEMMA IntraReaches ==
  ASSUME NEW lay, NEW mask, Sized(lay, mask), SelectMode(lay, mask) = "IntraChunk",
         NEW s \in 0..(lay.states - 1), ((s \div mask) % 2) = 0
  PROVE  \E it \in IntraIterations(lay, mask) : Call("IntraChunk", lay, mask, it).state0 = s
<1> DEFINE n == lay.states  w == lay.width  c == s \div w  r == s % w
           here == StatesInChunk(lay, c)
<1>1. n \in Nat \ {0} /\ w \in Nat \ {0} /\ mask \in Nat \ {0} /\ (n % (2 * mask)) = 0
      /\ s \in Nat /\ s < n
  BY DEF Sized
<1>2. mask < w /\ (w % (2 * mask)) = 0
  BY DEF SelectMode, Sized
<1>3. c \in ChunkIndices(lay) /\ r \in 0..(w - 1) /\ r < here
  BY StateInChunk DEF StateRef, Sized
<1>4. here = IF w < n - c * w THEN w ELSE n - c * w
  BY DEF StatesInChunk, ChunkStateBegin
<1> HIDE DEF n, w, here
<1>5. c \in Nat /\ r \in Nat /\ s = w * c + r
  <2>1. s \in Nat /\ w \in Nat \ {0}
    BY <1>1
  <2>2. c \in Nat /\ r \in 0..(w - 1) /\ s = w * c + r
    BY <2>1, Division
  <2> HIDE DEF c, r
  <2> QED BY <2>1, <2>2
<1> HIDE DEF c, r
<1>6. c * w \in Nat /\ s = c * w + r /\ c * w <= n
  BY <1>1, <1>5
<1>7. ((n - c * w) % (2 * mask)) = 0 /\ ((c * w) % (2 * mask)) = 0
  <2> DEFINE d == 2 * mask
  <2>2. d \in Nat \ {0} /\ n \in Nat /\ w \in Nat /\ c \in Nat /\ c * w <= n
    BY <1>1, <1>5, <1>6
  <2>3. (n % d) = 0 /\ (w % d) = 0
    BY <1>1, <1>2
  <2> HIDE DEF d
  <2>4. ((n - c * w) % d) = 0 /\ ((c * w) % d) = 0
    BY <2>2, <2>3, ChunkOfMultiples
  <2> QED BY <2>4 DEF d
<1>8. here \in Nat /\ (here % (2 * mask)) = 0
  BY <1>1, <1>2, <1>4, <1>6, <1>7
<1>9. ((r \div mask) % 2) = 0
  <2> DEFINE d == 2 * mask  v == (c * w) \div d  q == r \div mask  e == r % mask
  <2>1. d \in Nat \ {0}
    BY <1>1
  <2>2. v \in Nat /\ c * w = d * v
    BY <1>6, <1>7, <2>1, MultipleOf
  <2>3. q \in Nat /\ r = mask * q + e /\ e \in 0..(mask - 1)
    BY <1>1, <1>5, Division
  <2> HIDE DEF v, q, e
  <2>4. s = mask * (2 * v + q) + e /\ 2 * v + q \in Nat /\ e \in Nat /\ e < mask
    BY <1>1, <1>6, <2>2, <2>3
  <2>5. s \div mask = 2 * v + q
    BY <1>1, <2>4, DivisionUnique
  <2>6. ((2 * v + q) % 2) = (q % 2)
    BY <2>2, <2>3
  <2> QED BY <2>5, <2>6 DEF q
<1>10. PICK base \in Nat, offset \in 0..(mask - 1) :
         r = base + offset /\ (base % (2 * mask)) = 0
  BY <1>1, <1>5, <1>9, EvenQuotient
<1>11. base < here /\ offset \in Nat
  BY <1>1, <1>3, <1>5, <1>8, <1>10
<1>12. base + offset + mask < here
  BY <1>1, <1>8, <1>10, <1>11, LowerState
<1>13. base \in 0..(here - 1) /\ base \in 0..(w - 1)
  BY <1>1, <1>3, <1>8, <1>10, <1>11
<1> DEFINE it == <<c, base, offset>>
<1>14. it \in IntraIterations(lay, mask)
  BY <1>3, <1>10, <1>12, <1>13 DEF IntraIterations, Multiples, here, w
<1>15. Call("IntraChunk", lay, mask, it).state0 = c * w + (base + offset)
  BY DEF Call, ChunkStateBegin, w
<1>16. c * w + (base + offset) = s
  BY <1>6, <1>10
<1> QED BY <1>14, <1>15, <1>16

LEMMA InterReaches ==
  ASSUME NEW lay, NEW mask, Sized(lay, mask), SelectMode(lay, mask) = "InterChunk",
         NEW s \in 0..(lay.states - 1), ((s \div mask) % 2) = 0
  PROVE  \E it \in InterIterations(lay, mask) : Call("InterChunk", lay, mask, it).state0 = s
<1> DEFINE n == lay.states  w == lay.width  c == s \div w  r == s % w
           count == ChunkCount(lay)
           delta == mask \div w
<1>1. n \in Nat \ {0} /\ w \in Nat \ {0} /\ mask \in Nat \ {0} /\ (n % (2 * mask)) = 0
      /\ s \in Nat /\ s < n
  BY DEF Sized
<1>2. mask >= w /\ (mask % w) = 0
  BY DEF SelectMode
<1>3. c \in ChunkIndices(lay) /\ r \in 0..(w - 1) /\ r < StatesInChunk(lay, c)
  BY StateInChunk DEF StateRef, Sized
<1>4. s + mask \in 0..(n - 1)
  <2>1. PICK base \in Nat, offset \in 0..(mask - 1) :
          s = base + offset /\ (base % (2 * mask)) = 0
    BY <1>1, EvenQuotient
  <2>2. base < n
    BY <1>1, <2>1
  <2>3. base + offset + mask < n
    BY <1>1, <2>1, <2>2, LowerState
  <2> QED BY <1>1, <2>1, <2>3
<1>5. ChunkIndices(lay) = 0..(count - 1) /\ count \in Nat
  BY <1>1 DEF ChunkIndices, ChunkCount
<1> HIDE DEF n, w, count
<1>6. c \in Nat /\ r \in Nat /\ s = w * c + r /\ r < w
  <2>1. s \in Nat /\ w \in Nat \ {0}
    BY <1>1
  <2>2. c \in Nat /\ r \in 0..(w - 1) /\ s = w * c + r
    BY <2>1, Division
  <2> HIDE DEF c, r
  <2> QED BY <2>1, <2>2
<1> HIDE DEF c, r
<1>7. delta \in Nat \ {0} /\ mask = w * delta
  <2>1. delta \in Nat /\ mask = w * delta
    BY <1>1, <1>2, MultipleOf
  <2>2. delta # 0
    BY <1>1, <1>2
  <2> QED BY <2>1, <2>2
<1> HIDE DEF delta
<1>8. c + delta \in 0..(count - 1) /\ r < StatesInChunk(lay, c + delta)
  <2>1. s + mask = w * (c + delta) + r /\ c + delta \in Nat
    BY <1>1, <1>6, <1>7
  <2>2. (s + mask) \div w = c + delta /\ ((s + mask) % w) = r
    <3> DEFINE e == c + delta
    <3>1. e \in Nat /\ s + mask = w * e + r
      BY <2>1
    <3> HIDE DEF e
    <3>2. (w * e + r) \div w = e /\ ((w * e + r) % w) = r
      BY <1>1, <1>6, <3>1, DivisionUnique
    <3> QED BY <3>1, <3>2 DEF e
  <2>3. /\ StateRef(lay, s + mask).chunk \in ChunkIndices(lay)
        /\ StateRef(lay, s + mask).local < StatesInChunk(lay, StateRef(lay, s + mask).chunk)
    BY <1>1, <1>4, StateInChunk DEF n, w
  <2> QED BY <1>5, <2>2, <2>3 DEF StateRef, w
<1>9. ((c \div delta) % 2) = 0
  <2> DEFINE q == c \div delta  e == c % delta
  <2>1. q \in Nat /\ e \in 0..(delta - 1) /\ c = delta * q + e
    BY <1>6, <1>7, Division
  <2> HIDE DEF q, e
  <2>2. w * e + r < mask /\ w * e + r \in Nat
    <3>1. delta - e - 1 \in Nat /\ e \in Nat
      BY <1>7, <2>1
    <3>2. w * (delta - e - 1) \in Nat /\ w * e \in Nat
      BY <1>1, <3>1
    <3>3. w * delta = w * e + w + w * (delta - e - 1)
      BY <1>1, <1>7, <3>1
    <3> QED BY <1>1, <1>6, <1>7, <3>2, <3>3
  <2>3. s = mask * q + (w * e + r)
    <3>1. e \in Nat
      BY <1>7, <2>1
    <3>2. w * (delta * q + e) = (w * delta) * q + w * e
      BY <1>1, <1>7, <2>1, <3>1
    <3>3. s = w * (delta * q + e) + r
      BY <1>6, <2>1
    <3>4. s = (mask * q + w * e) + r
      BY <1>7, <3>2, <3>3
    <3>5. mask * q \in Nat /\ w * e \in Nat
      BY <1>1, <2>1, <3>1
    <3> QED BY <1>6, <3>4, <3>5
  <2>4. s \div mask = q
    BY <1>1, <2>1, <2>2, <2>3, DivisionUnique
  <2> QED BY <2>4 DEF q
<1>10. PICK base \in Nat, offset \in 0..(delta - 1) :
         c = base + offset /\ (base % (2 * delta)) = 0
  BY <1>6, <1>7, <1>9, EvenQuotient
<1>11. base \in 0..(count - 1) /\ base + offset + delta < count /\ c + delta = base + offset + delta
  BY <1>3, <1>5, <1>6, <1>7, <1>8, <1>10
<1> DEFINE it == <<base, offset, r>>
<1>12. it \in InterIterations(lay, mask)
  <2>1. it \in ChunkIndices(lay) \X (0..(delta - 1)) \X (0..(w - 1))
    BY <1>3, <1>5, <1>10, <1>11
  <2>2. it[1] \in Multiples(2 * delta, count)
    BY <1>10, <1>11 DEF Multiples
  <2>3. /\ it[1] + it[2] + delta < count
        /\ it[3] < StatesInChunk(lay, it[1] + it[2])
        /\ it[3] < StatesInChunk(lay, it[1] + it[2] + delta)
    BY <1>3, <1>8, <1>10, <1>11
  <2> HIDE DEF it
  <2> QED BY <2>1, <2>2, <2>3 DEF InterIterations, w, delta, count
<1>13. Call("InterChunk", lay, mask, it).state0 = (base + offset) * w + r
  BY DEF Call, ChunkStateBegin, w
<1>14. (base + offset) * w + r = s
  BY <1>1, <1>6, <1>10
<1> QED BY <1>12, <1>13, <1>14

(* Whatever traversal is chosen, it reaches every pair.                    *)
LEMMA EveryPairReached ==
  ASSUME NEW lay, NEW mask, Sized(lay, mask), NEW mode \in Chosen(lay, mask),
         NEW s \in 0..(lay.states - 1), ((s \div mask) % 2) = 0
  PROVE  \E it \in Iterations(mode, lay, mask) : Call(mode, lay, mask, it).state0 = s
<1>1. CASE mode = "Fallback"
  BY <1>1, FallbackReaches DEF Iterations
<1>2. CASE mode = "IntraChunk"
  BY <1>2, IntraReaches DEF Iterations, Chosen
<1>3. CASE mode = "InterChunk"
  BY <1>3, InterReaches DEF Iterations, Chosen
<1> QED BY <1>1, <1>2, <1>3, ChosenModes DEF Modes

\* c applies the steps F from the left, in the order of the indices.
FoldsBy(n, base, F, V, c) ==
  \A s \in SUBSET (1..n) :
    /\ s = {} => c[s] = base
    /\ s # {} /\ c[s \ {Max(s)}] \in V => c[s] = F[Max(s)][c[s \ {Max(s)}]]

(* A fold over a sequence, step by step.                                   *)
LEMMA FoldSteps ==
  ASSUME NEW n \in Nat, NEW V, NEW base \in V, NEW F \in [1..n -> [V -> V]], NEW c,
         FoldsBy(n, base, F, V, c)
  PROVE  /\ \A m \in 0..n : c[1..m] \in V
         /\ c[1..0] = base
         /\ \A m \in 1..n : c[1..m] = F[m][c[1..(m - 1)]]
<1>1. 1..0 = {} /\ 1..0 \in SUBSET (1..n)
  OBVIOUS
<1>2. c[1..0] = base
  BY <1>1 DEF FoldsBy
<1>3. ASSUME NEW m \in 1..n, c[1..(m - 1)] \in V
      PROVE  c[1..m] = F[m][c[1..(m - 1)]] /\ c[1..m] \in V
  <2>1. m \in Nat /\ m # 0 /\ 1..m \in SUBSET (1..n) /\ m \in 1..m
    OBVIOUS
  <2>2. Max(1..m) = m /\ (1..m) \ {m} = 1..(m - 1)
    BY <2>1, IndexPrefixes
  <2>3. c[1..m] = F[m][c[1..(m - 1)]]
    BY <1>3, <2>1, <2>2 DEF FoldsBy
  <2> QED BY <1>3, <2>3
<1> DEFINE G == {m \in Nat : m <= n => c[1..m] \in V}
<1>4. G = Nat
  <2>1. 0 \in G
    BY <1>2
  <2>2. ASSUME NEW m \in G PROVE m + 1 \in G
    <3>1. m \in Nat
      OBVIOUS
    <3>2. CASE m + 1 <= n
      <4>1. m + 1 \in 1..n /\ m <= n /\ (m + 1) - 1 = m
        BY <3>1, <3>2
      <4>2. c[1..m] \in V
        BY <4>1
      <4> QED BY <1>3, <3>1, <4>1, <4>2
    <3> QED BY <3>1, <3>2
  <2> HIDE DEF G
  <2>3. G \in SUBSET Nat
    BY DEF G
  <2> QED BY <2>1, <2>2, <2>3, NumberInduction
<1>5. \A m \in 0..n : c[1..m] \in V
  <2>1. \A m \in 0..n : m \in G /\ m <= n
    BY <1>4
  <2> QED BY <2>1
<1>6. \A m \in 1..n : m - 1 \in 0..n
  OBVIOUS
<1> QED BY <1>2, <1>3, <1>5, <1>6

\* Step k sets its part T[k] of the indices S to r, if it finds v there.
SetsParts(n, S, V, F, T, v, r) ==
  \A k \in 1..n, w \in V :
    (\A s \in S : s \in T[k] => w[s] = v[s]) =>
      \A s \in S : F[k][w][s] = IF s \in T[k] THEN r[s] ELSE w[s]

\* The first m steps are over.
PartsSet(m, S, T, w, r, u) ==
  \A s \in S : u[s] = IF \E k \in 1..m : s \in T[k] THEN r[s] ELSE w[s]

(* A loop whose iterations set parts of a vector that lie apart.           *)
LEMMA PartsFolded ==
  ASSUME NEW n \in Nat, NEW S, NEW V, NEW F \in [1..n -> [V -> V]], NEW T, NEW v, NEW r,
         SetsParts(n, S, V, F, T, v, r),
         \A j, k \in 1..n : \A s \in S : s \in T[j] /\ s \in T[k] => j = k,
         NEW w \in V, \A k \in 1..n : \A s \in S : s \in T[k] => w[s] = v[s],
         NEW c, FoldsBy(n, w, F, V, c)
  PROVE  c[1..n] \in V /\ PartsSet(n, S, T, w, r, c[1..n])
<1>1. /\ \A m \in 0..n : c[1..m] \in V
      /\ c[1..0] = w
      /\ \A m \in 1..n : c[1..m] = F[m][c[1..(m - 1)]]
  <2>1. n \in Nat /\ w \in V /\ F \in [1..n -> [V -> V]] /\ FoldsBy(n, w, F, V, c)
    OBVIOUS
  <2> QED BY ONLY <2>1, FoldSteps
<1> DEFINE G == {m \in Nat : m <= n => PartsSet(m, S, T, w, r, c[1..m])}
<1>2. 0 \in G
  <2>1. PartsSet(0, S, T, w, r, w)
    BY DEF PartsSet
  <2> QED BY <1>1, <2>1
<1>3. ASSUME NEW m \in G PROVE m + 1 \in G
  <2>1. m \in Nat
    OBVIOUS
  <2> SUFFICES ASSUME m + 1 <= n PROVE PartsSet(m + 1, S, T, w, r, c[1..(m + 1)])
    BY <2>1
  <2>2. m + 1 \in 1..n /\ m <= n /\ (m + 1) - 1 = m /\ m \in 0..n /\ 1..m \subseteq 1..n
    BY <2>1
  <2>3. PartsSet(m, S, T, w, r, c[1..m])
    BY <2>2
  <2> HIDE DEF G
  <2> DEFINE u == c[1..m]  j == m + 1
  <2>4. u \in V /\ c[1..j] = F[j][u]
    BY <1>1, <2>2
  <2>5. \A k \in 1..j : k \in 1..m \/ k = j
    BY <2>1
  <2>6. \A k \in 1..m : k # j /\ k \in 1..j
    BY <2>1
  <2>7. j \in 1..n /\ j \in 1..j
    BY <2>2
  <2> HIDE DEF u, j
  <2>8. ASSUME NEW s \in S, s \in T[j] PROVE u[s] = v[s]
    <3>1. ~\E k \in 1..m : s \in T[k]
      BY <2>2, <2>6, <2>7, <2>8
    <3>2. u[s] = w[s]
      BY <2>3, <3>1 DEF PartsSet, u
    <3> QED BY <2>7, <2>8, <3>2
  <2>9. \A s \in S : F[j][u][s] = IF s \in T[j] THEN r[s] ELSE u[s]
    BY <2>4, <2>7, <2>8 DEF SetsParts
  <2>10. ASSUME NEW s \in S
         PROVE  F[j][u][s] = IF \E k \in 1..j : s \in T[k] THEN r[s] ELSE w[s]
    <3>1. u[s] = IF \E k \in 1..m : s \in T[k] THEN r[s] ELSE w[s]
      BY <2>3 DEF PartsSet, u
    <3>2. (\E k \in 1..j : s \in T[k]) <=> s \in T[j] \/ \E k \in 1..m : s \in T[k]
      BY <2>5, <2>6, <2>7
    <3> QED BY <2>9, <3>1, <3>2
  <2>11. PartsSet(j, S, T, w, r, c[1..j])
    BY <2>4, <2>10 DEF PartsSet
  <2> QED BY <2>11 DEF j
<1>4. G = Nat
  <2> HIDE DEF G
  <2>1. G \in SUBSET Nat
    BY DEF G
  <2> QED BY <1>2, <1>3, <2>1, NumberInduction
<1>5. PartsSet(n, S, T, w, r, c[1..n])
  <2>1. n \in G /\ n <= n
    BY <1>4
  <2> QED BY <2>1
<1> QED BY <1>1, <1>5
===============================================================================
