-------------------------- MODULE QuantumRegisterProofs -------------------------
(***************************************************************************)
(* The register is well typed, its cached sum is right whenever no call    *)
(* threw since it was computed, and it implements the state vector it      *)
(* promises: for every number of qubits and all operations.                *)
(***************************************************************************)
EXTENDS QuantumRegister, OperatorTheorems

Vectors == [States -> Amplitude]

-------------------------------------------------------------------------------
(* The bits of a state.                                                    *)

Mask(q) == 2^(NumQubits - 1 - q)
Bit(s, q) == BitAt(s, Mask(q))

\* State s with the bit of qubit q written.
Put(s, q, x) == s + (x - Bit(s, q)) * Mask(q)

LEMMA Powers == \A n \in 0..(NumQubits + 1) : 2^n \in Nat \ {0}
<1> DEFINE G == {n \in Nat : n <= NumQubits + 1 => 2^n \in Nat \ {0}}
<1>1. 0 \in G
  BY PowersAssumption
<1>2. ASSUME NEW n \in G PROVE n + 1 \in G
  <2>1. n + 1 <= NumQubits + 1 => n \in 0..NumQubits
    BY PowersAssumption
  <2>2. n + 1 <= NumQubits + 1 => 2^(n + 1) = 2 * 2^n /\ 2^n \in Nat \ {0}
    BY <2>1, PowersAssumption
  <2> QED BY <2>2
<1>3. G = Nat
  <2>1. G \in SUBSET Nat
    OBVIOUS
  <2> HIDE DEF G
  <2> QED BY <1>1, <1>2, <2>1, NumberInduction
<1>4. ASSUME NEW n \in 0..(NumQubits + 1) PROVE 2^n \in Nat \ {0}
  <2>1. n \in Nat /\ n <= NumQubits + 1
    BY PowersAssumption
  <2>2. n \in G
    BY <1>3, <2>1
  <2> QED BY <2>1, <2>2
<1> QED BY <1>4

(* The greater of two powers of two is a multiple of the lesser.           *)
LEMMA PowersDivide ==
  ASSUME NEW a \in 0..NumQubits, NEW b \in 0..NumQubits, a <= b
  PROVE  (2^b % 2^a) = 0
<1> DEFINE d == 2^a
           G == {n \in Nat : a + n <= NumQubits => (2^(a + n) % d) = 0}
<1>0. d \in Nat \ {0}
  BY Powers, PowersAssumption
<1>1. 0 \in G
  <2>1. a + 0 = a
    OBVIOUS
  <2>2. (d % d) = 0
    <3> HIDE DEF d
    <3> QED BY <1>0
  <2> QED BY <2>1, <2>2
<1>2. ASSUME NEW n \in G PROVE n + 1 \in G
  <2> SUFFICES ASSUME a + (n + 1) <= NumQubits PROVE (2^(a + (n + 1)) % d) = 0
    OBVIOUS
  <2> DEFINE p == 2^(a + n)
  <2>1. a + n \in 0..NumQubits /\ a + (n + 1) = (a + n) + 1
    BY PowersAssumption
  <2>2. p \in Nat /\ 2^(a + (n + 1)) = 2 * p
    BY <2>1, Powers, PowersAssumption
  <2>3. (p % d) = 0
    BY <2>1
  <2> HIDE DEF p, d
  <2>4. p \div d \in Nat /\ p = d * (p \div d)
    BY <1>0, <2>2, <2>3, MultipleOf
  <2>5. ((2 * p) % d) = 0
    <3> DEFINE k == p \div d  e == 2 * k
    <3>1. k \in Nat /\ p = d * k
      BY <2>4
    <3> HIDE DEF k
    <3>2. e \in Nat /\ 2 * p = d * e
      BY <1>0, <3>1
    <3> HIDE DEF e
    <3>3. (d * e + 0) % d = 0
      BY <1>0, <3>2, DivisionUnique
    <3>4. 2 * p = d * e + 0
      BY <1>0, <3>2
    <3> QED BY <3>3, <3>4
  <2> QED BY <2>2, <2>5
<1>3. G = Nat
  <2>1. G \in SUBSET Nat
    OBVIOUS
  <2> HIDE DEF G
  <2> QED BY <1>1, <1>2, <2>1, NumberInduction
<1>4. b - a \in Nat /\ a + (b - a) = b /\ b <= NumQubits
  BY PowersAssumption
<1>5. b - a \in G
  <2> HIDE DEF G
  <2> QED BY <1>3, <1>4
<1>6. (2^(a + (b - a)) % d) = 0
  BY <1>4, <1>5
<1> QED BY <1>4, <1>6

LEMMA Masks ==
  /\ \A q \in Qubits : Mask(q) \in Nat \ {0} /\ (2^NumQubits % (2 * Mask(q))) = 0
  /\ \A p, q \in Qubits : p < q => (Mask(p) % (2 * Mask(q))) = 0
<1>1. ASSUME NEW q \in Qubits
      PROVE  /\ Mask(q) \in Nat \ {0} /\ NumQubits - q \in 0..NumQubits
             /\ 2 * Mask(q) = 2^(NumQubits - q)
  <2> DEFINE n == NumQubits - 1 - q
  <2>1. n \in 0..NumQubits /\ n + 1 = NumQubits - q /\ NumQubits - q \in 0..NumQubits
    BY PowersAssumption DEF Qubits
  <2>2. 2^n \in Nat \ {0}
    BY <2>1, Powers, PowersAssumption
  <2>3. 2^(n + 1) = 2 * 2^n
    BY <2>1, PowersAssumption
  <2> QED BY <2>1, <2>2, <2>3 DEF Mask
<1>2. ASSUME NEW q \in Qubits PROVE (2^NumQubits % (2 * Mask(q))) = 0
  <2>1. NumQubits \in 0..NumQubits /\ NumQubits - q <= NumQubits
    BY PowersAssumption DEF Qubits
  <2> QED BY <1>1, <2>1, PowersDivide
<1>3. ASSUME NEW p \in Qubits, NEW q \in Qubits, p < q PROVE (Mask(p) % (2 * Mask(q))) = 0
  <2>1. NumQubits - 1 - p \in 0..NumQubits /\ NumQubits - q <= NumQubits - 1 - p
    BY <1>3, PowersAssumption DEF Qubits
  <2> QED BY <1>1, <2>1, PowersDivide DEF Mask
<1> QED BY <1>1, <1>2, <1>3

LEMMA StatesAreNumbers ==
  /\ NumStates \in Nat \ {0}
  /\ \A s : s \in States <=> s \in Nat /\ s < NumStates
  /\ IsFiniteSet(States) /\ Cardinality(States) = NumStates
<1>1. NumStates \in Nat \ {0}
  BY Powers, PowersAssumption DEF NumStates
<1>2. States = 0..(NumStates - 1)
  BY DEF States, NumStates
<1>3. IsFiniteSet(States) /\ Cardinality(States) = NumStates
  BY <1>1, <1>2, FS_Interval
<1> QED BY <1>1, <1>2, <1>3

LEMMA BitType ==
  ASSUME NEW s \in States, NEW q \in Qubits
  PROVE  Bit(s, q) \in {0, 1}
<1>1. s \in Nat /\ Mask(q) \in Nat \ {0}
  BY Masks, StatesAreNumbers
<1>2. s \div Mask(q) \in Nat
  BY <1>1, Division
<1> QED BY <1>2 DEF Bit, BitAt

(* Writing a bit writes that bit, and no other.                            *)
LEMMA PutBit ==
  ASSUME NEW s \in States, NEW q \in Qubits, NEW x \in {0, 1}
  PROVE  /\ Put(s, q, x) \in States
         /\ \A p \in Qubits : Bit(Put(s, q, x), p) = IF p = q THEN x ELSE Bit(s, p)
<1> DEFINE m == Mask(q)  t == Put(s, q, x)
<1>1. m \in Nat \ {0} /\ (NumStates % (2 * m)) = 0
  BY Masks DEF NumStates
<1>2. s \in Nat /\ s < NumStates /\ NumStates \in Nat
  BY StatesAreNumbers
<1>3. t = s + (x - BitAt(s, m)) * m
  BY DEF Put, Bit
<1>4. t \in Int
  <2>1. BitAt(s, m) \in {0, 1}
    BY BitType DEF Bit
  <2> HIDE DEF t, m
  <2> QED BY <1>1, <1>2, <1>3, <2>1
<1> HIDE DEF t, m
<1>5. t \in Nat /\ t < NumStates /\ BitAt(t, m) = x
  BY <1>1, <1>2, <1>3, <1>4, WriteBit
<1>6. ASSUME NEW p \in Qubits, p # q PROVE Bit(t, p) = Bit(s, p)
  <2> DEFINE w == Mask(p)
  <2>1. w \in Nat \ {0} /\ ((w % (2 * m)) = 0 \/ (m % (2 * w)) = 0)
    <3>1. p < q \/ q < p
      BY <1>6 DEF Qubits
    <3> QED BY <3>1, Masks DEF m
  <2> HIDE DEF w
  <2>2. BitAt(t, w) = BitAt(s, w)
    <3>1. m \in Nat \ {0} /\ s \in Nat /\ t \in Nat
      BY <1>1, <1>2, <1>5
    <3> QED BY <1>3, <2>1, <3>1, OtherBit
  <2> QED BY <2>2 DEF w, Bit
<1>7. t \in States
  BY <1>5, StatesAreNumbers
<1>8. Bit(t, q) = x
  BY <1>5 DEF Bit, m
<1> QED BY <1>6, <1>7, <1>8 DEF t

-------------------------------------------------------------------------------
(* Rows and columns of a gate on a list of qubits.                         *)

LEMMA QubitListType ==
  ASSUME NEW k \in Nat, NEW qs \in QubitLists(k)
  PROVE  /\ DOMAIN qs = 1..k /\ Len(qs) = k /\ IsFiniteSet(1..k)
         /\ \A i \in 1..k : qs[i] \in Qubits
         /\ \A i, j \in 1..k : qs[i] = qs[j] => i = j
<1>1. qs \in [1..k -> Qubits] /\ \A i, j \in DOMAIN qs : qs[i] = qs[j] => i = j
  BY DEF QubitLists, Injection, IsInjective
<1>2. qs \in Seq(Qubits) /\ Len(qs) = k
  BY <1>1
<1>3. IsFiniteSet(1..k)
  BY FS_Interval
<1> QED BY <1>1, <1>2, <1>3

RowTerms(s, qs) == [i \in DOMAIN qs |-> Bit(s, qs[i]) * 2^(Len(qs) - i)]
ColumnBit(qs, col, i) == (col \div 2^(Len(qs) - i)) % 2
ColumnTerms(s, qs, col) ==
  [i \in DOMAIN qs |-> (ColumnBit(qs, col, i) - Bit(s, qs[i])) * Mask(qs[i])]

LEMMA RowIsSum ==
  ASSUME NEW s, NEW qs
  PROVE  Backend!Row(s, qs) = SumFunctionOnSet(RowTerms(s, qs), DOMAIN qs)
BY DEF Backend!Row, Backend!MapThenSumSet, Backend!MapThenFoldSet, SumFunctionOnSet,
       FoldFunctionOnSet, MapThenFoldSet, RowTerms, Backend!Bit, Backend!Mask, Bit, BitAt, Mask

LEMMA ColumnIsSum ==
  ASSUME NEW s, NEW qs, NEW col
  PROVE  Backend!WithColumn(s, qs, col)
           = s + SumFunctionOnSet(ColumnTerms(s, qs, col), DOMAIN qs)
BY DEF Backend!WithColumn, Backend!MapThenSumSet, Backend!MapThenFoldSet, SumFunctionOnSet,
       FoldFunctionOnSet, MapThenFoldSet, ColumnTerms, ColumnBit, Backend!Bit, Backend!Mask,
       Bit, BitAt, Mask

(* The row of a state is a row of the gate's matrix.                       *)
LEMMA RowType ==
  ASSUME NEW k \in 0..NumQubits, NEW qs \in QubitLists(k), NEW s \in States
  PROVE  Backend!Row(s, qs) \in Rows(2^k)
<1> DEFINE f == RowTerms(s, qs)
           Sum(j) == SumFunctionOnSet(f, 1..j)
           Power(j) == 2^(k - j)
           G == {j \in Nat : j <= k => Sum(j) \in Nat /\ Sum(j) + Power(j) <= 2^k}
<1>1. k \in Nat /\ DOMAIN qs = 1..k /\ Len(qs) = k /\ \A i \in 1..k : qs[i] \in Qubits
  BY QubitListType, PowersAssumption
<1>2. \A j \in 0..k : Power(j) \in Nat \ {0}
  <2>1. \A j \in 0..k : k - j \in 0..(NumQubits + 1)
    BY <1>1, PowersAssumption
  <2> QED BY <2>1, Powers
<1>3. ASSUME NEW i \in 1..k PROVE f[i] \in Int /\ f[i] \in {0, Power(i)}
  <2>1. Bit(s, qs[i]) \in {0, 1}
    BY <1>1, BitType
  <2>2. f[i] = Bit(s, qs[i]) * Power(i)
    BY <1>1 DEF RowTerms
  <2>3. Power(i) \in Nat
    BY <1>2
  <2> HIDE DEF f, Power
  <2> QED BY <2>1, <2>2, <2>3
<1>4. 0 \in G
  <2>1. 1..0 = {} /\ k - 0 = k
    BY <1>1
  <2>2. Sum(0) = 0
    <3>1. IsFiniteSet({})
      BY FS_EmptySet
    <3>2. SumFunctionOnSet(f, {}) = 0
      BY <3>1, SumType
    <3> QED BY <2>1, <3>2
  <2>3. Power(0) = 2^k /\ Power(0) \in Nat
    BY <1>1, <1>2, <2>1
  <2> HIDE DEF Sum, Power
  <2> QED BY <2>2, <2>3
<1>5. ASSUME NEW j \in G PROVE j + 1 \in G
  <2> SUFFICES ASSUME j + 1 <= k
               PROVE  Sum(j + 1) \in Nat /\ Sum(j + 1) + Power(j + 1) <= 2^k
    OBVIOUS
  <2>1. Sum(j) \in Nat /\ Sum(j) + Power(j) <= 2^k /\ j \in Nat
    BY <1>1
  <2>2. j + 1 \in 1..k /\ j \in 0..k /\ 1..(j + 1) \subseteq 1..k
    BY <1>1, <2>1
  <2>3. Sum(j + 1) = f[j + 1] + Sum(j)
    <3>1. IsFiniteSet(1..(j + 1)) /\ j + 1 \in 1..(j + 1) /\ (1..(j + 1)) \ {j + 1} = 1..j
      <4>1. j \in Int /\ j + 1 \in 1..(j + 1) /\ (1..(j + 1)) \ {j + 1} = 1..j
        BY <2>1
      <4>2. \A a, b \in Int : IsFiniteSet(a..b)
        BY FS_Interval
      <4> QED BY <4>1, <4>2
    <3>2. \A x \in 1..(j + 1) : f[x] \in Int
      BY <1>3, <2>2
    <3> HIDE DEF f
    <3>3. SumFunctionOnSet(f, 1..(j + 1)) = f[j + 1] + SumFunctionOnSet(f, (1..(j + 1)) \ {j + 1})
      BY <3>1, <3>2, SumSplit
    <3> QED BY <3>1, <3>3
  <2>4. Power(j) = 2 * Power(j + 1)
    <3> DEFINE n == k - (j + 1)
    <3>1. n \in 0..NumQubits /\ n + 1 = k - j
      BY <1>1, <2>1, PowersAssumption
    <3>2. 2^(n + 1) = 2 * 2^n
      BY <3>1, PowersAssumption
    <3> QED BY <3>1, <3>2
  <2>5. f[j + 1] \in {0, Power(j + 1)} /\ Power(j + 1) \in Nat
    <3>1. j + 1 \in 1..k /\ j + 1 \in 0..k
      BY <2>2
    <3> HIDE DEF Power, f
    <3> QED BY <1>2, <1>3, <3>1
  <2>6. 2^k \in Int
    <3>1. Power(0) = 2^k /\ Power(0) \in Nat
      <4>1. k - 0 = k /\ 0 \in 0..k
        BY <1>1
      <4> QED BY <1>2, <4>1
    <3> QED BY <3>1
  <2> HIDE DEF Sum, Power, f
  <2> QED BY <2>1, <2>3, <2>4, <2>5, <2>6
<1>6. G = Nat
  <2>1. G \in SUBSET Nat
    OBVIOUS
  <2> HIDE DEF G
  <2> QED BY <1>4, <1>5, <2>1, NumberInduction
<1>7. Sum(k) \in Nat /\ Sum(k) + Power(k) <= 2^k
  <2>1. k \in G
    BY <1>1, <1>6
  <2> HIDE DEF Sum, Power
  <2> QED BY <1>1, <2>1
<1>8. Power(k) = 1
  <2>1. k - k = 0
    BY <1>1
  <2> QED BY <2>1, PowersAssumption
<1>9. 2^k \in Nat
  <2>1. k \in 0..(NumQubits + 1)
    BY PowersAssumption
  <2> QED BY <2>1, Powers
<1>10. Sum(k) \in Nat /\ Sum(k) <= 2^k - 1
  <2> HIDE DEF Sum, Power
  <2> QED BY <1>7, <1>8, <1>9
<1>11. Backend!Row(s, qs) = Sum(k)
  BY <1>1, RowIsSum
<1> HIDE DEF Sum
<1> QED BY <1>9, <1>10, <1>11 DEF Rows

(* Writing a column to a state writes its bits to the gate's qubits, and   *)
(* no other bit.                                                           *)
LEMMA ColumnBits ==
  ASSUME NEW k \in 0..NumQubits, NEW qs \in QubitLists(k), NEW s \in States,
         NEW col \in Rows(2^k)
  PROVE  /\ Backend!WithColumn(s, qs, col) \in States
         /\ \A i \in 1..k : Bit(Backend!WithColumn(s, qs, col), qs[i]) = ColumnBit(qs, col, i)
<1> DEFINE f == ColumnTerms(s, qs, col)
           D == 1..k
           At(T) == s + SumFunctionOnSet(f, T)
           Good == {T \in SUBSET D :
                      /\ At(T) \in States
                      /\ \A i \in D : Bit(At(T), qs[i]) =
                                      IF i \in T THEN ColumnBit(qs, col, i) ELSE Bit(s, qs[i])}
<1>1. /\ k \in Nat /\ DOMAIN qs = D /\ Len(qs) = k /\ IsFiniteSet(D)
      /\ \A i \in D : qs[i] \in Qubits
      /\ \A i, j \in D : qs[i] = qs[j] => i = j
  BY QubitListType, PowersAssumption
<1>2. s \in Int
  BY StatesAreNumbers
<1>3. ASSUME NEW i \in D PROVE ColumnBit(qs, col, i) \in {0, 1}
  <2> DEFINE p == 2^(k - i)
  <2>1. k - i \in 0..(NumQubits + 1)
    BY <1>1, PowersAssumption
  <2>2. p \in Nat \ {0}
    BY <2>1, Powers
  <2>3. col \in Nat
    <3>1. k \in 0..(NumQubits + 1)
      BY PowersAssumption
    <3>2. 2^k \in Nat
      BY <3>1, Powers
    <3> QED BY <3>2 DEF Rows
  <2>4. ColumnBit(qs, col, i) = (col \div p) % 2
    BY <1>1 DEF ColumnBit
  <2> HIDE DEF p
  <2>5. col \div p \in Nat
    BY <2>2, <2>3, Division
  <2> QED BY <2>4, <2>5
<1>4. ASSUME NEW i \in D
      PROVE  f[i] = (ColumnBit(qs, col, i) - Bit(s, qs[i])) * Mask(qs[i]) /\ f[i] \in Int
  <2>1. f[i] = (ColumnBit(qs, col, i) - Bit(s, qs[i])) * Mask(qs[i])
    BY <1>1 DEF ColumnTerms
  <2>2. Bit(s, qs[i]) \in {0, 1} /\ Mask(qs[i]) \in Nat /\ ColumnBit(qs, col, i) \in {0, 1}
    BY <1>1, <1>3, BitType, Masks
  <2> HIDE DEF f
  <2> QED BY <2>1, <2>2
<1> HIDE DEF f, D
<1>5. ASSUME NEW T \in SUBSET D, \A x \in T : T \ {x} \in Good
      PROVE  T \in Good
  <2>1. IsFiniteSet(T) /\ \A x \in T : f[x] \in Int
    BY <1>1, <1>4, FS_Subset
  <2>2. CASE T = {}
    <3>1. At(T) = s
      BY <1>2, <2>1, <2>2, SumType
    <3> HIDE DEF At
    <3> QED BY <2>2, <3>1
  <2>3. CASE T # {}
    <3>1. PICK x \in T : TRUE
      BY <2>3
    <3> DEFINE R == T \ {x}  u == At(R)
    <3>2. R \in Good
      BY <1>5
    <3>3. SumFunctionOnSet(f, R) \in Int
      <4>1. IsFiniteSet(R) /\ \A y \in R : f[y] \in Int
        BY <2>1, FS_Subset
      <4> HIDE DEF R
      <4> QED BY <4>1, SumType
    <3>4. At(T) = u + f[x]
      <4>1. SumFunctionOnSet(f, T) = f[x] + SumFunctionOnSet(f, R)
        BY <2>1, SumSplit
      <4>2. f[x] \in Int
        BY <2>1
      <4> HIDE DEF R
      <4> QED BY <1>2, <3>3, <4>1, <4>2
    <3>5. u \in States /\ Bit(u, qs[x]) = Bit(s, qs[x])
      <4> HIDE DEF At
      <4> QED BY <3>2
    <3>6. At(T) = Put(u, qs[x], ColumnBit(qs, col, x))
      <4> HIDE DEF At, u
      <4> QED BY <1>4, <3>4, <3>5 DEF Put
    <3>7. /\ At(T) \in States
          /\ \A p \in Qubits : Bit(At(T), p) =
               IF p = qs[x] THEN ColumnBit(qs, col, x) ELSE Bit(u, p)
      <4> HIDE DEF At, u
      <4> QED BY <1>1, <1>3, <3>5, <3>6, PutBit
    <3>8. ASSUME NEW i \in D
          PROVE  Bit(At(T), qs[i]) = IF i \in T THEN ColumnBit(qs, col, i) ELSE Bit(s, qs[i])
      <4>1. Bit(u, qs[i]) = IF i \in R THEN ColumnBit(qs, col, i) ELSE Bit(s, qs[i])
        <5> HIDE DEF At
        <5> QED BY <3>2
      <4>2. Bit(At(T), qs[i]) = IF qs[i] = qs[x] THEN ColumnBit(qs, col, x) ELSE Bit(u, qs[i])
        <5> HIDE DEF At, u
        <5> QED BY <1>1, <3>7
      <4>3. qs[i] = qs[x] <=> i = x
        BY <1>1
      <4> HIDE DEF At, u
      <4> QED BY <4>1, <4>2, <4>3
    <3> HIDE DEF At
    <3> QED BY <3>7, <3>8
  <2> QED BY <2>2, <2>3
<1>6. SUBSET D \subseteq Good
  <2>1. \A T \in SUBSET D : (\A x \in T : T \ {x} \in Good) => T \in Good
    BY <1>5
  <2>2. \A H : (\A T \in SUBSET D : (\A x \in T : T \ {x} \in H) => T \in H)
               => SUBSET D \subseteq H
    <3>1. IsFiniteSet(D)
      BY <1>1
    <3> QED BY <3>1, SubsetInduction
  <2> HIDE DEF Good
  <2> QED BY <2>1, <2>2
<1>7. D \in Good
  BY <1>6
<1>8. Backend!WithColumn(s, qs, col) = At(D)
  BY <1>1, ColumnIsSum DEF f
<1> HIDE DEF At
<1>9. At(D) \in States /\ \A i \in D : Bit(At(D), qs[i]) = ColumnBit(qs, col, i)
  BY <1>7
<1> QED BY <1>8, <1>9 DEF D

-------------------------------------------------------------------------------
(* What the operations do to a vector.                                     *)

SquareMatrices(k) == [Rows(2^k) -> [Rows(2^k) -> Amplitude]]

LEMMA Field ==
  /\ \A a, b \in Int : Plus(a, b) \in Amplitude /\ Minus(a, b) \in Amplitude
  /\ \A a, b \in Amplitude : Times(a, b) \in Amplitude
  /\ {0, 1} \subseteq Amplitude /\ Amplitude \subseteq Int
<1>1. ASSUME NEW a \in Amplitude, NEW b \in Amplitude PROVE Times(a, b) \in Amplitude
  <2>1. a * b \in Int
    BY DEF Amplitude
  <2> DEFINE c == a * b
  <2>2. c \in Int
    BY <2>1
  <2> HIDE DEF c
  <2>3. (c % 17) \in 0..16
    BY <2>2
  <2> QED BY <2>3 DEF Times, Amplitude, c
<1>2. ASSUME NEW a \in Int, NEW b \in Int PROVE Plus(a, b) \in Amplitude /\ Minus(a, b) \in Amplitude
  BY DEF Plus, Minus, Amplitude
<1> QED BY <1>1, <1>2 DEF Amplitude

LEMMA GateTypes ==
  /\ NumQubits >= 1 => Hadamard \in SquareMatrices(1) /\ PauliX \in SquareMatrices(1)
  /\ NumQubits >= 2 => /\ ControlledNot \in SquareMatrices(2)
                       /\ Backend!Exchange \in SquareMatrices(2)
                       /\ \A phase \in Amplitude : ControlledPhaseShift(phase) \in SquareMatrices(2)
<1>1. ASSUME NumQubits >= 1 PROVE 2^1 = 2
  <2>1. 0 \in 0..NumQubits
    BY PowersAssumption
  <2>2. 2^(0 + 1) = 2 * 2^0
    BY <2>1, PowersAssumption
  <2> QED BY <2>2, PowersAssumption
<1>2. ASSUME NumQubits >= 2 PROVE 2^2 = 4
  <2>1. 1 \in 0..NumQubits
    BY <1>2, PowersAssumption
  <2>2. 2^(1 + 1) = 2 * 2^1
    BY <2>1, PowersAssumption
  <2> QED BY <1>1, <1>2, <2>2, PowersAssumption
<1>3. InvSqrt2 \in Amplitude /\ Minus(0, InvSqrt2) \in Amplitude
  <2>1. InvSqrt2 \in 0..16
    BY DEF InvSqrt2
  <2> QED BY <2>1, Field DEF Amplitude
<1>4. ASSUME NumQubits >= 1 PROVE Hadamard \in SquareMatrices(1) /\ PauliX \in SquareMatrices(1)
  <2>1. Rows(2^1) = 0..1 /\ Rows(2) = 0..1
    BY <1>1, <1>4 DEF Rows
  <2>2. Hadamard \in SquareMatrices(1)
    BY <1>3, <2>1 DEF Hadamard, Matrix, SquareMatrices
  <2>3. PauliX \in SquareMatrices(1)
    BY <2>1, Field DEF PauliX, Matrix, SquareMatrices
  <2> QED BY <2>2, <2>3
<1>5. ASSUME NumQubits >= 2
      PROVE  /\ ControlledNot \in SquareMatrices(2)
             /\ Backend!Exchange \in SquareMatrices(2)
             /\ \A phase \in Amplitude : ControlledPhaseShift(phase) \in SquareMatrices(2)
  <2>1. Rows(2^2) = 0..3 /\ Rows(4) = 0..3
    BY <1>2, <1>5 DEF Rows
  <2>2. ControlledNot \in SquareMatrices(2)
    BY <2>1, Field DEF ControlledNot, Matrix, SquareMatrices
  <2>3. Backend!Exchange \in SquareMatrices(2)
    BY <2>1, Field DEF Backend!Exchange, Backend!Matrix, Backend!Rows, Rows, SquareMatrices
  <2>4. ASSUME NEW phase \in Amplitude PROVE ControlledPhaseShift(phase) \in SquareMatrices(2)
    BY <2>1, Field DEF ControlledPhaseShift, Matrix, SquareMatrices
  <2> QED BY <2>2, <2>3, <2>4
<1> QED BY <1>4, <1>5

LEMMA SameTotal == \A f : Backend!Total(f) = Total(f)
<1> SUFFICES ASSUME NEW f PROVE Backend!Total(f) = Total(f)
  OBVIOUS
<1>1. Backend!SumFunction(f) = SumFunction(f)
  BY DEF Backend!SumFunction, SumFunction, Backend!SumFunctionOnSet, SumFunctionOnSet,
         Backend!FoldFunctionOnSet, FoldFunctionOnSet, Backend!MapThenFoldSet, MapThenFoldSet
<1> QED BY <1>1 DEF Backend!Total, Total

AppliedTerms(gate, qs, v, s) ==
  [col \in DOMAIN gate |-> gate[Backend!Row(s, qs)][col] * v[Backend!WithColumn(s, qs, col)]]

LEMMA AppliedTotal ==
  \A gate, qs, v :
    Backend!Applied(gate, qs, v) = [s \in States |-> Total(AppliedTerms(gate, qs, v, s))]
BY SameTotal DEF Backend!Applied, AppliedTerms, Backend!States, States

LEMMA AppliedType ==
  ASSUME NEW k \in 0..NumQubits, NEW qs \in QubitLists(k), NEW gate \in SquareMatrices(k),
         NEW v \in Vectors
  PROVE  /\ Backend!Applied(gate, qs, v) \in Vectors
         /\ \A s \in States : \A col \in Rows(2^k) : AppliedTerms(gate, qs, v, s)[col] \in Int
<1>1. DOMAIN gate = Rows(2^k) /\ IsFiniteSet(Rows(2^k))
  <2>1. k \in 0..(NumQubits + 1)
    BY PowersAssumption
  <2>2. 2^k \in Int
    BY <2>1, Powers
  <2>3. \A a, b \in Int : IsFiniteSet(a..b)
    BY FS_Interval
  <2> QED BY <2>2, <2>3 DEF Rows, SquareMatrices
<1>2. ASSUME NEW s \in States, NEW col \in Rows(2^k)
      PROVE  AppliedTerms(gate, qs, v, s)[col] \in Int
  <2> DEFINE row == Backend!Row(s, qs)  t == Backend!WithColumn(s, qs, col)
  <2>1. row \in Rows(2^k) /\ t \in States
    BY RowType, ColumnBits
  <2> HIDE DEF row, t
  <2>2. gate[row][col] \in Amplitude /\ v[t] \in Amplitude
    BY <2>1 DEF SquareMatrices, Vectors
  <2>3. gate[row][col] * v[t] \in Int
    BY <2>2 DEF Amplitude
  <2> QED BY <1>1, <2>3 DEF AppliedTerms, row, t
<1>3. ASSUME NEW s \in States PROVE Total(AppliedTerms(gate, qs, v, s)) \in Amplitude
  <2>1. DOMAIN AppliedTerms(gate, qs, v, s) = Rows(2^k)
    BY <1>1 DEF AppliedTerms
  <2> QED BY <1>1, <1>2, <2>1, TotalType
<1> QED BY <1>2, <1>3, AppliedTotal DEF Vectors

LEMMA SameNames ==
  /\ Backend!Hadamard = Hadamard /\ Backend!PauliX = PauliX
  /\ Backend!ControlledNot = ControlledNot
  /\ \A phase : Backend!ControlledPhaseShift(phase) = ControlledPhaseShift(phase)
  /\ \A a, b : /\ Backend!Plus(a, b) = Plus(a, b) /\ Backend!Minus(a, b) = Minus(a, b)
               /\ Backend!Times(a, b) = Times(a, b)
  /\ Backend!States = States
<1>1. Backend!Hadamard = Hadamard /\ Backend!PauliX = PauliX
  BY DEF Backend!Hadamard, Hadamard, Backend!PauliX, PauliX, Backend!Matrix, Matrix,
         Backend!Rows, Rows, Backend!InvSqrt2, InvSqrt2, Backend!Minus, Minus
<1>2. Backend!ControlledNot = ControlledNot
  BY DEF Backend!ControlledNot, ControlledNot, Backend!Matrix, Matrix, Backend!Rows, Rows
<1>3. \A phase : Backend!ControlledPhaseShift(phase) = ControlledPhaseShift(phase)
  BY DEF Backend!ControlledPhaseShift, ControlledPhaseShift, Backend!Matrix, Matrix,
         Backend!Rows, Rows
<1>4. \A a, b : /\ Backend!Plus(a, b) = Plus(a, b) /\ Backend!Minus(a, b) = Minus(a, b)
                /\ Backend!Times(a, b) = Times(a, b)
  BY DEF Backend!Plus, Plus, Backend!Minus, Minus, Backend!Times, Times
<1> QED BY <1>1, <1>2, <1>3, <1>4 DEF Backend!States, States

LEMMA GateResults ==
  ASSUME NEW o, NEW v
  PROVE  /\ o.name = "H" => Backend!Result(o, v) = Backend!Applied(Hadamard, o.qubits, v)
         /\ o.name = "X" => Backend!Result(o, v) = Backend!Applied(PauliX, o.qubits, v)
         /\ o.name = "CNOT" => Backend!Result(o, v) = Backend!Applied(ControlledNot, o.qubits, v)
         /\ o.name = "CP" => Backend!Result(o, v)
              = Backend!Applied(ControlledPhaseShift(o.phase), o.qubits, v)
         /\ o.name = "Swap" => Backend!Result(o, v) = Backend!Applied(Backend!Exchange, o.qubits, v)
         /\ o.name = "Gate" => Backend!Result(o, v) = Backend!Applied(o.matrix, o.qubits, v)
BY SameNames DEF Backend!Result

LEMMA VectorResults ==
  ASSUME NEW o, NEW v
  PROVE  /\ o.name = "PhaseFlip" =>
              Backend!Result(o, v) = [v EXCEPT ![o.state] = Minus(0, v[o.state])]
         /\ o.name = "SetAmplitude" => Backend!Result(o, v) = [v EXCEPT ![o.state] = o.value]
         /\ o.name = "Inversion" => Backend!Result(o, v)
              = [s \in States |-> Minus(2 * Times(Total(v), InversePower2(NumQubits)), v[s])]
         /\ o.name = "InversionMean" =>
              Backend!Result(o, v) = [s \in States |-> Minus(2 * o.mean, v[s])]
         /\ o.name = "Affine" =>
              Backend!Result(o, v) = [s \in States |-> Plus(Times(o.scale, v[s]), o.bias)]
         /\ o.name = "Load" => Backend!Result(o, v) = o.vector
<1>1. Backend!Mean(v) = Times(Total(v), InversePower2(NumQubits))
  BY SameNames, SameTotal DEF Backend!Mean, Backend!InversePower2, InversePower2,
                             Backend!Half, Half
<1>2. o.name = "PhaseFlip" => Backend!Result(o, v) = [v EXCEPT ![o.state] = Minus(0, v[o.state])]
  BY SameNames DEF Backend!Result
<1>3. o.name = "SetAmplitude" => Backend!Result(o, v) = [v EXCEPT ![o.state] = o.value]
  BY DEF Backend!Result
<1>4. o.name = "Inversion" => Backend!Result(o, v)
        = [s \in States |-> Minus(2 * Times(Total(v), InversePower2(NumQubits)), v[s])]
  BY <1>1, SameNames DEF Backend!Result
<1>5. o.name = "InversionMean" =>
        Backend!Result(o, v) = [s \in States |-> Minus(2 * o.mean, v[s])]
  BY SameNames DEF Backend!Result
<1>6. o.name = "Affine" =>
        Backend!Result(o, v) = [s \in States |-> Plus(Times(o.scale, v[s]), o.bias)]
  BY SameNames DEF Backend!Result
<1>7. o.name = "Load" => Backend!Result(o, v) = o.vector
  BY DEF Backend!Result
<1> QED BY <1>2, <1>3, <1>4, <1>5, <1>6, <1>7

-------------------------------------------------------------------------------
(* An exchange of two qubits is three controlled nots.                     *)

LEMMA TwoQubits ==
  ASSUME NEW qs \in QubitLists(2)
  PROVE  /\ 2 \in 0..NumQubits /\ DOMAIN qs = 1..2 /\ Len(qs) = 2 /\ 2^2 = 4
         /\ qs[1] \in Qubits /\ qs[2] \in Qubits /\ qs[1] # qs[2]
         /\ 2^(2 - 1) = 2 /\ 2^(2 - 2) = 1
<1>1. /\ DOMAIN qs = 1..2 /\ Len(qs) = 2
      /\ qs[1] \in Qubits /\ qs[2] \in Qubits /\ qs[1] # qs[2]
  <2>1. 1 \in 1..2 /\ 2 \in 1..2 /\ 2 \in Nat
    OBVIOUS
  <2> QED BY <2>1, QubitListType
<1>2. NumQubits \in Nat /\ NumQubits >= 2
  BY <1>1, PowersAssumption DEF Qubits
<1>3. 0 \in 0..NumQubits /\ 1 \in 0..NumQubits /\ 2 \in 0..NumQubits
  BY <1>2
<1>4. 2^0 = 1 /\ 2^(0 + 1) = 2 * 2^0 /\ 2^(1 + 1) = 2 * 2^1
  BY <1>3, PowersAssumption
<1> QED BY <1>1, <1>3, <1>4

LEMMA TwoQubitRow ==
  ASSUME NEW qs \in QubitLists(2), NEW s \in States
  PROVE  Backend!Row(s, qs) = 2 * Bit(s, qs[1]) + Bit(s, qs[2])
<1> DEFINE f == RowTerms(s, qs)
<1>1. Bit(s, qs[1]) \in {0, 1} /\ Bit(s, qs[2]) \in {0, 1}
  BY TwoQubits, BitType
<1>2. f[1] = Bit(s, qs[1]) * 2^(2 - 1) /\ f[2] = Bit(s, qs[2]) * 2^(2 - 2)
  <2>1. 1 \in DOMAIN qs /\ 2 \in DOMAIN qs /\ Len(qs) = 2
    BY TwoQubits
  <2>2. f[1] = Bit(s, qs[1]) * 2^(Len(qs) - 1) /\ f[2] = Bit(s, qs[2]) * 2^(Len(qs) - 2)
    BY <2>1 DEF RowTerms
  <2> QED BY <2>1, <2>2
<1>3. f[1] = 2 * Bit(s, qs[1]) /\ f[2] = Bit(s, qs[2])
  BY <1>1, <1>2, TwoQubits
<1>4. Backend!Row(s, qs) = SumFunctionOnSet(f, 1..2)
  BY TwoQubits, RowIsSum
<1> HIDE DEF f
<1>5. f[1] \in Int /\ f[2] \in Int
  BY <1>1, <1>3
<1> QED BY <1>3, <1>4, <1>5, TwoTerms

LEMMA TwoQubitColumn ==
  ASSUME NEW qs \in QubitLists(2), NEW s \in States, NEW x \in {0, 1}, NEW y \in {0, 1}
  PROVE  Backend!WithColumn(s, qs, 2 * x + y) = Put(Put(s, qs[1], x), qs[2], y)
<1> DEFINE col == 2 * x + y  f == ColumnTerms(s, qs, col)  u == Put(s, qs[1], x)
           d1 == (x - Bit(s, qs[1])) * Mask(qs[1])
           d2 == (y - Bit(s, qs[2])) * Mask(qs[2])
<1>1. /\ Bit(s, qs[1]) \in {0, 1} /\ Bit(s, qs[2]) \in {0, 1}
      /\ Mask(qs[1]) \in Nat /\ Mask(qs[2]) \in Nat /\ s \in Int
  BY TwoQubits, BitType, Masks, StatesAreNumbers
<1>2. ColumnBit(qs, col, 1) = x /\ ColumnBit(qs, col, 2) = y
  <2>1. ColumnBit(qs, col, 1) = (col \div 2) % 2 /\ ColumnBit(qs, col, 2) = (col \div 1) % 2
    BY TwoQubits DEF ColumnBit
  <2>2. ((2 * x + y) \div 2) % 2 = x /\ ((2 * x + y) \div 1) % 2 = y
    OBVIOUS
  <2> QED BY <2>1, <2>2
<1>3. f[1] = d1 /\ f[2] = d2
  <2> HIDE DEF col
  <2> QED BY <1>2, TwoQubits DEF ColumnTerms
<1>4. d1 \in Int /\ d2 \in Int
  BY <1>1
<1>5. Backend!WithColumn(s, qs, col) = s + SumFunctionOnSet(f, 1..2)
  BY TwoQubits, ColumnIsSum
<1> HIDE DEF f, col
<1>6. Backend!WithColumn(s, qs, col) = s + (d1 + d2)
  BY <1>3, <1>4, <1>5, TwoTerms
<1>7. u = s + d1 /\ Bit(u, qs[2]) = Bit(s, qs[2])
  BY TwoQubits, PutBit DEF Put
<1>8. Put(u, qs[2], y) = u + d2
  <2> HIDE DEF u
  <2> QED BY <1>7 DEF Put
<1> HIDE DEF d1, d2, u
<1>9. Put(u, qs[2], y) = s + (d1 + d2)
  BY <1>1, <1>4, <1>7, <1>8
<1> QED BY <1>6, <1>9 DEF col, u

(* A gate whose row holds a single 1, at col, fetches the amplitude there. *)
LEMMA SingleEntry ==
  ASSUME NEW k \in 0..NumQubits, NEW qs \in QubitLists(k), NEW gate \in SquareMatrices(k),
         NEW v \in Vectors, NEW s \in States, NEW col \in Rows(2^k),
         \A c \in Rows(2^k) : gate[Backend!Row(s, qs)][c] = IF c = col THEN 1 ELSE 0
  PROVE  Backend!Applied(gate, qs, v)[s] = v[Backend!WithColumn(s, qs, col)]
<1> DEFINE f == AppliedTerms(gate, qs, v, s)  t == Backend!WithColumn(s, qs, col)
           R == Rows(2^k)
<1>1. DOMAIN gate = R /\ IsFiniteSet(R) /\ DOMAIN f = R
  <2>1. k \in 0..(NumQubits + 1)
    BY PowersAssumption
  <2>2. 2^k \in Int
    BY <2>1, Powers
  <2>3. \A a, b \in Int : IsFiniteSet(a..b)
    BY FS_Interval
  <2> QED BY <2>2, <2>3 DEF Rows, SquareMatrices, AppliedTerms
<1>2. \A c \in R : f[c] = gate[Backend!Row(s, qs)][c] * v[Backend!WithColumn(s, qs, c)]
                   /\ v[Backend!WithColumn(s, qs, c)] \in Int
  <2>1. \A c \in R : v[Backend!WithColumn(s, qs, c)] \in Int
    BY ColumnBits DEF Vectors, Amplitude
  <2> QED BY <1>1, <2>1 DEF AppliedTerms
<1>3. f[col] = v[t] /\ v[t] \in Amplitude
  <2>1. t \in States
    BY ColumnBits
  <2>2. v[t] \in Amplitude
    BY <2>1 DEF Vectors
  <2>3. f[col] = 1 * v[t]
    BY <1>2
  <2> HIDE DEF f, t
  <2> QED BY <2>2, <2>3 DEF Amplitude
<1>4. \A c \in R : c # col => f[c] = 0
  <2> SUFFICES ASSUME NEW c \in R, c # col PROVE f[c] = 0
    OBVIOUS
  <2> DEFINE w == v[Backend!WithColumn(s, qs, c)]
  <2>1. f[c] = 0 * w /\ w \in Int
    BY <1>2
  <2> HIDE DEF f, w
  <2> QED BY <2>1
<1>5. Backend!Applied(gate, qs, v)[s] = Total(f)
  BY AppliedTotal
<1> HIDE DEF f, R, t
<1>6. f[col] \in Int
  BY <1>3 DEF Amplitude
<1>7. SumFunctionOnSet(f, R) = f[col]
  BY <1>1, <1>4, <1>6, OneTerm DEF R
<1>8. Total(f) = (f[col] % 17)
  BY <1>1, <1>7 DEF Total, SumFunction
<1>9. (v[t] % 17) = v[t]
  BY <1>3 DEF Amplitude
<1> QED BY <1>3, <1>5, <1>8, <1>9 DEF t

\* A state after a controlled not.
Flipped(s, c, t) == Put(s, t, IF Bit(s, c) = 1 THEN 1 - Bit(s, t) ELSE Bit(s, t))

LEMMA PutSame ==
  ASSUME NEW s \in States, NEW q \in Qubits
  PROVE  Put(s, q, Bit(s, q)) = s
<1>1. Bit(s, q) \in Int /\ Mask(q) \in Int /\ s \in Int
  <2>1. Bit(s, q) \in {0, 1} /\ Mask(q) \in Nat /\ s \in Nat
    BY BitType, Masks, StatesAreNumbers
  <2> QED BY <2>1
<1>2. Put(s, q, Bit(s, q)) = s + (Bit(s, q) - Bit(s, q)) * Mask(q)
  BY DEF Put
<1> HIDE DEF Bit, Mask
<1> QED BY <1>1, <1>2

LEMMA ControlledNotFlips ==
  ASSUME NEW qs \in QubitLists(2), NEW v \in Vectors, NEW s \in States
  PROVE  Backend!Applied(ControlledNot, qs, v)[s] = v[Flipped(s, qs[1], qs[2])]
<1> DEFINE x == Bit(s, qs[1])  y == Bit(s, qs[2])
           z == IF x = 1 THEN 1 - y ELSE y
           col == 2 * x + z
<1>1. x \in {0, 1} /\ y \in {0, 1} /\ 2 \in 0..NumQubits /\ Rows(2^2) = 0..3
  BY TwoQubits, BitType DEF Rows
<1>2. ControlledNot \in SquareMatrices(2)
  <2>1. NumQubits >= 2
    BY <1>1, PowersAssumption
  <2> QED BY <2>1, GateTypes
<1>3. Backend!Row(s, qs) = 2 * x + y
  BY TwoQubitRow
<1> HIDE DEF x, y
<1>4. z \in {0, 1} /\ col \in 0..3
  BY <1>1
<1>5. ASSUME NEW c \in 0..3 PROVE ControlledNot[2 * x + y][c] = IF c = col THEN 1 ELSE 0
  <2>1. \A row \in 0..3 : ControlledNot[row][c] =
          << <<1, 0, 0, 0>>, <<0, 1, 0, 0>>, <<0, 0, 0, 1>>, <<0, 0, 1, 0>> >>[row + 1][c + 1]
    BY DEF ControlledNot, Matrix, Rows
  <2>2. c = 0 \/ c = 1 \/ c = 2 \/ c = 3
    OBVIOUS
  <2>3. CASE x = 0 /\ y = 0
    <3>1. 2 * x + y = 0 /\ col = 0
      BY <2>3
    <3> HIDE DEF col
    <3> QED BY <2>1, <2>2, <3>1
  <2>4. CASE x = 0 /\ y = 1
    <3>1. 2 * x + y = 1 /\ col = 1
      BY <2>4
    <3> HIDE DEF col
    <3> QED BY <2>1, <2>2, <3>1
  <2>5. CASE x = 1 /\ y = 0
    <3>1. 2 * x + y = 2 /\ col = 3
      BY <2>5
    <3> HIDE DEF col
    <3> QED BY <2>1, <2>2, <3>1
  <2>6. CASE x = 1 /\ y = 1
    <3>1. 2 * x + y = 3 /\ col = 2
      BY <2>6
    <3> HIDE DEF col
    <3> QED BY <2>1, <2>2, <3>1
  <2> QED BY <1>1, <2>3, <2>4, <2>5, <2>6
<1>6. Backend!Applied(ControlledNot, qs, v)[s] = v[Backend!WithColumn(s, qs, col)]
  <2> HIDE DEF col
  <2>1. \A c \in Rows(2^2) : ControlledNot[Backend!Row(s, qs)][c] = IF c = col THEN 1 ELSE 0
    BY <1>1, <1>3, <1>5
  <2>2. col \in Rows(2^2)
    BY <1>1, <1>4
  <2> QED BY <1>1, <1>2, <2>1, <2>2, SingleEntry
<1>7. Backend!WithColumn(s, qs, col) = Put(Put(s, qs[1], x), qs[2], z)
  <2> HIDE DEF z
  <2> QED BY <1>1, <1>4, TwoQubitColumn
<1>8. Put(s, qs[1], x) = s
  BY TwoQubits, PutSame DEF x
<1> QED BY <1>6, <1>7, <1>8 DEF Flipped, x, y

LEMMA ExchangeSwaps ==
  ASSUME NEW qs \in QubitLists(2), NEW v \in Vectors, NEW s \in States
  PROVE  Backend!Applied(Backend!Exchange, qs, v)[s]
           = v[Put(Put(s, qs[1], Bit(s, qs[2])), qs[2], Bit(s, qs[1]))]
<1> DEFINE x == Bit(s, qs[1])  y == Bit(s, qs[2])
           col == 2 * y + x
<1>1. x \in {0, 1} /\ y \in {0, 1} /\ 2 \in 0..NumQubits /\ Rows(2^2) = 0..3
  BY TwoQubits, BitType DEF Rows
<1>2. Backend!Exchange \in SquareMatrices(2)
  <2>1. NumQubits >= 2
    BY <1>1, PowersAssumption
  <2> QED BY <2>1, GateTypes
<1>3. Backend!Row(s, qs) = 2 * x + y
  BY TwoQubitRow
<1> HIDE DEF x, y
<1>4. col \in 0..3
  BY <1>1
<1>5. ASSUME NEW c \in 0..3 PROVE Backend!Exchange[2 * x + y][c] = IF c = col THEN 1 ELSE 0
  <2>1. \A row \in 0..3 : Backend!Exchange[row][c] =
          << <<1, 0, 0, 0>>, <<0, 0, 1, 0>>, <<0, 1, 0, 0>>, <<0, 0, 0, 1>> >>[row + 1][c + 1]
    BY DEF Backend!Exchange, Backend!Matrix, Backend!Rows
  <2>2. c = 0 \/ c = 1 \/ c = 2 \/ c = 3
    OBVIOUS
  <2>3. CASE x = 0 /\ y = 0
    <3>1. 2 * x + y = 0 /\ col = 0
      BY <2>3
    <3> HIDE DEF col
    <3> QED BY <2>1, <2>2, <3>1
  <2>4. CASE x = 0 /\ y = 1
    <3>1. 2 * x + y = 1 /\ col = 2
      BY <2>4
    <3> HIDE DEF col
    <3> QED BY <2>1, <2>2, <3>1
  <2>5. CASE x = 1 /\ y = 0
    <3>1. 2 * x + y = 2 /\ col = 1
      BY <2>5
    <3> HIDE DEF col
    <3> QED BY <2>1, <2>2, <3>1
  <2>6. CASE x = 1 /\ y = 1
    <3>1. 2 * x + y = 3 /\ col = 3
      BY <2>6
    <3> HIDE DEF col
    <3> QED BY <2>1, <2>2, <3>1
  <2> QED BY <1>1, <2>3, <2>4, <2>5, <2>6
<1>6. Backend!Applied(Backend!Exchange, qs, v)[s] = v[Backend!WithColumn(s, qs, col)]
  <2> HIDE DEF col
  <2>1. \A c \in Rows(2^2) : Backend!Exchange[Backend!Row(s, qs)][c] = IF c = col THEN 1 ELSE 0
    BY <1>1, <1>3, <1>5
  <2>2. col \in Rows(2^2)
    BY <1>1, <1>4
  <2> QED BY <1>1, <1>2, <2>1, <2>2, SingleEntry
<1>7. Backend!WithColumn(s, qs, col) = Put(Put(s, qs[1], y), qs[2], x)
  BY <1>1, TwoQubitColumn
<1> QED BY <1>6, <1>7 DEF x, y

LEMMA ThreeFlips ==
  ASSUME NEW a \in Qubits, NEW b \in Qubits, a # b, NEW s \in States
  PROVE  /\ Flipped(s, a, b) \in States
         /\ Flipped(Flipped(Flipped(s, a, b), b, a), a, b)
              = Put(Put(s, a, Bit(s, b)), b, Bit(s, a))
<1> DEFINE x == Bit(s, a)  y == Bit(s, b)
           z == IF x = 1 THEN 1 - y ELSE y
           s1 == Put(s, b, z)  s2 == Put(s1, a, y)  s3 == Put(s2, b, x)
           r1 == Put(s, a, y)  r2 == Put(r1, b, x)
           m == Mask(a)  w == Mask(b)
<1>1. x \in {0, 1} /\ y \in {0, 1} /\ z \in {0, 1}
  BY BitType
<1>2. m \in Nat /\ w \in Nat /\ s \in Nat
  BY Masks, StatesAreNumbers
<1>3. s1 = Flipped(s, a, b)
  BY DEF Flipped
<1> HIDE DEF x, y, z
<1>4. s1 \in States /\ Bit(s1, a) = x /\ Bit(s1, b) = z
  BY <1>1, PutBit DEF x
<1>5. s2 = Flipped(s1, b, a)
  <2> HIDE DEF s1
  <2>1. y = IF z = 1 THEN 1 - x ELSE x
    BY <1>1 DEF z
  <2> QED BY <1>4, <2>1 DEF Flipped
<1>6. s2 \in States /\ Bit(s2, a) = y /\ Bit(s2, b) = z
  <2> HIDE DEF s1
  <2> QED BY <1>1, <1>4, PutBit
<1>7. s3 = Flipped(s2, a, b)
  <2> HIDE DEF s2
  <2>1. x = IF y = 1 THEN 1 - z ELSE z
    BY <1>1 DEF z
  <2> QED BY <1>6, <2>1 DEF Flipped
<1>8. s1 = s + (z - y) * w
  BY DEF Put, y
<1>9. s2 = s1 + (y - x) * m
  <2> HIDE DEF s1
  <2> QED BY <1>4 DEF Put
<1>10. s3 = s2 + (x - z) * w
  <2> HIDE DEF s2
  <2> QED BY <1>6 DEF Put
<1>11. r1 = s + (y - x) * m /\ Bit(r1, b) = y
  BY <1>1, PutBit DEF Put, x, y
<1>12. r2 = r1 + (x - y) * w
  <2> HIDE DEF r1
  <2> QED BY <1>11 DEF Put
<1>13. s3 = r2
  <2> HIDE DEF s1, s2, s3, r1, r2, m, w
  <2>1. s3 = s + (z - y) * w + (y - x) * m + (x - z) * w
    BY <1>8, <1>9, <1>10
  <2>2. r2 = s + (y - x) * m + (x - y) * w
    BY <1>11, <1>12
  <2>3. (z - y) * w + (x - z) * w = (x - y) * w
    BY <1>1, <1>2
  <2>4. (z - y) * w \in Int /\ (x - z) * w \in Int /\ (y - x) * m \in Int /\ (x - y) * w \in Int
    BY <1>1, <1>2
  <2> QED BY <1>2, <2>1, <2>2, <2>3, <2>4
<1> HIDE DEF s1, s2, s3
<1> QED BY <1>3, <1>4, <1>5, <1>7, <1>13 DEF x, y

LEMMA SwapIsThreeNots ==
  ASSUME NEW qs \in QubitLists(2), NEW v \in Vectors, NEW back \in QubitLists(2),
         back[1] = qs[2], back[2] = qs[1]
  PROVE  Backend!Applied(ControlledNot, qs,
           Backend!Applied(ControlledNot, back, Backend!Applied(ControlledNot, qs, v)))
             = Backend!Applied(Backend!Exchange, qs, v)
<1> DEFINE a == qs[1]  b == qs[2]
           one == Backend!Applied(ControlledNot, qs, v)
           two == Backend!Applied(ControlledNot, back, one)
           three == Backend!Applied(ControlledNot, qs, two)
           swapped == Backend!Applied(Backend!Exchange, qs, v)
<1>1. a \in Qubits /\ b \in Qubits /\ a # b /\ 2 \in 0..NumQubits
  BY TwoQubits
<1>2. ControlledNot \in SquareMatrices(2) /\ Backend!Exchange \in SquareMatrices(2)
  <2>1. NumQubits >= 2
    BY <1>1, PowersAssumption
  <2> QED BY <2>1, GateTypes
<1>3. one \in Vectors
  BY <1>1, <1>2, AppliedType
<1>4. two \in Vectors
  <2> HIDE DEF one
  <2> QED BY <1>1, <1>2, <1>3, AppliedType
<1>5. three \in Vectors
  <2> HIDE DEF two
  <2> QED BY <1>1, <1>2, <1>4, AppliedType
<1>6. swapped \in Vectors
  BY <1>1, <1>2, AppliedType
<1>7. \A s \in States : one[s] = v[Flipped(s, a, b)]
  BY ControlledNotFlips
<1>8. \A s \in States : two[s] = one[Flipped(s, b, a)]
  <2> HIDE DEF one
  <2> QED BY <1>3, ControlledNotFlips
<1>9. \A s \in States : three[s] = two[Flipped(s, a, b)]
  <2> HIDE DEF two
  <2> QED BY <1>4, ControlledNotFlips
<1>10. \A s \in States : swapped[s] = v[Put(Put(s, a, Bit(s, b)), b, Bit(s, a))]
  BY ExchangeSwaps
<1> HIDE DEF one, two, three, swapped, a, b
<1>11. ASSUME NEW s \in States PROVE three[s] = swapped[s]
  <2>1. Flipped(s, a, b) \in States
    BY <1>1, ThreeFlips
  <2>2. Flipped(Flipped(s, a, b), b, a) \in States
    BY <1>1, <2>1, ThreeFlips
  <2>3. three[s] = v[Flipped(Flipped(Flipped(s, a, b), b, a), a, b)]
    BY <1>7, <1>8, <1>9, <2>1, <2>2
  <2> QED BY <1>1, <1>10, <2>3, ThreeFlips
<1>12. three = swapped
  BY <1>5, <1>6, <1>11 DEF Vectors
<1> QED BY <1>12 DEF three, two, one, swapped

-------------------------------------------------------------------------------
(* Vectors stay vectors.                                                   *)

LEMMA ResultType ==
  ASSUME NEW o, WellFormed(o), NEW v \in Vectors
  PROVE  Backend!Result(o, v) \in Vectors
<1>0. NumQubits \in Nat /\ \A s \in States : v[s] \in Amplitude
  BY PowersAssumption DEF Vectors
<1>1. CASE o \in [name : {"H", "X"}, qubits : QubitLists(1)]
  <2>1. o.name \in {"H", "X"} /\ o.qubits \in QubitLists(1)
    BY <1>1
  <2>2. NumQubits >= 1
    <3>1. 1 \in 1..1 /\ 1 \in Nat
      OBVIOUS
    <3>2. o.qubits[1] \in Qubits
      BY <2>1, <3>1, QubitListType
    <3> QED BY <1>0, <3>2 DEF Qubits
  <2>3. 1 \in 0..NumQubits /\ Hadamard \in SquareMatrices(1) /\ PauliX \in SquareMatrices(1)
    BY <1>0, <2>2, GateTypes
  <2>4. /\ Backend!Applied(Hadamard, o.qubits, v) \in Vectors
        /\ Backend!Applied(PauliX, o.qubits, v) \in Vectors
    BY <2>1, <2>3, AppliedType
  <2> QED BY <2>1, <2>4, GateResults
<1>2. ASSUME NEW gate \in SquareMatrices(2), NEW qs \in QubitLists(2)
      PROVE  Backend!Applied(gate, qs, v) \in Vectors
  BY TwoQubits, AppliedType
<1>3. ASSUME NEW qs \in QubitLists(2)
      PROVE  /\ ControlledNot \in SquareMatrices(2) /\ Backend!Exchange \in SquareMatrices(2)
             /\ \A phase \in Amplitude : ControlledPhaseShift(phase) \in SquareMatrices(2)
  <2>1. NumQubits >= 2
    BY TwoQubits, PowersAssumption
  <2> QED BY <2>1, GateTypes
<1>4. CASE o \in [name : {"CNOT", "Swap"}, qubits : QubitLists(2)]
  <2>1. o.name \in {"CNOT", "Swap"} /\ o.qubits \in QubitLists(2)
    BY <1>4
  <2> QED BY <1>2, <1>3, <2>1, GateResults
<1>5. CASE o \in [name : {"CP"}, qubits : QubitLists(2), phase : Amplitude]
  <2>1. o.name = "CP" /\ o.qubits \in QubitLists(2) /\ o.phase \in Amplitude
    BY <1>5
  <2> QED BY <1>2, <1>3, <2>1, GateResults
<1>6. ASSUME NEW k \in 0..NumQubits,
             o \in [name : {"Gate"}, qubits : QubitLists(k),
                    matrix : [Rows(2^k) -> [Rows(2^k) -> Amplitude]]]
      PROVE  Backend!Result(o, v) \in Vectors
  <2>1. o.name = "Gate" /\ o.qubits \in QubitLists(k) /\ o.matrix \in SquareMatrices(k)
    BY <1>6 DEF SquareMatrices
  <2>2. Backend!Applied(o.matrix, o.qubits, v) \in Vectors
    BY <2>1, AppliedType
  <2> QED BY <2>1, <2>2, GateResults
<1>7. CASE o \in [name : {"PhaseFlip"}, state : States]
  <2>1. Minus(0, v[o.state]) \in Amplitude
    BY <1>0, <1>7, Field
  <2> QED BY <1>7, <2>1, VectorResults DEF Vectors
<1>8. CASE o \in [name : {"SetAmplitude"}, state : States, value : Amplitude]
  BY <1>8, VectorResults DEF Vectors
<1>9. CASE o \in [name : {"Inversion"}, materialized : BOOLEAN]
  <2> DEFINE m == Times(Total(v), InversePower2(NumQubits))
  <2>1. m \in Amplitude
    <3>1. Total(v) \in Amplitude
      <4>1. DOMAIN v = States /\ \A s \in States : v[s] \in Int
        BY <1>0, Field DEF Vectors
      <4> QED BY <4>1, StatesAreNumbers, TotalType
    <3> QED BY <3>1, Field, PowersAssumption
  <2> HIDE DEF m
  <2>2. ASSUME NEW s \in States PROVE Minus(2 * m, v[s]) \in Amplitude
    <3>1. 2 * m \in Int /\ v[s] \in Int
      BY <1>0, <2>1 DEF Amplitude
    <3> QED BY <3>1, Field
  <2>3. Backend!Result(o, v) = [s \in States |-> Minus(2 * m, v[s])]
    BY <1>9, VectorResults DEF m
  <2> QED BY <2>2, <2>3 DEF Vectors
<1>10. CASE o \in [name : {"InversionMean"}, mean : Amplitude, materialized : BOOLEAN]
  <2>1. o.mean \in Amplitude /\ o.name = "InversionMean"
    BY <1>10
  <2>2. ASSUME NEW s \in States PROVE Minus(2 * o.mean, v[s]) \in Amplitude
    <3>1. 2 * o.mean \in Int /\ v[s] \in Int
      BY <1>0, <2>1 DEF Amplitude
    <3> QED BY <3>1, Field
  <2> QED BY <2>1, <2>2, VectorResults DEF Vectors
<1>11. CASE o \in [name : {"Load"}, vector : [States -> Amplitude]]
  BY <1>11, VectorResults DEF Vectors
<1> QED BY <1>1, <1>4, <1>5, <1>6, <1>7, <1>8, <1>9, <1>10, <1>11 DEF WellFormed

LEMMA AffineType ==
  ASSUME NEW scale \in Amplitude, NEW bias \in Amplitude, NEW v \in Vectors
  PROVE  Backend!Result([name |-> "Affine", scale |-> scale, bias |-> bias], v) \in Vectors
<1>1. ASSUME NEW s \in States PROVE Plus(Times(scale, v[s]), bias) \in Amplitude
  <2>1. Times(scale, v[s]) \in Amplitude
    BY Field DEF Vectors
  <2> QED BY <2>1, Field
<1>2. Backend!Result([name |-> "Affine", scale |-> scale, bias |-> bias], v)
        = [s \in States |-> Plus(Times(scale, v[s]), bias)]
  BY VectorResults
<1> QED BY <1>1, <1>2 DEF Vectors

(* A mean is given without the form its request has.                       *)
LEMMA InversionType ==
  ASSUME NEW mean \in Amplitude, NEW v \in Vectors
  PROVE  Backend!Result([name |-> "InversionMean", mean |-> mean], v) \in Vectors
<1>1. ASSUME NEW s \in States PROVE Minus(2 * mean, v[s]) \in Amplitude
  <2>1. 2 * mean \in Int /\ v[s] \in Int
    BY DEF Vectors, Amplitude
  <2> QED BY <2>1, Field
<1>2. Backend!Result([name |-> "InversionMean", mean |-> mean], v)
        = [s \in States |-> Minus(2 * mean, v[s])]
  BY VectorResults
<1> QED BY <1>1, <1>2 DEF Vectors

LEMMA TornType ==
  ASSUME NEW o, NEW v \in Vectors, Backend!Result(o, v) \in Vectors
  PROVE  Torn(o, v) \subseteq Vectors
BY DEF Torn, Vectors

-------------------------------------------------------------------------------
(* The overlay.                                                            *)

LEMMA Scales == Minus(0, 1) = 16 /\ Minus(0, 16) = 1
<1>1. ASSUME NEW a \in 1..16 PROVE Minus(0, a) = 17 - a
  BY DEF Minus
<1> QED BY <1>1

(* The register's readers see what its back end will hold once the overlay *)
(* is stored.                                                              *)
LEMMA Overlay ==
  ASSUME TypeOK
  PROVE  /\ Logical \in Vectors /\ Materialized = Logical
         /\ Total(Logical) \in Amplitude /\ LogicalAmplitudeSum \in Amplitude
         /\ affineScale \in Amplitude /\ affineBias \in Amplitude
<1>1. /\ stored \in Vectors /\ affineScale \in {1, 16} /\ affineScale \in Amplitude
      /\ affineBias \in Amplitude /\ affineOverlayActive \in BOOLEAN
  BY Scales DEF TypeOK, Vectors, Amplitude
<1>2. Logical \in Vectors
  <2>1. ASSUME NEW s \in States PROVE ApplyAffineOverlay(stored[s]) \in Amplitude
    <3>1. stored[s] \in Amplitude
      BY <1>1 DEF Vectors
    <3>2. Plus(Times(affineScale, stored[s]), affineBias) \in Amplitude
      BY <1>1, <3>1, Field
    <3> QED BY <3>1, <3>2 DEF ApplyAffineOverlay
  <2> QED BY <2>1 DEF Logical, Vectors
<1>3. Materialized = Logical
  <2>1. CASE affineOverlayActive
    <3>1. Backend!Result(AffineTransform, stored)
            = [s \in States |-> Plus(Times(affineScale, stored[s]), affineBias)]
      BY VectorResults DEF AffineTransform
    <3> QED BY <2>1, <3>1 DEF Materialized, Logical, ApplyAffineOverlay
  <2>2. CASE ~affineOverlayActive
    BY <1>1, <2>2 DEF Materialized, Logical, ApplyAffineOverlay, Vectors
  <2> QED BY <2>1, <2>2
<1>4. Total(Logical) \in Amplitude
  <2>1. DOMAIN Logical = States /\ \A s \in States : Logical[s] \in Int
    BY <1>2, Field DEF Vectors
  <2> QED BY <2>1, StatesAreNumbers, TotalType
<1>5. LogicalAmplitudeSum \in Amplitude
  BY <1>4 DEF LogicalAmplitudeSum, TypeOK
<1> QED BY <1>1, <1>2, <1>3, <1>4, <1>5

(* What is stored for a logical amplitude reads back as it.                *)
LEMMA RemovedOverlay ==
  ASSUME TypeOK, NEW a \in Amplitude
  PROVE  /\ RemoveAffineOverlay(a) \in Amplitude
         /\ ApplyAffineOverlay(RemoveAffineOverlay(a)) = a
<1> DEFINE b == Minus(a, affineBias)  c == Quotient(b, affineScale)
<1>1. /\ affineScale \in {1, 16} /\ affineBias \in 0..16 /\ a \in 0..16
      /\ affineOverlayActive \in BOOLEAN
  BY Scales DEF TypeOK, Amplitude
<1>2. b \in 0..16 /\ Plus(b, affineBias) = a
  BY <1>1 DEF Minus, Plus
<1>3. \E d \in Amplitude : Times(affineScale, d) = b
  <2> HIDE DEF b
  <2>1. CASE affineScale = 1
    <3>1. Times(1, b) = b
      BY <1>2 DEF Times
    <3> QED BY <1>2, <2>1, <3>1 DEF Amplitude
  <2>2. CASE affineScale = 16
    <3> DEFINE d == (17 - b) % 17
    <3>1. d \in 0..16 /\ ((16 * d) % 17) = b
      BY <1>2
    <3> HIDE DEF d
    <3>2. Times(16, d) = b
      BY <3>1 DEF Times
    <3> QED BY <2>2, <3>1, <3>2 DEF Amplitude
  <2> QED BY <1>1, <2>1, <2>2
<1>4. c \in Amplitude /\ Times(affineScale, c) = b
  BY <1>3 DEF Quotient
<1>5. CASE affineOverlayActive
  BY <1>2, <1>4, <1>5 DEF RemoveAffineOverlay, ApplyAffineOverlay
<1>6. CASE ~affineOverlayActive
  BY <1>6 DEF RemoveAffineOverlay, ApplyAffineOverlay
<1> QED BY <1>1, <1>5, <1>6

-------------------------------------------------------------------------------
(* What happens to the sum of a vector.                                    *)

LEMMA VectorSum ==
  ASSUME NEW v \in Vectors
  PROVE  /\ \A s \in States : v[s] \in 0..16 /\ v[s] \in Int
         /\ Total(v) = (SumFunctionOnSet(v, States) % 17) /\ SumFunctionOnSet(v, States) \in Int
<1>1. DOMAIN v = States /\ \A s \in States : v[s] \in 0..16 /\ v[s] \in Int
  BY DEF Vectors, Amplitude
<1>2. SumFunctionOnSet(v, States) \in Int
  BY <1>1, StatesAreNumbers, SumType
<1> QED BY <1>1, <1>2 DEF Total, SumFunction

LEMMA SumInverted ==
  ASSUME NEW v \in Vectors, NEW w \in Vectors, NEW mean \in Amplitude,
         \A s \in States : w[s] = Minus(2 * mean, v[s])
  PROVE  Total(w) = Minus(2 * Times(mean, NumStates), Total(v))
<1> DEFINE p == SumFunctionOnSet(v, States)  q == SumFunctionOnSet(w, States)
           n == NumStates  r == mean * n
<1>1. mean \in Int /\ n \in Int /\ IsFiniteSet(States) /\ Cardinality(States) = n
  BY StatesAreNumbers DEF Amplitude
<1>2. ASSUME NEW s \in States
      PROVE  /\ v[s] \in Int /\ w[s] \in Int
             /\ (w[s] % 17) = (((-1) * v[s] + 2 * mean) % 17)
  <2>1. v[s] \in Int /\ w[s] \in 0..16
    BY VectorSum
  <2>2. w[s] = ((2 * mean - v[s]) % 17)
    BY DEF Minus
  <2>3. 2 * mean - v[s] = (-1) * v[s] + 2 * mean
    BY <1>1, <2>1
  <2> QED BY <2>1, <2>2, <2>3
<1>3. (q % 17) = (((-1) * p + (2 * mean) * n) % 17)
  <2>1. 2 * mean \in Int /\ -1 \in Int
    BY <1>1
  <2> DEFINE b == 2 * mean  a == -1
  <2>2. \A s \in States : v[s] \in Int /\ w[s] \in Int /\ (w[s] % 17) = ((a * v[s] + b) % 17)
    BY <1>2
  <2> HIDE DEF a, b, p, q
  <2>3. (SumFunctionOnSet(w, States) % 17)
          = ((a * SumFunctionOnSet(v, States) + b * Cardinality(States)) % 17)
    <3>1. a \in Int /\ b \in Int
      BY <2>1 DEF a, b
    <3>2. IsFiniteSet(States)
      BY <1>1
    <3> HIDE DEF n
    <3> QED BY <2>2, <3>1, <3>2, SumLinear
  <2> QED BY <1>1, <2>3 DEF a, b, p, q
<1>4. Total(v) = (p % 17) /\ Total(w) = (q % 17) /\ p \in Int /\ q \in Int
  BY VectorSum
<1> HIDE DEF p, q, n
<1>5. r \in Int /\ (2 * mean) * n = 2 * r
  BY <1>1
<1> HIDE DEF r
<1>6. (q % 17) = ((2 * r - p) % 17)
  <2>1. (-1) * p + (2 * mean) * n = 2 * r - p
    BY <1>4, <1>5
  <2> QED BY <1>3, <2>1
<1>7. ((2 * r - p) % 17) = ((2 * (r % 17) - (p % 17)) % 17)
  BY <1>4, <1>5
<1>8. Minus(2 * Times(mean, NumStates), Total(v)) = ((2 * (r % 17) - (p % 17)) % 17)
  BY <1>4 DEF Minus, Times, r, n
<1> QED BY <1>4, <1>6, <1>7, <1>8

LEMMA SumNegated ==
  ASSUME NEW v \in Vectors, NEW t \in States,
         NEW w \in Vectors, \A s \in States : s # t => w[s] = v[s], w[t] = Minus(0, v[t])
  PROVE  Total(w) = Minus(Total(v), 2 * v[t])
<1> DEFINE p == SumFunctionOnSet(v, States)  q == SumFunctionOnSet(w, States)
           a == v[t]  b == w[t]
<1>1. a \in 0..16 /\ b \in Int /\ b = ((0 - a) % 17)
  BY VectorSum DEF Minus
<1>2. Total(v) = (p % 17) /\ Total(w) = (q % 17) /\ p \in Int /\ q \in Int
  BY VectorSum
<1>3. q = p + (b - a)
  <2>1. \A s \in States : v[s] \in Int /\ w[s] \in Int /\ (s # t => w[s] = v[s])
    BY VectorSum
  <2>2. IsFiniteSet(States)
    BY StatesAreNumbers
  <2>3. SumFunctionOnSet(w, States) = SumFunctionOnSet(v, States) + (w[t] - v[t])
    BY <2>1, <2>2, SumUpdate
  <2> QED BY <2>3
<1> HIDE DEF p, q, a, b
<1>4. (q % 17) = (((p % 17) - 2 * a) % 17)
  BY <1>1, <1>2, <1>3
<1> QED BY <1>2, <1>4 DEF Minus, a

-------------------------------------------------------------------------------
(* What a step does to the logical vector.                                 *)

LEMMA LogicalStored ==
  ASSUME TypeOK', ~affineOverlayActive'
  PROVE  Logical' = stored'
<1>1. stored' \in Vectors
  BY DEF TypeOK, Vectors, States
<1> QED BY <1>1 DEF Logical, ApplyAffineOverlay, Vectors

LEMMA Inverted ==
  ASSUME TypeOK, NEW sum, NEW mean \in Amplitude, Invert(sum, mean)
  PROVE  Logical' = [s \in States |-> Minus(2 * mean, Logical[s])]
<1> DEFINE scale == IF affineOverlayActive THEN affineScale ELSE 1
           bias == IF affineOverlayActive THEN affineBias ELSE 0
<1>1. /\ scale \in {1, 16} /\ bias \in 0..16 /\ mean \in 0..16
      /\ affineOverlayActive \in BOOLEAN /\ stored \in Vectors
  BY Scales DEF TypeOK, Amplitude, Vectors
<1>2. /\ affineScale' = Minus(0, scale) /\ affineBias' = Minus(2 * mean, bias)
      /\ affineOverlayActive' /\ stored' = stored
  BY DEF Invert
<1>3. ASSUME NEW s \in States
      PROVE  ApplyAffineOverlay(stored[s])' = Minus(2 * mean, Logical[s])
  <2> DEFINE a == stored[s]
  <2>1. a \in 0..16
    BY <1>1 DEF Vectors, Amplitude
  <2>2. Logical[s] = Plus(Times(scale, a), bias)
    <3>1. CASE affineOverlayActive
      BY <3>1 DEF Logical, ApplyAffineOverlay
    <3>2. CASE ~affineOverlayActive
      <4>1. Plus(Times(1, a), 0) = a
        <5> HIDE DEF a
        <5> QED BY <2>1 DEF Plus, Times
      <4> QED BY <3>2, <4>1 DEF Logical, ApplyAffineOverlay
    <3> QED BY <1>1, <3>1, <3>2
  <2>3. ApplyAffineOverlay(stored[s])' = Plus(Times(Minus(0, scale), a), Minus(2 * mean, bias))
    BY <1>2 DEF ApplyAffineOverlay, Plus, Minus, Times
  <2> HIDE DEF scale, bias, a
  <2>4. Plus(Times(Minus(0, scale), a), Minus(2 * mean, bias))
          = Minus(2 * mean, Plus(Times(scale, a), bias))
    <3>1. CASE scale = 1
      <4>1. Minus(0, scale) = 16
        BY <3>1, Scales
      <4> QED BY <1>1, <2>1, <3>1, <4>1 DEF Plus, Times, Minus
    <3>2. CASE scale = 16
      <4>1. Minus(0, scale) = 1
        BY <3>2, Scales
      <4> QED BY <1>1, <2>1, <3>2, <4>1 DEF Plus, Times, Minus
    <3> QED BY <1>1, <3>1, <3>2
  <2> QED BY <2>2, <2>3, <2>4
<1> QED BY <1>3 DEF Logical, States

-------------------------------------------------------------------------------
(* The steps, one after the other.                                         *)

LEMMA Requested ==
  ASSUME TypeOK, NEW names, Over(names), "None" \notin names
  PROVE  /\ request \in Operations /\ WellFormed(request) /\ request # NoRequest
         /\ request' = NoRequest /\ left' \in 0..MaxOperations
BY OperationsAssumption DEF TypeOK, Over, NoRequest

LEMMA RequestFields ==
  ASSUME NEW o, WellFormed(o)
  PROVE  /\ o.name \in {"CNOT", "Swap"} => o.qubits \in QubitLists(2)
         /\ o.name = "PhaseFlip" => o.state \in States
         /\ o.name = "SetAmplitude" =>
              o \in [name : {"SetAmplitude"}, state : States, value : Amplitude]
         /\ o.name = "Inversion" => o.materialized \in BOOLEAN
         /\ o.name = "InversionMean" => o.materialized \in BOOLEAN /\ o.mean \in Amplitude
         /\ o.name = "Load" => o.vector \in Vectors
BY DEF WellFormed, Vectors

LEMMA SumAfterType ==
  ASSUME TypeOK, NEW sum \in Amplitude \cup {NoSum}, NEW throws \in BOOLEAN, SumAfter(sum, throws)
  PROVE  /\ cachedSum' \in Amplitude \cup {NoSum} /\ outcome' \in {"returned", "threw"}
         /\ thrown' \in BOOLEAN
BY DEF SumAfter, TypeOK

\* A step that ends an operation leaves the register well typed, the sum right
\* unless a call threw, and if none did, the vector it promised.
Done ==
  /\ TypeOK'
  /\ ~thrown' => CachedSumIsSum'
  /\ ~thrown /\ outcome' = "returned" => Logical' = Backend!Result(request, Logical)

LEMMA TypeAfter ==
  ASSUME TypeOK, NEW names, Over(names), "None" \notin names,
         NEW sum \in Amplitude \cup {NoSum}, NEW throws \in BOOLEAN, SumAfter(sum, throws),
         stored' \in Vectors,
         \/ ResetAffineOverlay
         \/ UNCHANGED overlayVars
         \/ /\ affineScale' \in {1, Minus(0, 1)} /\ affineBias' \in Amplitude
            /\ affineOverlayActive' \in BOOLEAN
  PROVE  TypeOK'
<1>1. /\ affineScale' \in {1, Minus(0, 1)} /\ affineBias' \in Amplitude
      /\ affineOverlayActive' \in BOOLEAN
  BY Field DEF ResetAffineOverlay, overlayVars, TypeOK
<1>2. request' = NoRequest /\ left' \in 0..MaxOperations
  BY Requested
<1>3. /\ cachedSum' \in Amplitude \cup {NoSum} /\ outcome' \in {"returned", "threw"}
      /\ thrown' \in BOOLEAN
  BY SumAfterType
<1>4. stored' \in [States -> Amplitude]
  BY DEF Vectors
<1> QED BY <1>1, <1>2, <1>3, <1>4 DEF TypeOK, States

(* A call that threw leaves nothing to show: the sum is not trusted.       *)
LEMMA DoneThrowing ==
  ASSUME NEW sum, SumAfter(sum, TRUE), TypeOK'
  PROVE  Done
BY DEF SumAfter, Done, CachedSumIsSum

(* A call that forgets the sum.                                            *)
LEMMA DoneForgetting ==
  ASSUME SumAfter(NoSum, FALSE), TypeOK', Logical' = Backend!Result(request, Logical)
  PROVE  Done
BY DEF SumAfter, Done, CachedSumIsSum

LEMMA FlushThrowing ==
  ASSUME TypeOK, NEW names, Over(names), "None" \notin names,
         NEW sum \in Amplitude \cup {NoSum}, FlushThrows, SumAfter(sum, TRUE)
  PROVE  Done
<1>1. stored' \in Vectors
  <2>1. stored \in Vectors /\ affineScale \in Amplitude /\ affineBias \in Amplitude
    BY Overlay DEF TypeOK, Vectors
  <2>2. Backend!Result(AffineTransform, stored) \in Vectors
    BY <2>1, AffineType DEF AffineTransform
  <2> QED BY <2>1, <2>2, TornType DEF FlushThrows, Throws
<1>2. TypeOK'
  BY <1>1, TypeAfter DEF FlushThrows
<1> QED BY <1>2, DoneThrowing

LEMMA Throwing ==
  ASSUME TypeOK, NEW names, Over(names), "None" \notin names,
         NEW sum \in Amplitude \cup {NoSum}, SumAfter(sum, TRUE),
         NEW o, NEW v \in Vectors, Backend!Result(o, v) \in Vectors, Throws(o, v),
         ResetAffineOverlay \/ UNCHANGED overlayVars
  PROVE  Done
<1>1. stored' \in Vectors
  BY TornType DEF Throws
<1>2. TypeOK'
  BY <1>1, TypeAfter
<1> QED BY <1>2, DoneThrowing

LEMMA GateStep ==
  ASSUME TypeOK, ApplyGate
  PROVE  Done
<1> DEFINE names == {"H", "X", "CP", "CNOT", "Gate"}
           result == Backend!Result(request, Materialized)
<1>1. Over(names) /\ "None" \notin names
  BY DEF ApplyGate
<1> HIDE DEF names
<1>2. WellFormed(request)
  BY <1>1, Requested
<1>3. Materialized \in Vectors /\ Materialized = Logical
  BY Overlay
<1>4. result \in Vectors
  BY <1>2, <1>3, ResultType
<1>5. NoSum \in Amplitude \cup {NoSum} /\ cachedSum \in Amplitude \cup {NoSum}
  BY DEF TypeOK
<1>6. CASE Returns(request, Materialized) /\ ResetAffineOverlay /\ SumAfter(NoSum, FALSE)
  <2>1. stored' = result
    BY <1>6 DEF Returns
  <2>2. TypeOK'
    BY <1>1, <1>4, <1>5, <1>6, <2>1, TypeAfter
  <2>3. Logical' = result
    BY <1>6, <2>1, <2>2, LogicalStored DEF ResetAffineOverlay
  <2> QED BY <1>3, <1>6, <2>2, <2>3, DoneForgetting
<1>7. CASE FlushThrows /\ SumAfter(cachedSum, TRUE)
  BY <1>1, <1>5, <1>7, FlushThrowing
<1>8. CASE Throws(request, Materialized) /\ ResetAffineOverlay /\ SumAfter(cachedSum, TRUE)
  BY <1>1, <1>3, <1>4, <1>5, <1>8, Throwing
<1> QED BY <1>6, <1>7, <1>8 DEF ApplyGate

LEMMA SwapStep ==
  ASSUME TypeOK, ApplySwap
  PROVE  Done
<1> DEFINE names == {"Swap"}
           qs == request.qubits
           other == <<request.qubits[2], request.qubits[1]>>
           there == [name |-> "CNOT", qubits |-> request.qubits]
           back == [name |-> "CNOT", qubits |-> other]
           one == Backend!Result(there, Materialized)
           two == Backend!Result(back, one)
           three == Backend!Result(there, two)
<1>1. Over(names) /\ "None" \notin names /\ request.name = "Swap"
  BY DEF ApplySwap, Over
<1> HIDE DEF names
<1>2. WellFormed(request) /\ qs \in QubitLists(2)
  BY <1>1, Requested, RequestFields
<1>3. Materialized \in Vectors /\ Materialized = Logical
  BY Overlay
<1>4. other \in QubitLists(2) /\ other[1] = qs[2] /\ other[2] = qs[1]
  <2>1. qs[1] \in Qubits /\ qs[2] \in Qubits /\ qs[1] # qs[2]
    BY <1>2, TwoQubits
  <2>2. other \in [1..2 -> Qubits]
    BY <2>1
  <2>3. \A i, j \in 1..2 : other[i] = other[j] => i = j
    BY <2>1
  <2> QED BY <2>2, <2>3 DEF QubitLists, Injection, IsInjective
<1>5. /\ \A v : Backend!Result(there, v) = Backend!Applied(ControlledNot, qs, v)
      /\ \A v : Backend!Result(back, v) = Backend!Applied(ControlledNot, other, v)
      /\ Backend!Result(request, Logical) = Backend!Applied(Backend!Exchange, qs, Logical)
  BY <1>1, GateResults
<1>6. \A q \in QubitLists(2), v \in Vectors : Backend!Applied(ControlledNot, q, v) \in Vectors
  <2> SUFFICES ASSUME NEW q \in QubitLists(2), NEW v \in Vectors
               PROVE  Backend!Applied(ControlledNot, q, v) \in Vectors
    OBVIOUS
  <2>1. 2 \in 0..NumQubits /\ NumQubits >= 2
    BY TwoQubits, PowersAssumption
  <2> QED BY <2>1, GateTypes, AppliedType
<1> HIDE DEF there, back, other, qs
<1>7. one \in Vectors
  BY <1>2, <1>3, <1>5, <1>6
<1> HIDE DEF one
<1>8. two \in Vectors
  BY <1>4, <1>5, <1>6, <1>7
<1>9. three \in Vectors
  <2> HIDE DEF two
  <2> QED BY <1>2, <1>5, <1>6, <1>8
<1>10. three = Backend!Result(request, Logical)
  <2>1. one = Backend!Applied(ControlledNot, qs, Logical)
    BY <1>3, <1>5 DEF one
  <2>2. three = Backend!Applied(ControlledNot, qs, Backend!Applied(ControlledNot, other, one))
    BY <1>5
  <2> QED BY <1>2, <1>3, <1>4, <1>5, <2>1, <2>2, SwapIsThreeNots
<1>11. NoSum \in Amplitude \cup {NoSum} /\ cachedSum \in Amplitude \cup {NoSum}
  BY DEF TypeOK
<1>12. \/ FlushThrows /\ SumAfter(cachedSum, TRUE)
       \/ Throws(there, Materialized) /\ ResetAffineOverlay /\ SumAfter(cachedSum, TRUE)
       \/ Throws(back, one) /\ ResetAffineOverlay /\ SumAfter(NoSum, TRUE)
       \/ Throws(there, two) /\ ResetAffineOverlay /\ SumAfter(NoSum, TRUE)
       \/ Returns(there, two) /\ ResetAffineOverlay /\ SumAfter(NoSum, FALSE)
  BY DEF ApplySwap, there, back, one, other
<1> HIDE DEF two
<1>13. CASE FlushThrows /\ SumAfter(cachedSum, TRUE)
  BY <1>1, <1>11, <1>13, FlushThrowing
<1>14. CASE Throws(there, Materialized) /\ ResetAffineOverlay /\ SumAfter(cachedSum, TRUE)
  <2>1. Backend!Result(there, Materialized) \in Vectors
    BY <1>7 DEF one
  <2> QED BY <1>1, <1>3, <1>11, <1>14, <2>1, Throwing
<1>15. CASE Throws(back, one) /\ ResetAffineOverlay /\ SumAfter(NoSum, TRUE)
  <2>1. Backend!Result(back, one) \in Vectors
    BY <1>8 DEF two
  <2> QED BY <1>1, <1>7, <1>11, <1>15, <2>1, Throwing
<1>16. CASE Throws(there, two) /\ ResetAffineOverlay /\ SumAfter(NoSum, TRUE)
  BY <1>1, <1>8, <1>9, <1>11, <1>16, Throwing
<1>17. CASE Returns(there, two) /\ ResetAffineOverlay /\ SumAfter(NoSum, FALSE)
  <2>1. stored' = three
    BY <1>17 DEF Returns
  <2> HIDE DEF three
  <2>2. TypeOK'
    BY <1>1, <1>9, <1>11, <1>17, <2>1, TypeAfter
  <2>3. Logical' = three
    BY <1>17, <2>1, <2>2, LogicalStored DEF ResetAffineOverlay
  <2> QED BY <1>10, <1>17, <2>2, <2>3, DoneForgetting
<1> QED BY <1>12, <1>13, <1>14, <1>15, <1>16, <1>17

(* Storing a logical amplitude under the overlay changes that one.         *)
LEMMA StoredOne ==
  ASSUME TypeOK, UNCHANGED overlayVars, NEW t \in States, NEW a \in Amplitude,
         stored' = [stored EXCEPT ![t] = RemoveAffineOverlay(a)]
  PROVE  stored' \in Vectors /\ Logical' = [Logical EXCEPT ![t] = a]
<1> DEFINE b == RemoveAffineOverlay(a)
<1>1. b \in Amplitude /\ ApplyAffineOverlay(b) = a
  BY RemovedOverlay
<1> HIDE DEF b
<1>2. stored \in Vectors /\ stored' = [stored EXCEPT ![t] = b]
  BY DEF TypeOK, Vectors, b
<1>3. stored' \in Vectors
  BY <1>1, <1>2 DEF Vectors
<1>4. /\ affineScale' = affineScale /\ affineBias' = affineBias
      /\ affineOverlayActive' = affineOverlayActive
  BY DEF overlayVars
<1>5. ASSUME NEW s \in States
      PROVE  ApplyAffineOverlay(stored[s])' = IF s = t THEN a ELSE ApplyAffineOverlay(stored[s])
  <2>1. stored'[s] = IF s = t THEN b ELSE stored[s]
    BY <1>2 DEF Vectors
  <2> QED BY <1>1, <1>4, <2>1 DEF ApplyAffineOverlay
<1>6. Logical' = [s \in States |-> IF s = t THEN a ELSE Logical[s]]
  BY <1>5 DEF Logical, States
<1>7. DOMAIN Logical = States
  BY DEF Logical
<1>8. Logical = [s \in States |-> Logical[s]]
  BY <1>7 DEF Logical
<1> QED BY <1>3, <1>6, <1>8

LEMMA SetAmplitudeStep ==
  ASSUME TypeOK, SetAmplitude
  PROVE  Done
<1> DEFINE names == {"SetAmplitude"}
           call == [request EXCEPT !.value = RemoveAffineOverlay(@)]
           result == Backend!Result(call, stored)
<1>1. Over(names) /\ "None" \notin names /\ UNCHANGED overlayVars
  BY DEF SetAmplitude
<1>2. request.name = "SetAmplitude"
  BY <1>1 DEF Over
<1> HIDE DEF names
<1>3. request \in [name : {"SetAmplitude"}, state : States, value : Amplitude]
  BY <1>1, <1>2, Requested, RequestFields
<1> DEFINE t == request.state  a == request.value
<1>4. t \in States /\ a \in Amplitude
  BY <1>3
<1>5. RemoveAffineOverlay(a) \in Amplitude /\ stored \in Vectors
  BY <1>4, RemovedOverlay DEF TypeOK, Vectors
<1>6. /\ call.name = "SetAmplitude" /\ call.state = t /\ call.value = RemoveAffineOverlay(a)
  BY <1>3
<1> HIDE DEF call
<1>7. result = [stored EXCEPT ![t] = RemoveAffineOverlay(a)]
  BY <1>6, VectorResults
<1>8. result \in Vectors
  BY <1>4, <1>5, <1>7 DEF Vectors
<1>9. NoSum \in Amplitude \cup {NoSum} /\ cachedSum \in Amplitude \cup {NoSum}
  BY DEF TypeOK
<1>10. \/ Returns(call, stored) /\ SumAfter(NoSum, FALSE)
       \/ Throws(call, stored) /\ SumAfter(cachedSum, TRUE)
  BY DEF SetAmplitude, call
<1>11. CASE Returns(call, stored) /\ SumAfter(NoSum, FALSE)
  <2>1. stored' = [stored EXCEPT ![t] = RemoveAffineOverlay(a)]
    BY <1>7, <1>11 DEF Returns
  <2> HIDE DEF result
  <2>2. stored' \in Vectors /\ Logical' = [Logical EXCEPT ![t] = a]
    BY <1>1, <1>4, <2>1, StoredOne
  <2>3. TypeOK'
    BY <1>1, <1>9, <1>11, <2>2, TypeAfter
  <2>4. Backend!Result(request, Logical) = [Logical EXCEPT ![t] = a]
    BY <1>2, VectorResults
  <2> QED BY <1>11, <2>2, <2>3, <2>4, DoneForgetting
<1>12. CASE Throws(call, stored) /\ SumAfter(cachedSum, TRUE)
  BY <1>1, <1>5, <1>8, <1>9, <1>12, Throwing
<1> QED BY <1>10, <1>11, <1>12

LEMMA PhaseFlipStep ==
  ASSUME TypeOK, SumRecovers, ApplyPhaseFlipBasisState
  PROVE  Done
<1> DEFINE names == {"PhaseFlip"}
           t == request.state
           a == Minus(0, Logical[t])
           call == IF affineOverlayActive
                   THEN [name |-> "SetAmplitude", state |-> t, value |-> RemoveAffineOverlay(a)]
                   ELSE request
           result == Backend!Result(call, stored)
           sum == IF cachedSum = NoSum THEN NoSum ELSE Minus(cachedSum, 2 * Logical[t])
<1>1. /\ Over(names) /\ "None" \notin names /\ UNCHANGED overlayVars
      /\ \/ Returns(call, stored) /\ SumAfter(sum, FALSE)
         \/ Throws(call, stored) /\ SumAfter(sum, TRUE)
  BY DEF ApplyPhaseFlipBasisState
<1>2. request.name = "PhaseFlip"
  BY <1>1 DEF Over
<1> HIDE DEF names
<1>3. t \in States
  BY <1>1, <1>2, Requested, RequestFields
<1>4. stored \in Vectors /\ Logical \in Vectors
  BY Overlay DEF TypeOK, Vectors
<1>5. Logical[t] \in 0..16 /\ Logical[t] \in Int /\ a \in Amplitude
  BY <1>3, <1>4, Field DEF Vectors, Amplitude
<1>6. sum \in Amplitude \cup {NoSum}
  <2>1. cachedSum \in Amplitude \cup {NoSum}
    BY DEF TypeOK
  <2> DEFINE l == Logical[t]
  <2>2. 2 * l \in Int
    BY <1>5
  <2> HIDE DEF l
  <2>3. CASE cachedSum # NoSum
    <3>1. cachedSum \in Int
      BY <2>1, <2>3, Field
    <3>2. Minus(cachedSum, 2 * l) \in Amplitude
      BY <2>2, <3>1, Field
    <3> QED BY <3>2 DEF l
  <2>4. CASE cachedSum = NoSum
    BY <2>4
  <2> QED BY <2>3, <2>4
<1>7. result = [stored EXCEPT ![t] = RemoveAffineOverlay(a)]
  <2>1. CASE affineOverlayActive
    <3> DEFINE c == [name |-> "SetAmplitude", state |-> t, value |-> RemoveAffineOverlay(a)]
    <3>1. c.name = "SetAmplitude" /\ c.state = t /\ c.value = RemoveAffineOverlay(a)
      OBVIOUS
    <3>2. result = Backend!Result(c, stored)
      BY <2>1
    <3> HIDE DEF c
    <3> QED BY <3>1, <3>2, VectorResults
  <2>2. CASE ~affineOverlayActive
    <3>1. RemoveAffineOverlay(a) = a /\ Logical[t] = stored[t]
      BY <1>3, <2>2 DEF RemoveAffineOverlay, Logical, ApplyAffineOverlay
    <3>2. Backend!Result(request, stored) = [stored EXCEPT ![t] = Minus(0, stored[t])]
      BY <1>2, VectorResults
    <3> QED BY <2>2, <3>1, <3>2
  <2> QED BY <2>1, <2>2
<1>8. result \in Vectors
  <2>1. RemoveAffineOverlay(a) \in Amplitude
    BY <1>5, RemovedOverlay
  <2> QED BY <1>3, <1>4, <1>7, <2>1 DEF Vectors
<1> HIDE DEF call
<1>9. CASE Returns(call, stored) /\ SumAfter(sum, FALSE)
  <2>1. stored' = [stored EXCEPT ![t] = RemoveAffineOverlay(a)]
    BY <1>7, <1>9 DEF Returns
  <2> HIDE DEF result, sum
  <2>2. stored' \in Vectors /\ Logical' = [Logical EXCEPT ![t] = a]
    <3> HIDE DEF a
    <3> QED BY <1>1, <1>3, <1>5, <2>1, StoredOne
  <2>3. TypeOK'
    BY <1>1, <1>6, <1>9, <2>2, TypeAfter
  <2>4. Backend!Result(request, Logical) = [Logical EXCEPT ![t] = a]
    BY <1>2, VectorResults
  <2>5. ~thrown' => CachedSumIsSum'
    <3>1. SUFFICES ASSUME ~thrown', cachedSum' # NoSum
                   PROVE  cachedSum' = Total(Logical')
      BY DEF CachedSumIsSum, Total
    <3>2. cachedSum' = sum /\ sum # NoSum /\ ~thrown
      BY <1>9, <3>1 DEF SumAfter
    <3>3. cachedSum # NoSum /\ cachedSum' = Minus(cachedSum, 2 * Logical[t])
      BY <3>2 DEF sum
    <3>4. cachedSum = Total(Logical)
      BY <3>2, <3>3 DEF SumRecovers, CachedSumIsSum
    <3> DEFINE w == Logical'
    <3>5. w \in Vectors /\ (\A s \in States : s # t => w[s] = Logical[s])
          /\ w[t] = Minus(0, Logical[t])
      BY <1>3, <1>4, <1>5, <2>2 DEF Vectors
    <3> HIDE DEF w
    <3>6. Total(w) = Minus(Total(Logical), 2 * Logical[t])
      <4> HIDE DEF t, a
      <4> DEFINE v == Logical
      <4>1. v \in Vectors /\ (\A s \in States : s # t => w[s] = v[s]) /\ w[t] = Minus(0, v[t])
        BY <1>4, <3>5
      <4> HIDE DEF v
      <4>2. Total(w) = Minus(Total(v), 2 * v[t])
        BY <1>3, <3>5, <4>1, SumNegated
      <4> QED BY <4>2 DEF v
    <3> QED BY <3>3, <3>4, <3>6 DEF w
  <2> QED BY <2>2, <2>3, <2>4, <2>5 DEF Done
<1>10. CASE Throws(call, stored) /\ SumAfter(sum, TRUE)
  <2> HIDE DEF sum
  <2> QED BY <1>1, <1>4, <1>6, <1>8, <1>10, Throwing
<1> QED BY <1>1, <1>9, <1>10

LEMMA LoadStep ==
  ASSUME TypeOK, LoadAmplitudes
  PROVE  Done
<1> DEFINE names == {"Load"}
<1>1. Over(names) /\ "None" \notin names /\ SumAfter(NoSum, FALSE)
      /\ ResetAffineOverlay /\ stored' = request.vector
  BY DEF LoadAmplitudes
<1>2. request.name = "Load"
  BY <1>1 DEF Over
<1> HIDE DEF names
<1>3. request.vector \in Vectors
  BY <1>1, <1>2, Requested, RequestFields
<1>4. NoSum \in Amplitude \cup {NoSum}
  OBVIOUS
<1>5. TypeOK'
  BY <1>1, <1>3, <1>4, TypeAfter
<1>6. Logical' = request.vector
  BY <1>1, <1>5, LogicalStored DEF ResetAffineOverlay
<1>7. Backend!Result(request, Logical) = request.vector
  BY <1>2, VectorResults
<1> QED BY <1>1, <1>5, <1>6, <1>7, DoneForgetting

LEMMA InvertedSumType ==
  ASSUME NEW sum \in Amplitude \cup {NoSum}, NEW mean \in Amplitude
  PROVE  InvertedSum(sum, mean) \in Amplitude \cup {NoSum}
<1>1. CASE sum = NoSum
  BY <1>1 DEF InvertedSum
<1>2. CASE sum # NoSum
  <2>1. sum \in Int /\ Times(mean, NumStates) \in Int
    <3>1. mean \in Int /\ NumStates \in Int
      BY StatesAreNumbers, Field
    <3> QED BY <1>2, <3>1, Field DEF Times
  <2> DEFINE m == Times(mean, NumStates)
  <2>2. 2 * m \in Int
    BY <2>1
  <2>3. Minus(2 * m, sum) \in Amplitude
    <3> HIDE DEF m
    <3> QED BY <2>1, <2>2, Field
  <2> QED BY <1>2, <2>3 DEF InvertedSum
<1> QED BY <1>1, <1>2

(* An inversion that returned keeps the sum right, if it was given a sum   *)
(* that is.                                                                *)
LEMMA InvertedVector ==
  ASSUME NEW sum \in Amplitude \cup {NoSum}, NEW mean \in Amplitude,
         SumAfter(InvertedSum(sum, mean), FALSE), TypeOK, TypeOK',
         Logical' = [s \in States |-> Minus(2 * mean, Logical[s])],
         ~thrown /\ sum # NoSum => sum = Total(Logical)
  PROVE  ~thrown' => CachedSumIsSum'
<1>1. SUFFICES ASSUME ~thrown', cachedSum' # NoSum
               PROVE  cachedSum' = Total(Logical')
  BY DEF CachedSumIsSum, Total
<1>2. cachedSum' = InvertedSum(sum, mean) /\ ~thrown /\ sum # NoSum
  BY <1>1 DEF SumAfter, InvertedSum
<1>3. cachedSum' = Minus(2 * Times(mean, NumStates), Total(Logical))
  BY <1>2 DEF InvertedSum
<1>4. Logical \in Vectors
  BY Overlay
<1>5. ASSUME NEW s \in States
      PROVE  Minus(2 * mean, Logical[s]) \in Amplitude
  <2> DEFINE l == Logical[s]
  <2>1. l \in Int /\ 2 * mean \in Int
    BY <1>4, VectorSum, Field
  <2> HIDE DEF l
  <2>2. Minus(2 * mean, l) \in Amplitude
    BY <2>1, Field
  <2> QED BY <2>2 DEF l
<1> DEFINE v == Logical  w == Logical'
<1>6. /\ v \in Vectors /\ w \in Vectors
      /\ \A s \in States : w[s] = Minus(2 * mean, v[s])
  BY <1>4, <1>5 DEF Vectors
<1> HIDE DEF v, w
<1>7. Total(w) = Minus(2 * Times(mean, NumStates), Total(v))
  BY <1>6, SumInverted
<1> QED BY <1>3, <1>7 DEF v, w

LEMMA InvertStep ==
  ASSUME TypeOK, NEW names, Over(names), "None" \notin names,
         NEW sum \in Amplitude \cup {NoSum}, NEW mean \in Amplitude,
         ~thrown /\ sum # NoSum => sum = Total(Logical), Invert(sum, mean)
  PROVE  /\ TypeOK' /\ (~thrown' => CachedSumIsSum')
         /\ Logical' = [s \in States |-> Minus(2 * mean, Logical[s])]
<1>1. SumAfter(InvertedSum(sum, mean), FALSE) /\ stored' = stored
  BY DEF Invert
<1>2. /\ affineScale' \in {1, Minus(0, 1)} /\ affineBias' \in Amplitude
      /\ affineOverlayActive' \in BOOLEAN
  <2> DEFINE scale == IF affineOverlayActive THEN affineScale ELSE 1
             bias == IF affineOverlayActive THEN affineBias ELSE 0
  <2>1. scale \in {1, 16} /\ bias \in Int /\ 2 * mean \in Int
    BY Scales, Field DEF TypeOK
  <2>2. affineScale' = Minus(0, scale) /\ affineBias' = Minus(2 * mean, bias)
        /\ affineOverlayActive' = TRUE
    BY DEF Invert
  <2> HIDE DEF scale, bias
  <2>3. Minus(2 * mean, bias) \in Amplitude
    BY <2>1, Field
  <2> QED BY <2>1, <2>2, <2>3, Scales
<1>3. InvertedSum(sum, mean) \in Amplitude \cup {NoSum} /\ stored' \in Vectors
  BY <1>1, InvertedSumType DEF TypeOK, Vectors
<1>4. TypeOK'
  BY <1>1, <1>2, <1>3, TypeAfter
<1>5. Logical' = [s \in States |-> Minus(2 * mean, Logical[s])]
  BY Inverted
<1> QED BY <1>1, <1>4, <1>5, InvertedVector

LEMMA InvertMaterializedStep ==
  ASSUME TypeOK, NEW names, Over(names), "None" \notin names,
         NEW sum \in Amplitude \cup {NoSum}, NEW mean \in Amplitude,
         ~thrown /\ sum # NoSum => sum = Total(Logical), InvertMaterialized(sum, mean)
  PROVE  /\ TypeOK' /\ (~thrown' => CachedSumIsSum')
         /\ outcome' = "returned" => Logical' = [s \in States |-> Minus(2 * mean, Logical[s])]
<1> DEFINE call == [name |-> "InversionMean", mean |-> mean]
           next == InvertedSum(sum, mean)
           result == Backend!Result(call, Materialized)
<1>1. \/ Returns(call, Materialized) /\ ResetAffineOverlay /\ SumAfter(next, FALSE)
      \/ FlushThrows /\ SumAfter(next, TRUE)
      \/ Throws(call, Materialized) /\ ResetAffineOverlay /\ SumAfter(next, TRUE)
  BY DEF InvertMaterialized
<1>2. call.name = "InversionMean" /\ call.mean = mean
  OBVIOUS
<1>3. Materialized \in Vectors /\ Materialized = Logical
  BY Overlay
<1>4. result \in Vectors
  BY <1>3, InversionType
<1> HIDE DEF call
<1>5. result = [s \in States |-> Minus(2 * mean, Logical[s])]
  BY <1>2, <1>3, VectorResults
<1>6. next \in Amplitude \cup {NoSum}
  BY InvertedSumType
<1>7. CASE Returns(call, Materialized) /\ ResetAffineOverlay /\ SumAfter(next, FALSE)
  <2>1. stored' = result
    BY <1>7 DEF Returns
  <2> HIDE DEF result, next
  <2>2. TypeOK'
    BY <1>4, <1>6, <1>7, <2>1, TypeAfter
  <2>3. Logical' = [s \in States |-> Minus(2 * mean, Logical[s])]
    BY <1>5, <1>7, <2>1, <2>2, LogicalStored DEF ResetAffineOverlay
  <2>4. SumAfter(InvertedSum(sum, mean), FALSE)
    BY <1>7 DEF next
  <2> QED BY <2>2, <2>3, <2>4, InvertedVector
<1> HIDE DEF next, result
<1>8. CASE FlushThrows /\ SumAfter(next, TRUE)
  <2>1. Done /\ outcome' = "threw"
    BY <1>6, <1>8, FlushThrowing DEF SumAfter
  <2> QED BY <2>1 DEF Done
<1>9. CASE Throws(call, Materialized) /\ ResetAffineOverlay /\ SumAfter(next, TRUE)
  <2>1. Backend!Result(call, Materialized) \in Vectors
    BY <1>4 DEF result
  <2>2. Done /\ outcome' = "threw"
    BY <1>3, <1>6, <1>9, <2>1, Throwing DEF SumAfter
  <2> QED BY <2>2 DEF Done
<1> QED BY <1>1, <1>7, <1>8, <1>9

LEMMA InversionStep ==
  ASSUME TypeOK, SumRecovers, ApplyInversionAboutMean
  PROVE  Done
<1> DEFINE names == {"Inversion", "InversionMean"}
<1>1. Over(names) /\ "None" \notin names
  BY DEF ApplyInversionAboutMean
<1>2. request.name \in {"Inversion", "InversionMean"}
  BY <1>1 DEF Over
<1> HIDE DEF names
<1> DEFINE total == LogicalAmplitudeSum
           computed == Times(total, InversePower2(NumQubits))
           InvertedAbout(mean) == [s \in States |-> Minus(2 * mean, Logical[s])]
<1>3. total \in Amplitude /\ computed \in Amplitude
  BY Overlay, Field, PowersAssumption
<1>4. ~thrown => total = Total(Logical)
  BY DEF LogicalAmplitudeSum, SumRecovers, CachedSumIsSum
<1>5. ~thrown /\ cachedSum # NoSum => cachedSum = Total(Logical)
  BY DEF SumRecovers, CachedSumIsSum
<1>6. cachedSum \in Amplitude \cup {NoSum} /\ total \in Amplitude \cup {NoSum}
  BY <1>3 DEF TypeOK
<1>7. CASE request.name = "Inversion"
  <2>1. Invert(total, computed) \/ InvertMaterialized(total, computed)
    BY <1>7 DEF ApplyInversionAboutMean
  <2> HIDE DEF total, computed
  <2>2. /\ TypeOK' /\ (~thrown' => CachedSumIsSum')
        /\ outcome' = "returned" => Logical' = InvertedAbout(computed)
    BY <1>1, <1>3, <1>4, <1>6, <2>1, InvertStep, InvertMaterializedStep
  <2>3. Backend!Result(request, Logical)
          = InvertedAbout(Times(Total(Logical), InversePower2(NumQubits)))
    BY <1>7, VectorResults
  <2>4. ~thrown => computed = Times(Total(Logical), InversePower2(NumQubits))
    BY <1>4 DEF computed
  <2> QED BY <2>2, <2>3, <2>4 DEF Done
<1>8. CASE request.name = "InversionMean"
  <2> DEFINE mean == request.mean
  <2>1. mean \in Amplitude
    BY <1>1, <1>8, Requested, RequestFields
  <2>2. Invert(cachedSum, mean) \/ InvertMaterialized(cachedSum, mean)
    BY <1>8 DEF ApplyInversionAboutMean
  <2>3. Backend!Result(request, Logical) = InvertedAbout(mean)
    BY <1>8, VectorResults
  <2> HIDE DEF mean
  <2>4. /\ TypeOK' /\ (~thrown' => CachedSumIsSum')
        /\ outcome' = "returned" => Logical' = InvertedAbout(mean)
    BY <1>1, <1>5, <1>6, <2>1, <2>2, InvertStep, InvertMaterializedStep
  <2> QED BY <2>3, <2>4 DEF Done
<1> QED BY <1>2, <1>7, <1>8

(* A client's call touches neither vector nor sum.                         *)
LEMMA StartStep ==
  ASSUME TypeOK, NEW o \in Operations, Start(o)
  PROVE  TypeOK' /\ Logical' = Logical /\ UNCHANGED <<cachedSum, thrown>>
<1>1. UNCHANGED <<stored, overlayVars, cachedSum, outcome, thrown>>
      /\ request' = o /\ left' \in 0..MaxOperations
  BY BoundsAssumption DEF Start, TypeOK
<1> QED BY <1>1 DEF TypeOK, States, Logical, ApplyAffineOverlay, overlayVars

\* The register's states.
RegisterInv == TypeOK /\ SumRecovers

LEMMA RegisterStart == Init => RegisterInv
<1> SUFFICES ASSUME Init PROVE RegisterInv
  OBVIOUS
<1>1. stored \in [States -> Amplitude] /\ affineScale = 1 /\ affineBias \in Amplitude
  BY InitialAssumption, Field DEF Init
<1>2. left \in 0..MaxOperations
  BY BoundsAssumption DEF Init
<1>3. TypeOK
  BY <1>1, <1>2 DEF Init, TypeOK
<1> QED BY <1>3 DEF Init, RegisterInv, SumRecovers, CachedSumIsSum

LEMMA RegisterIdle ==
  ASSUME RegisterInv, UNCHANGED vars
  PROVE  RegisterInv' /\ UNCHANGED <<Logical, request>>
<1>1. UNCHANGED <<stored, affineScale, affineBias, affineOverlayActive, cachedSum, request,
                  outcome, thrown, left>>
  BY DEF vars, overlayVars
<1>2. Logical' = Logical
  BY <1>1 DEF Logical, ApplyAffineOverlay, States
<1>3. TypeOK'
  BY <1>1 DEF RegisterInv, TypeOK, States
<1>4. SumRecovers'
  BY <1>1, <1>2 DEF RegisterInv, SumRecovers, CachedSumIsSum, Total
<1> QED BY <1>1, <1>2, <1>3, <1>4 DEF RegisterInv

\* A step of the register that is not a call of a client.
Operation ==
  ApplyGate \/ ApplySwap \/ ApplyPhaseFlipBasisState \/ SetAmplitude
  \/ ApplyInversionAboutMean \/ LoadAmplitudes

LEMMA OperationStep ==
  ASSUME RegisterInv, Operation
  PROVE  Done /\ request # NoRequest /\ request' = NoRequest
<1>1. CASE ApplyGate
  BY <1>1, GateStep, Requested DEF RegisterInv, ApplyGate
<1>2. CASE ApplySwap
  BY <1>2, SwapStep, Requested DEF RegisterInv, ApplySwap
<1>3. CASE ApplyPhaseFlipBasisState
  BY <1>3, PhaseFlipStep, Requested DEF RegisterInv, ApplyPhaseFlipBasisState
<1>4. CASE SetAmplitude
  BY <1>4, SetAmplitudeStep, Requested DEF RegisterInv, SetAmplitude
<1>5. CASE ApplyInversionAboutMean
  BY <1>5, InversionStep, Requested DEF RegisterInv, ApplyInversionAboutMean
<1>6. CASE LoadAmplitudes
  BY <1>6, LoadStep, Requested DEF RegisterInv, LoadAmplitudes
<1> QED BY <1>1, <1>2, <1>3, <1>4, <1>5, <1>6 DEF Operation

LEMMA RegisterSteps ==
  ASSUME RegisterInv, [Next]_vars
  PROVE  RegisterInv'
<1>1. ASSUME NEW o \in Operations, Start(o)
      PROVE  RegisterInv'
  <2>1. TypeOK' /\ Logical' = Logical /\ UNCHANGED <<cachedSum, thrown>>
    BY <1>1, StartStep DEF RegisterInv
  <2> QED BY <2>1 DEF RegisterInv, SumRecovers, CachedSumIsSum, Total
<1>2. CASE Operation
  BY <1>2, OperationStep DEF Done, RegisterInv, SumRecovers
<1>3. CASE UNCHANGED vars
  BY <1>3, RegisterIdle
<1> QED BY <1>1, <1>2, <1>3 DEF Next, Operation

(* The register stays well typed, its scale 1 or -1.                       *)
THEOREM RegisterTypeCorrect == Spec => []TypeOK
<1>1. Spec => []RegisterInv
  BY RegisterStart, RegisterSteps, PTL DEF Spec
<1> QED BY <1>1, PTL DEF RegisterInv

(* Unless a call threw since it was computed, the sum an inversion takes   *)
(* its mean from is the sum of the logical amplitudes.                     *)
THEOREM SumAlwaysRecovers == Spec => []SumRecovers
<1>1. Spec => []RegisterInv
  BY RegisterStart, RegisterSteps, PTL DEF Spec
<1> QED BY <1>1, PTL DEF RegisterInv

-------------------------------------------------------------------------------
(* The register implements a state vector.                                 *)

LEMMA PromisedTotal == \A f : Promise!Total(f) = Backend!Total(f)
<1> SUFFICES ASSUME NEW f PROVE Promise!Total(f) = Backend!Total(f)
  OBVIOUS
<1>1. Promise!SumFunction(f) = Backend!SumFunction(f)
  BY DEF Backend!SumFunction, Promise!SumFunction, Backend!SumFunctionOnSet,
         Promise!SumFunctionOnSet, Backend!FoldFunctionOnSet, Promise!FoldFunctionOnSet,
         Backend!MapThenFoldSet, Promise!MapThenFoldSet
<1> QED BY <1>1 DEF Backend!Total, Promise!Total

LEMMA PromisedColumns ==
  ASSUME NEW s, NEW qs
  PROVE  /\ Promise!Row(s, qs) = Backend!Row(s, qs)
         /\ \A col : Promise!WithColumn(s, qs, col) = Backend!WithColumn(s, qs, col)
<1>1. Promise!Row(s, qs) = Backend!Row(s, qs)
  BY DEF Backend!Row, Promise!Row, Backend!Bit, Promise!Bit, Backend!Mask, Promise!Mask,
         Backend!MapThenSumSet, Promise!MapThenSumSet, Backend!MapThenFoldSet,
         Promise!MapThenFoldSet
<1>2. ASSUME NEW col
      PROVE  Promise!WithColumn(s, qs, col) = Backend!WithColumn(s, qs, col)
  BY DEF Backend!WithColumn, Promise!WithColumn, Backend!Bit, Promise!Bit, Backend!Mask,
         Promise!Mask, Backend!MapThenSumSet, Promise!MapThenSumSet, Backend!MapThenFoldSet,
         Promise!MapThenFoldSet
<1> QED BY <1>1, <1>2

LEMMA PromisedGates ==
  /\ Promise!Hadamard = Backend!Hadamard /\ Promise!PauliX = Backend!PauliX
  /\ Promise!ControlledNot = Backend!ControlledNot
  /\ \A phase : Promise!ControlledPhaseShift(phase) = Backend!ControlledPhaseShift(phase)
  /\ Promise!Exchange = Backend!Exchange
<1>1. Promise!Hadamard = Backend!Hadamard /\ Promise!PauliX = Backend!PauliX
  BY DEF Backend!Hadamard, Promise!Hadamard, Backend!PauliX, Promise!PauliX, Backend!Matrix,
         Promise!Matrix, Backend!Rows, Promise!Rows, Backend!InvSqrt2, Promise!InvSqrt2,
         Backend!Minus, Promise!Minus
<1>2. Promise!ControlledNot = Backend!ControlledNot
  BY DEF Backend!ControlledNot, Promise!ControlledNot, Backend!Matrix, Promise!Matrix,
         Backend!Rows, Promise!Rows
<1>3. \A phase : Promise!ControlledPhaseShift(phase) = Backend!ControlledPhaseShift(phase)
  BY DEF Backend!ControlledPhaseShift, Promise!ControlledPhaseShift, Backend!Matrix,
         Promise!Matrix, Backend!Rows, Promise!Rows
<1>4. Promise!Exchange = Backend!Exchange
  BY DEF Backend!Exchange, Promise!Exchange, Backend!Matrix, Promise!Matrix, Backend!Rows,
         Promise!Rows
<1> QED BY <1>1, <1>2, <1>3, <1>4

(* What the promise and the back end say an operation does is the same.    *)
LEMMA PromisedResults ==
  ASSUME NEW o, NEW v
  PROVE  Promise!Result(o, v) = Backend!Result(o, v)
<1>1. \A a, b : /\ Promise!Plus(a, b) = Backend!Plus(a, b)
                /\ Promise!Minus(a, b) = Backend!Minus(a, b)
                /\ Promise!Times(a, b) = Backend!Times(a, b)
  BY DEF Backend!Plus, Promise!Plus, Backend!Minus, Promise!Minus, Backend!Times, Promise!Times
<1>2. Promise!States = Backend!States
  BY DEF Backend!States, Promise!States
<1>3. \A gate, qs : Promise!Applied(gate, qs, v) = Backend!Applied(gate, qs, v)
  <2> SUFFICES ASSUME NEW gate, NEW qs
               PROVE  Promise!Applied(gate, qs, v) = Backend!Applied(gate, qs, v)
    OBVIOUS
  <2> QED BY <1>2, PromisedTotal, PromisedColumns DEF Backend!Applied, Promise!Applied
<1>4. Promise!Mean(v) = Backend!Mean(v)
  BY <1>1, PromisedTotal DEF Backend!Mean, Promise!Mean, Backend!InversePower2,
     Promise!InversePower2, Backend!Half, Promise!Half
<1>5. \A state, value : Promise!BasisVector(state, value) = Backend!BasisVector(state, value)
  BY <1>2 DEF Backend!BasisVector, Promise!BasisVector
<1> QED BY <1>1, <1>2, <1>3, <1>4, <1>5, PromisedGates DEF Backend!Result, Promise!Result

LEMMA PromiseStarts == Init => Promise!Init
<1> SUFFICES ASSUME Init PROVE Promise!Init
  OBVIOUS
<1>1. stored \in Vectors /\ stored \in Initial /\ ~affineOverlayActive /\ request = NoRequest
  BY InitialAssumption DEF Init, Vectors
<1>2. Logical = stored
  BY <1>1 DEF Logical, ApplyAffineOverlay, Vectors
<1> QED BY <1>1, <1>2 DEF Promise!Init, Promise!NoRequest, NoRequest

LEMMA PromiseKept ==
  ASSUME RegisterInv, [Next]_vars
  PROVE  [Promise!Next \/ outcome' = "threw" \/ thrown]_<<Logical, request>>
<1>1. ASSUME NEW o \in Operations, Start(o)
      PROVE  Promise!Next
  <2>1. Logical' = Logical /\ request = NoRequest /\ request' = o
    BY <1>1, StartStep DEF RegisterInv, Start
  <2>2. Promise!Request(o)
    BY <2>1 DEF Promise!Request, Promise!NoRequest, NoRequest
  <2> QED BY <2>2 DEF Promise!Next
<1>2. CASE Operation
  <2>1. Done /\ request # NoRequest /\ request' = NoRequest
    BY <1>2, OperationStep
  <2>2. SUFFICES ASSUME outcome' # "threw", ~thrown
                 PROVE  Promise!Next
    OBVIOUS
  <2>3. Logical' = Promise!Result(request, Logical)
    <3>1. outcome' = "returned"
      BY <2>1, <2>2 DEF Done, TypeOK
    <3> QED BY <2>1, <2>2, <3>1, PromisedResults DEF Done
  <2>4. Promise!Return
    BY <2>1, <2>3 DEF Promise!Return, Promise!NoRequest, NoRequest
  <2> QED BY <2>4 DEF Promise!Next
<1>3. CASE UNCHANGED vars
  BY <1>3, RegisterIdle
<1> QED BY <1>1, <1>2, <1>3 DEF Next, Operation

(* Overlay or not, a call that returns has done to the logical vector what *)
(* linear algebra says, and nothing else changes it, as long as no call    *)
(* has thrown half way since the sum was last forgotten.                   *)
THEOREM RegisterImplementsStateVector == Spec => ImplementsStateVector
<1>1. Spec => []RegisterInv
  BY RegisterStart, RegisterSteps, PTL DEF Spec
<1>2. Spec => [][Promise!Next \/ outcome' = "threw" \/ thrown]_<<Logical, request>>
  BY <1>1, PromiseKept, PTL DEF Spec
<1> QED BY <1>2, PromiseStarts, PTL DEF Spec, ImplementsStateVector

-------------------------------------------------------------------------------
(* A Hadamard gate.                                                        *)

(* A state with its bit cleared or set, by remainders.                     *)
LEMMA ClearedRemainder ==
  ASSUME NEW s \in Nat, NEW m \in Nat \ {0}
  PROVE  /\ ((s - BitAt(s, m) * m) % (2 * m)) = (s % m)
         /\ ((s + (1 - BitAt(s, m)) * m) % (2 * m)) = (s % m) + m
<1> DEFINE q == s \div m  r == s % m  j == q \div 2  b == q % 2
<1>1. q \in Nat /\ r \in 0..(m - 1) /\ s = m * q + r
  BY Division
<1>2. BitAt(s, m) = b
  BY DEF BitAt
<1>3. (s % m) = r
  OBVIOUS
<1> HIDE DEF q, r
<1>4. j \in Nat /\ b \in 0..1 /\ q = 2 * j + b
  BY <1>1
<1> HIDE DEF j, b
<1>5. m * q = (2 * m) * j + b * m
  BY <1>1, <1>4
<1>6. b * m \in Nat /\ (1 - b) * m = m - b * m /\ (2 * m) * j \in Nat
  BY <1>4
<1>7. s - b * m = (2 * m) * j + r /\ s + (1 - b) * m = (2 * m) * j + (r + m)
  <2> DEFINE x == b * m  y == (2 * m) * j  z == (1 - b) * m
  <2>1. x \in Nat /\ y \in Nat /\ z = m - x /\ s = (y + x) + r
    BY <1>1, <1>5, <1>6
  <2> HIDE DEF x, y, z
  <2>2. s - x = y + r /\ s + z = y + (r + m)
    BY <1>1, <2>1
  <2> QED BY <2>2 DEF x, y, z
<1>8. 2 * m \in Nat \ {0} /\ r \in Nat /\ r < 2 * m /\ r + m \in Nat /\ r + m < 2 * m
  BY <1>1
<1>9. (((2 * m) * j + r) % (2 * m)) = r /\ (((2 * m) * j + (r + m)) % (2 * m)) = r + m
  <2> DEFINE d == 2 * m
  <2>1. d \in Nat \ {0} /\ r < d /\ r + m < d /\ r \in Nat /\ r + m \in Nat
    BY <1>8
  <2> HIDE DEF d
  <2>2. ((d * j + r) % d) = r /\ ((d * j + (r + m)) % d) = r + m
    BY <1>4, <2>1, DivisionUnique
  <2> QED BY <2>2 DEF d
<1> QED BY <1>2, <1>3, <1>7, <1>9

LEMMA OneQubit ==
  ASSUME NEW q \in Qubits
  PROVE  /\ <<q>> \in QubitLists(1) /\ 1 \in 0..NumQubits /\ 2^1 = 2 /\ 2^(1 - 1) = 1
         /\ DOMAIN <<q>> = 1..1 /\ Len(<<q>>) = 1 /\ NumQubits >= 1
<1>1. NumQubits \in Nat /\ NumQubits >= 1
  BY PowersAssumption DEF Qubits
<1>2. 0 \in 0..NumQubits /\ 1 \in 0..NumQubits
  BY <1>1
<1>3. 2^0 = 1 /\ 2^(0 + 1) = 2 * 2^0
  BY <1>2, PowersAssumption
<1>4. <<q>> \in QubitLists(1)
  BY DEF QubitLists, Injection, IsInjective
<1> QED BY <1>1, <1>2, <1>3, <1>4

(* An amplitude after a Hadamard gate on qubit q is made of two: of the     *)
(* states that are s but for that qubit.                                   *)
LEMMA HadamardAt ==
  ASSUME NEW q \in Qubits, NEW v \in Vectors, NEW s \in States
  PROVE  \E t \in States, u \in States, sign \in {3, 14} :
           /\ (t % (2 * Mask(q))) = (s % Mask(q))
           /\ (u % (2 * Mask(q))) = (s % Mask(q)) + Mask(q)
           /\ Backend!Applied(Hadamard, <<q>>, v)[s] = ((3 * v[t] + sign * v[u]) % 17)
<1> DEFINE qs == <<q>>  f == AppliedTerms(Hadamard, qs, v, s)  b == Bit(s, q)
           row == Backend!Row(s, qs)
<1>1. /\ qs \in QubitLists(1) /\ 1 \in 0..NumQubits /\ 2^1 = 2 /\ 2^(1 - 1) = 1
      /\ DOMAIN qs = 1..1 /\ Len(qs) = 1 /\ qs[1] = q /\ NumQubits >= 1
  BY OneQubit
<1> HIDE DEF qs
<1>2. Put(s, q, 0) \in States /\ Put(s, q, 1) \in States /\ b \in {0, 1}
  BY PutBit, BitType
<1>3. ASSUME NEW g, g[1] \in Int PROVE SumFunctionOnSet(g, 1..1) = g[1]
  <2>1. IsFiniteSet(1..1)
    <3>1. 1..1 = {1}
      OBVIOUS
    <3>2. IsFiniteSet({1})
      BY FS_Singleton
    <3> QED BY <3>1, <3>2
  <2>a. 1 \in 1..1 /\ \A x \in 1..1 : x # 1 => g[x] = 0
    OBVIOUS
  <2> QED BY <1>3, <2>1, <2>a, OneTerm
<1>4. row = b
  <2> DEFINE g == RowTerms(s, qs)
  <2>1. g[1] = b * 2^(1 - 1)
    BY <1>1 DEF RowTerms
  <2>2. row = SumFunctionOnSet(g, 1..1)
    BY <1>1, RowIsSum
  <2> HIDE DEF g, row, b
  <2>3. g[1] = b
    BY <1>1, <1>2, <2>1
  <2> QED BY <1>2, <1>3, <2>2, <2>3
<1>5. ASSUME NEW x \in {0, 1} PROVE Backend!WithColumn(s, qs, x) = Put(s, q, x)
  <2> DEFINE g == ColumnTerms(s, qs, x)
  <2>1. ColumnBit(qs, x, 1) = x
    <3>1. ColumnBit(qs, x, 1) = (x \div 1) % 2
      BY <1>1 DEF ColumnBit
    <3> QED BY <3>1
  <2>2. g[1] = (x - b) * Mask(q)
    BY <1>1, <2>1 DEF ColumnTerms
  <2>3. Backend!WithColumn(s, qs, x) = s + SumFunctionOnSet(g, 1..1)
    BY <1>1, ColumnIsSum
  <2>4. Mask(q) \in Nat
    BY Masks
  <2> HIDE DEF g
  <2>5. g[1] \in Int
    BY <1>2, <2>2, <2>4
  <2> QED BY <1>3, <2>2, <2>3, <2>5 DEF Put
<1>6. /\ Hadamard \in SquareMatrices(1) /\ Rows(2^1) = 0..1
      /\ Hadamard[0][0] = 3 /\ Hadamard[0][1] = 3 /\ Hadamard[1][0] = 3 /\ Hadamard[1][1] = 14
  <2>1. Minus(0, InvSqrt2) = 14
    <3>1. ASSUME NEW a \in 1..16 PROVE Minus(0, a) = 17 - a
      BY DEF Minus
    <3> QED BY <3>1 DEF InvSqrt2
  <2>2. /\ Hadamard[0][0] = 3 /\ Hadamard[0][1] = 3
        /\ Hadamard[1][0] = 3 /\ Hadamard[1][1] = 14
    BY <2>1 DEF Hadamard, Matrix, Rows, InvSqrt2
  <2>3. Rows(2^1) = 0..1
    BY <1>1 DEF Rows
  <2> QED BY <1>1, <2>2, <2>3, GateTypes
<1>7. DOMAIN Hadamard = 0..1
  BY <1>6 DEF SquareMatrices
<1>8. \A x \in {0, 1} : f[x] = Hadamard[b][x] * v[Put(s, q, x)] /\ f[x] \in Int
  <2> SUFFICES ASSUME NEW x \in {0, 1}
               PROVE  f[x] = Hadamard[b][x] * v[Put(s, q, x)] /\ f[x] \in Int
    OBVIOUS
  <2>1. x \in 0..1 /\ x \in DOMAIN Hadamard
    BY <1>7
  <2>2. f[x] = Hadamard[row][x] * v[Backend!WithColumn(s, qs, x)]
    BY <2>1 DEF AppliedTerms
  <2>3. f[x] \in Int
    BY <1>1, <1>6, <2>1, AppliedType
  <2> QED BY <1>4, <1>5, <2>2, <2>3
<1>9. Backend!Applied(Hadamard, qs, v)[s] = Total(f) /\ DOMAIN f = 0..1
  BY <1>7, AppliedTotal DEF AppliedTerms
<1> HIDE DEF f, row, b
<1>10. SumFunctionOnSet(f, 0..1) = f[0] + f[1]
  <2>1. \A x \in 0..(2 - 1) : f[x] \in Int
    BY <1>8
  <2>2. /\ Prefix(f, 0) = 0
        /\ \A m \in 0..2 : Prefix(f, m) \in Int
        /\ \A m \in 0..(2 - 1) : Prefix(f, m + 1) = f[m] + Prefix(f, m)
    BY <2>1, PrefixStep
  <2>3. Prefix(f, 0 + 1) = f[0] + Prefix(f, 0) /\ Prefix(f, 1 + 1) = f[1] + Prefix(f, 1)
    BY <2>2
  <2>4. Prefix(f, 2) = f[0] + f[1]
    BY <1>8, <2>2, <2>3
  <2> QED BY <2>4 DEF Prefix
<1>11. Total(f) = ((f[0] + f[1]) % 17)
  BY <1>9, <1>10 DEF Total, SumFunction
<1>12. f[0] = 3 * v[Put(s, q, 0)] /\ \E sign \in {3, 14} : f[1] = sign * v[Put(s, q, 1)]
  BY <1>2, <1>6, <1>8
<1>13. /\ (Put(s, q, 0) % (2 * Mask(q))) = (s % Mask(q))
       /\ (Put(s, q, 1) % (2 * Mask(q))) = (s % Mask(q)) + Mask(q)
  <2> DEFINE m == Mask(q)
  <2>1. m \in Nat \ {0} /\ s \in Nat /\ b = BitAt(s, m)
    BY Masks, StatesAreNumbers DEF Bit, b
  <2>2. (0 - b) * m = -(b * m) /\ b * m \in Int
    BY <1>2, <2>1
  <2>3. Put(s, q, 0) = s - BitAt(s, m) * m /\ Put(s, q, 1) = s + (1 - BitAt(s, m)) * m
    <3>1. Put(s, q, 0) = s + (0 - b) * m /\ Put(s, q, 1) = s + (1 - b) * m
      BY DEF Put, b
    <3>2. s + (0 - b) * m = s - b * m
      <4> DEFINE x == b * m  y == (0 - b) * m
      <4>1. y = -x /\ x \in Int
        BY <2>2
      <4> HIDE DEF x, y
      <4> QED BY <2>1, <4>1 DEF x, y
    <3> QED BY <2>1, <3>1, <3>2
  <2> HIDE DEF m
  <2> QED BY <2>1, <2>3, ClearedRemainder DEF m
<1> QED BY <1>2, <1>9, <1>11, <1>12, <1>13 DEF qs
===============================================================================
