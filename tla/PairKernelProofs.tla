---------------------------- MODULE PairKernelProofs ----------------------------
(***************************************************************************)
(* Proofs about one traversal of the amplitude pairs of a target bit, for  *)
(* every layout, mask and traversal.                                       *)
(***************************************************************************)
EXTENDS PairKernel, OperatorTheorems, FiniteSetTheorems

Its == Iterations(Mode, layout, targetMask)
CallOf(it) == Call(Mode, layout, targetMask, it)

(* Each call so far was that of an iteration which is over and came before *)
(* all that are left.                                                      *)
CallsOfPast ==
  /\ calls \in Seq({CallOf(it) : it \in Its})
  /\ \A i \in 1..Len(calls) :
       \E it \in Its \ todo : calls[i] = CallOf(it) /\ \A q \in todo : Earlier(it, q)

\* ChunksVisitedOnce, in a form that is inductive.
ChunksAscend ==
  Mode # "Fallback" =>
    \A i, j \in 1..Len(calls) : i < j => calls[i].ref0.chunk <= calls[j].ref0.chunk

\* No iteration is skipped.
PastIsCalled ==
  \A it \in Its \ todo : \E i \in 1..Len(calls) : calls[i] = CallOf(it)

KernelInv == TypeOK /\ CallsOfPast /\ PastIsCalled /\ NoPairTwice /\ ChunksAscend

-------------------------------------------------------------------------------
LEMMA SizedNow ==
  ASSUME layout \in Layouts, targetMask \in Masks(layout)
  PROVE  Sized(layout, targetMask) /\ Mode \in Chosen(layout, targetMask)
<1>1. layout.states \in Nat \ {0} /\ layout.width \in Nat \ {0}
  BY LayoutsAssumption
<1>2. /\ targetMask \in Nat \ {0}
      /\ (layout.states % (2 * targetMask)) = 0
      /\ IsPowerOf2(layout.width) /\ targetMask < layout.width =>
           (layout.width % (2 * targetMask)) = 0
  BY MasksAssumption
<1> QED BY <1>1, <1>2 DEF Sized, Chosen, Mode

LEMMA ItsFinite ==
  ASSUME layout \in Layouts, targetMask \in Masks(layout)
  PROVE  IsFiniteSet(Its)
<1> DEFINE n == layout.states  w == layout.width  m == targetMask  d == m \div w
           count == ChunkCount(layout)
<1>1. n \in Nat \ {0} /\ w \in Nat \ {0} /\ m \in Nat \ {0}
  BY SizedNow DEF Sized
<1>2. count \in Nat /\ d \in Nat /\ ChunkIndices(layout) = 0..(count - 1)
  BY <1>1 DEF ChunkCount, ChunkIndices
<1> HIDE DEF n, w, m, d, count
<1>3. /\ IsFiniteSet(0..(n - 1)) /\ IsFiniteSet(0..(w - 1)) /\ IsFiniteSet(0..(m - 1))
      /\ IsFiniteSet(0..(d - 1)) /\ IsFiniteSet(0..(count - 1))
  <2>1. \A k \in Nat : k - 1 \in Int /\ 0 \in Int
    OBVIOUS
  <2> QED BY <1>1, <1>2, <2>1, FS_Interval
<1> DEFINE A == 0..(n - 1)  B == 0..(m - 1)  C == 0..(count - 1)  D == 0..(w - 1)  E == 0..(d - 1)
<1>4. IsFiniteSet(A) /\ IsFiniteSet(B) /\ IsFiniteSet(C) /\ IsFiniteSet(D) /\ IsFiniteSet(E)
  BY <1>3
<1> HIDE DEF A, B, C, D, E
<1>5. IsFiniteSet(A \X B)
  BY <1>4, FS_Product
<1>6. ASSUME NEW X, NEW Y, NEW Z, IsFiniteSet(X), IsFiniteSet(Y), IsFiniteSet(Z)
      PROVE  IsFiniteSet(X \X Y \X Z)
  <2> DEFINE P == (X \X Y) \X Z
             F == [p \in P |-> <<p[1][1], p[1][2], p[2]>>]
  <2>1. IsFiniteSet(P)
    <3>1. IsFiniteSet(X \X Y)
      BY <1>6, FS_Product
    <3> QED BY <1>6, <3>1, FS_Product
  <2>2. F \in Surjection(P, X \X Y \X Z)
    <3>1. ASSUME NEW q \in X \X Y \X Z PROVE \E p \in P : F[p] = q
      <4> DEFINE p == << <<q[1], q[2]>>, q[3]>>
      <4>1. p \in P /\ F[p] = q
        OBVIOUS
      <4> QED BY <4>1
    <3>2. F \in [P -> X \X Y \X Z]
      OBVIOUS
    <3> QED BY <3>1, <3>2 DEF Surjection
  <2> QED BY <2>1, <2>2, FS_Surjection
<1>7. IsFiniteSet(C \X D \X B) /\ IsFiniteSet(C \X E \X D)
  BY <1>4, <1>6
<1>8. CASE Mode = "Fallback"
  <2>1. Its \subseteq A \X B
    BY <1>8 DEF Its, Iterations, FallbackIterations, Multiples, A, B, n, m
  <2> QED BY <1>5, <2>1, FS_Subset
<1>9. CASE Mode = "IntraChunk"
  <2>1. Its \subseteq C \X D \X B
    BY <1>2, <1>9 DEF Its, Iterations, IntraIterations, B, C, D, m, w
  <2> QED BY <1>7, <2>1, FS_Subset
<1>10. CASE Mode = "InterChunk"
  <2>1. Its \subseteq C \X E \X D
    BY <1>2, <1>10 DEF Its, Iterations, InterIterations, C, D, E, d, m, w
  <2> QED BY <1>7, <2>1, FS_Subset
<1> QED BY <1>8, <1>9, <1>10, ChosenModes DEF Mode, Modes

-------------------------------------------------------------------------------
LEMMA InitKernel == Init => KernelInv
<1> SUFFICES ASSUME Init PROVE KernelInv
  OBVIOUS
<1>1. layout \in Layouts /\ targetMask \in Masks(layout) /\ todo = Its /\ calls = <<>>
  BY DEF Init, Its, Mode
<1>2. Len(calls) = 0
  BY <1>1
<1>3. Cardinality(Its) \in Nat
  BY <1>1, ItsFinite, FS_CardinalityType
<1>4. TypeOK
  <2>1. Len(calls) + Cardinality(todo) = Cardinality(Its)
    BY <1>1, <1>2, <1>3
  <2> QED BY <1>1, <2>1 DEF TypeOK, Its
<1>5. CallsOfPast /\ PastIsCalled /\ NoPairTwice /\ ChunksAscend
  <2>1. \A i \in 1..Len(calls) : FALSE
    BY <1>2
  <2>2. calls \in Seq({CallOf(it) : it \in Its})
    BY <1>1
  <2> QED BY <1>1, <2>1, <2>2 DEF CallsOfPast, PastIsCalled, NoPairTwice, ChunksAscend
<1> QED BY <1>4, <1>5 DEF KernelInv

LEMMA CallBodyKernel == KernelInv /\ CallBody => KernelInv'
<1> SUFFICES ASSUME KernelInv, CallBody PROVE KernelInv'
  OBVIOUS
<1> DEFINE it == Earliest(todo)  call == CallOf(it)  n == Len(calls)
<1>1. layout \in Layouts /\ targetMask \in Masks(layout) /\ todo \subseteq Its /\ todo # {}
  BY DEF KernelInv, TypeOK, CallBody, Its
<1>2. /\ layout' = layout /\ targetMask' = targetMask /\ Mode' = Mode /\ Its' = Its
      /\ \A jt : CallOf(jt)' = CallOf(jt)
  BY DEF CallBody, Mode, Its, CallOf
<1>3. it \in todo /\ \A q \in todo \ {it} : Earlier(it, q)
  BY <1>1, SizedNow, EarliestIteration DEF Its
<1>4. calls' = Append(calls, call) /\ todo' = todo \ {it}
  BY DEF CallBody, CallOf
<1>5. calls \in Seq({CallOf(jt) : jt \in Its}) /\ n \in Nat
  BY DEF KernelInv, CallsOfPast
<1> HIDE DEF it
<1>6. /\ Len(calls') = n + 1
      /\ \A i \in 1..n : calls'[i] = calls[i]
      /\ calls'[n + 1] = call
  BY <1>4, <1>5
<1>7. \A i \in 1..(n + 1) : i \in 1..n \/ i = n + 1
  BY <1>5
<1>8. TypeOK'
  <2>1. IsFiniteSet(todo) /\ IsFiniteSet(Its)
    BY <1>1, ItsFinite, FS_Subset
  <2>2. Cardinality(todo') = Cardinality(todo) - 1 /\ Cardinality(todo) \in Nat
    BY <1>3, <1>4, <2>1, FS_RemoveElement, FS_CardinalityType
  <2>3. n + Cardinality(todo) = Cardinality(Its)
    BY DEF KernelInv, TypeOK, Its
  <2>4. Len(calls') + Cardinality(todo') = Cardinality(Its)
    BY <1>5, <1>6, <2>2, <2>3
  <2>5. todo' \subseteq Its
    BY <1>1, <1>4
  <2> QED BY <1>1, <1>2, <2>4, <2>5 DEF TypeOK, Its
<1>9. ASSUME NEW i \in 1..n
      PROVE  \E jt \in Its \ todo : calls[i] = CallOf(jt) /\ \A q \in todo : Earlier(jt, q)
  BY DEF KernelInv, CallsOfPast
<1>10. CallsOfPast'
  <2>1. calls' \in Seq({CallOf(jt) : jt \in Its})
    <3>1. call \in {CallOf(jt) : jt \in Its}
      BY <1>1, <1>3
    <3> QED BY <1>4, <1>5, <3>1
  <2>2. ASSUME NEW i \in 1..(n + 1)
        PROVE  \E jt \in Its \ todo' :
                 calls'[i] = CallOf(jt) /\ \A q \in todo' : Earlier(jt, q)
    <3>1. CASE i = n + 1
      BY <1>1, <1>3, <1>4, <1>6, <3>1
    <3>2. CASE i \in 1..n
      <4>1. PICK jt \in Its \ todo : calls[i] = CallOf(jt) /\ \A q \in todo : Earlier(jt, q)
        BY <1>9, <3>2
      <4> QED BY <1>4, <1>6, <3>2, <4>1
    <3> QED BY <1>7, <3>1, <3>2
  <2> QED BY <1>2, <1>6, <2>1, <2>2 DEF CallsOfPast
<1>11. ASSUME NEW i \in 1..n
       PROVE  /\ calls[i].state0 # call.state0
              /\ Mode # "Fallback" => calls[i].ref0.chunk <= call.ref0.chunk
  <2>1. PICK jt \in Its \ todo : calls[i] = CallOf(jt) /\ \A q \in todo : Earlier(jt, q)
    BY <1>9
  <2>2. jt # it /\ jt \in Its /\ it \in Its /\ Earlier(jt, it)
    BY <1>1, <1>3, <2>1
  <2>3. CallOf(jt).state0 # CallOf(it).state0
    BY <1>1, <2>2, SizedNow, PairTellsIteration DEF Its, CallOf, Mode, Chosen
  <2>4. Mode # "Fallback" => CallOf(jt).ref0.chunk <= CallOf(it).ref0.chunk
    BY <1>1, <2>2, SizedNow, ChunksInOrder DEF Its, CallOf, Mode
  <2> QED BY <2>1, <2>3, <2>4
<1>12. NoPairTwice'
  <2>1. ASSUME NEW i \in 1..(n + 1), NEW j \in 1..(n + 1),
               calls'[i].state0 = calls'[j].state0
        PROVE  i = j
    <3>1. CASE i \in 1..n /\ j \in 1..n
      BY <1>6, <2>1, <3>1 DEF KernelInv, NoPairTwice
    <3>2. CASE i \in 1..n /\ j = n + 1
      BY <1>6, <1>11, <2>1, <3>2
    <3>3. CASE i = n + 1 /\ j \in 1..n
      BY <1>6, <1>11, <2>1, <3>3
    <3> QED BY <1>7, <3>1, <3>2, <3>3
  <2> QED BY <1>6, <2>1 DEF NoPairTwice
<1>13. ChunksAscend'
  <2>1. ASSUME Mode # "Fallback", NEW i \in 1..(n + 1), NEW j \in 1..(n + 1), i < j
        PROVE  calls'[i].ref0.chunk <= calls'[j].ref0.chunk
    <3>0. i \in 1..n
      BY <1>5, <2>1
    <3>1. CASE j \in 1..n
      BY <1>6, <2>1, <3>0, <3>1 DEF KernelInv, ChunksAscend
    <3>2. CASE j = n + 1
      BY <1>6, <1>11, <2>1, <3>0, <3>2
    <3> QED BY <1>7, <3>1, <3>2
  <2> QED BY <1>2, <1>6, <2>1 DEF ChunksAscend
<1>14. PastIsCalled'
  <2>1. ASSUME NEW jt \in Its \ todo' PROVE \E i \in 1..(n + 1) : calls'[i] = CallOf(jt)
    <3>1. CASE jt = it
      <4>1. n + 1 \in 1..(n + 1)
        BY <1>5
      <4> QED BY <1>6, <3>1, <4>1
    <3>2. CASE jt # it
      <4>1. jt \in Its \ todo
        BY <1>4, <3>2
      <4>2. PICK i \in 1..n : calls[i] = CallOf(jt)
        BY <4>1 DEF KernelInv, PastIsCalled
      <4>3. i \in 1..(n + 1) /\ calls'[i] = CallOf(jt)
        BY <1>5, <1>6, <4>2
      <4> QED BY <4>3
    <3> QED BY <3>1, <3>2
  <2> QED BY <1>2, <1>6, <2>1 DEF PastIsCalled
<1> QED BY <1>8, <1>10, <1>12, <1>13, <1>14 DEF KernelInv

LEMMA NextKernel == KernelInv /\ [Next]_kernelVars => KernelInv'
<1> SUFFICES ASSUME KernelInv, [Next]_kernelVars PROVE KernelInv'
  OBVIOUS
<1>1. CASE CallBody
  BY <1>1, CallBodyKernel
<1>2. CASE UNCHANGED kernelVars
  BY <1>2 DEF kernelVars, KernelInv, TypeOK, CallsOfPast, PastIsCalled, NoPairTwice,
              ChunksAscend, Its,
              CallOf, Mode
<1> QED BY <1>1, <1>2 DEF Next, Done

LEMMA KernelAlways == Spec => []KernelInv
BY InitKernel, NextKernel, PTL DEF Spec

(* The loop counters a traversal goes through are those of its nest of     *)
(* loops, and each makes one call of the body.                             *)
THEOREM TypeCorrect == Spec => []TypeOK
<1>1. KernelInv => TypeOK
  BY DEF KernelInv
<1> QED BY <1>1, KernelAlways, PTL

-------------------------------------------------------------------------------
\* What CallIsPair says of the calls made.
LEMMA CallsIdentified ==
  ASSUME KernelInv, NEW i \in 1..Len(calls)
  PROVE  /\ IsPair(layout, targetMask, calls[i])
         /\ layout.states \in Nat \ {0} /\ layout.width \in Nat \ {0}
<1>1. layout \in Layouts /\ targetMask \in Masks(layout)
  BY DEF KernelInv, TypeOK
<1>2. PICK it \in Its : calls[i] = CallOf(it)
  BY DEF KernelInv, CallsOfPast
<1>3. Sized(layout, targetMask)
  BY <1>1, SizedNow
<1> QED BY <1>1, <1>2, <1>3, SizedNow, CallIsPair DEF Its, CallOf, Sized

(* Whatever the layout, the mask and so the traversal, the body is called  *)
(* for states that differ in the target bit alone, the lower one first.    *)
THEOREM EveryCallIsAPair == Spec => []CallsArePairs
<1>1. KernelInv => CallsArePairs
  BY CallsIdentified DEF CallsArePairs, IsPair, LowerStates, States
<1> QED BY <1>1, KernelAlways, PTL

(* No traversal visits a pair twice.                                       *)
THEOREM PairsVisitedAtMostOnce == Spec => []NoPairTwice
<1>1. KernelInv => NoPairTwice
  BY DEF KernelInv
<1> QED BY <1>1, KernelAlways, PTL

(* The chunk-aware traversals find a state where the layout keeps it, also *)
(* when the last chunk is partial.                                         *)
THEOREM RefsAlwaysMatch == Spec => []RefsMatchLayout
<1>1. ASSUME KernelInv, NEW i \in 1..Len(calls)
      PROVE  /\ calls[i].ref0 = StateRef(layout, calls[i].state0)
             /\ calls[i].ref1 = StateRef(layout, calls[i].state1)
             /\ calls[i].ref0.local < StatesInChunk(layout, calls[i].ref0.chunk)
             /\ calls[i].ref1.local < StatesInChunk(layout, calls[i].ref1.chunk)
  <2>1. /\ IsPair(layout, targetMask, calls[i])
        /\ layout.states \in Nat \ {0} /\ layout.width \in Nat \ {0}
    BY <1>1, CallsIdentified
  <2>2. /\ calls[i].state0 \in 0..(layout.states - 1)
        /\ calls[i].state1 \in 0..(layout.states - 1)
        /\ calls[i].ref0 = StateRef(layout, calls[i].state0)
        /\ calls[i].ref1 = StateRef(layout, calls[i].state1)
    BY <2>1 DEF IsPair
  <2> QED BY <2>1, <2>2, StateInChunk
<1>2. KernelInv => RefsMatchLayout
  BY <1>1 DEF RefsMatchLayout
<1> QED BY <1>2, KernelAlways, PTL

(* A chunk-aware traversal is through with a chunk once it turns to the    *)
(* next: it takes them in ascending order.                                 *)
THEOREM ChunksLeftForGood == Spec => []ChunksVisitedOnce
<1>1. ASSUME KernelInv, Mode # "Fallback",
             NEW i \in 1..Len(calls), NEW j \in 1..Len(calls), NEW k \in 1..Len(calls),
             i < j, j < k, calls[i].ref0.chunk = calls[k].ref0.chunk
      PROVE  calls[j].ref0.chunk = calls[i].ref0.chunk
  <2>1. ASSUME NEW h \in 1..Len(calls) PROVE calls[h].ref0.chunk \in Nat
    <3>1. /\ IsPair(layout, targetMask, calls[h])
          /\ layout.states \in Nat \ {0} /\ layout.width \in Nat \ {0}
      BY <1>1, CallsIdentified
    <3>2. StateRef(layout, calls[h].state0).chunk \in ChunkIndices(layout)
      BY <3>1, StateInChunk DEF IsPair
    <3> QED BY <3>1, <3>2 DEF IsPair, ChunkIndices
  <2>2. calls[i].ref0.chunk <= calls[j].ref0.chunk /\ calls[j].ref0.chunk <= calls[k].ref0.chunk
    BY <1>1 DEF KernelInv, ChunksAscend
  <2> QED BY <1>1, <2>1, <2>2
<1>2. KernelInv => ChunksVisitedOnce
  BY <1>1 DEF ChunksVisitedOnce
<1> QED BY <1>2, KernelAlways, PTL

(* What EveryPairVisited says of the end of a traversal: all pairs have    *)
(* been visited, by whatever traversal.  That the end comes is left to the *)
(* model checker.                                                          *)
NoPairMissed ==
  todo = {} => {calls[i].state0 : i \in 1..Len(calls)} = LowerStates

THEOREM NoPairEverMissed == Spec => []NoPairMissed
<1>1. ASSUME KernelInv, todo = {}, NEW s \in LowerStates
      PROVE  \E i \in 1..Len(calls) : calls[i].state0 = s
  <2>1. layout \in Layouts /\ targetMask \in Masks(layout)
    BY <1>1 DEF KernelInv, TypeOK
  <2>2. s \in 0..(layout.states - 1) /\ ((s \div targetMask) % 2) = 0
    BY DEF LowerStates, States
  <2>3. PICK it \in Its : CallOf(it).state0 = s
    BY <2>1, <2>2, SizedNow, EveryPairReached DEF Its, CallOf
  <2> QED BY <1>1, <2>3 DEF KernelInv, PastIsCalled
<1>2. KernelInv => \A i \in 1..Len(calls) : calls[i].state0 \in LowerStates
  BY CallsIdentified DEF IsPair, LowerStates, States
<1>3. KernelInv => NoPairMissed
  BY <1>1, <1>2 DEF NoPairMissed
<1> QED BY <1>3, KernelAlways, PTL
===============================================================================
