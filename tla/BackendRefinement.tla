--------------------------- MODULE BackendRefinement ---------------------------
(***************************************************************************)
(* The compressed back end implements the state vector, for every number   *)
(* of qubits, chunk width, number of slots and set of operations.  The     *)
(* invariant that carries the proof says of every amplitude what it is in  *)
(* the middle of an operation: what the operation found, until the one     *)
(* iteration that sets it is over, and what the operation's matrix makes   *)
(* of it from then on.  It needs what the operation keeps beside the       *)
(* chunks: half of a pair, the sum of the chunks before an inversion's     *)
(* second pass, and the rows a gate read of a block it has yet to write.   *)
(* The loops of the dense back end set the same outcome part by part, so   *)
(* both back ends hold the same vector.                                    *)
(***************************************************************************)
EXTENDS CompressedBackendProofs, BackendParity

-------------------------------------------------------------------------------
(* What the steps of the cache do to the vector.                           *)

(* The codec gives back what it was given, so only a write through a       *)
(* handle and an initialisation change what a chunk reads.                 *)
LEMMA ChunksRead ==
  ASSUME CP!Coherent
  PROVE  /\ \A k \in 1..2, c \in Chunks : Cache!Acquire(k, c) => Cache!Content' = Cache!Content
         /\ \A n \in 0..size : Cache!FlushUpTo(n) => Cache!Content' = Cache!Content
         /\ \A h \in {first, second}, d \in Buffer :
              Cache!WriteThrough(h, d) =>
                h.chunk \in Chunks /\ Cache!Content' = [Cache!Content EXCEPT ![h.chunk] = d]
         /\ \A data \in [Chunks -> Buffer] : Cache!Configure(data) => Cache!Content' = data
<1>1. CP!Careful
  BY DEF CP!Careful
<1>2. \A d \in Buffer : [x \in Buffer |-> x][d] = d
  OBVIOUS
<1>3. CP!Content = Cache!Content
  BY DEF CP!Content, Cache!Content, CP!NoSlot, Cache!NoSlot
<1>4. CP!Content' = Cache!Content'
  BY DEF CP!Content, Cache!Content, CP!NoSlot, Cache!NoSlot
<1>5. /\ \A k \in 1..2, c \in Chunks : CP!Acquire(k, c) => CP!Content' = CP!Content
      /\ \A n \in 0..size : CP!FlushUpTo(n) => CP!Content' = CP!Content
      /\ \A h \in {first, second}, d \in Buffer :
              CP!WriteThrough(h, d) =>
                h.chunk \in Chunks /\ CP!Content' = [CP!Content EXCEPT ![h.chunk] = d]
      /\ \A data \in [Chunks -> Buffer] : CP!Configure(data) => CP!Content' = data
  BY <1>1, <1>2, CacheFits, CP!LosslessReads
<1>6. \A k \in 1..2, c \in Chunks : Cache!Acquire(k, c) => Cache!Content' = Cache!Content
  BY <1>3, <1>4, <1>5, AcquireSame
<1>7. \A n \in 0..size : Cache!FlushUpTo(n) => Cache!Content' = Cache!Content
  BY <1>3, <1>4, <1>5, FlushSame
<1>8. \A h \in {first, second}, d \in Buffer :
        Cache!WriteThrough(h, d) =>
          h.chunk \in Chunks /\ Cache!Content' = [Cache!Content EXCEPT ![h.chunk] = d]
  BY <1>3, <1>4, <1>5, WriteSame
<1>9. \A data \in [Chunks -> Buffer] : Cache!Configure(data) => Cache!Content' = data
  BY <1>4, <1>5, ConfigureSame
<1> QED BY <1>6, <1>7, <1>8, <1>9

(* The vector is read from the chunks and from nothing else.               *)
LEMMA VectorRead ==
  ASSUME CP!Coherent, Cache!Content' = Cache!Content
  PROVE  Vector' = Vector
BY DEF Vector

(* No two states live in the same place.                                   *)
LEMMA SameRef ==
  ASSUME NEW s \in States, NEW t \in States, StateRef(Layout, s) = StateRef(Layout, t)
  PROVE  s = t
<1>1. s \in Nat /\ t \in Nat /\ ChunkStates \in Nat \ {0} /\ Layout.width = ChunkStates
  BY StateNumbers, SizesNow
<1>2. s \div ChunkStates = t \div ChunkStates /\ (s % ChunkStates) = (t % ChunkStates)
  BY <1>1 DEF StateRef
<1>3. /\ s = ChunkStates * (s \div ChunkStates) + (s % ChunkStates)
      /\ t = ChunkStates * (t \div ChunkStates) + (t % ChunkStates)
  BY <1>1, Division
<1> QED BY <1>2, <1>3

\* A state's amplitude, and what a handle for its chunk holds of it.
LEMMA HeldState ==
  ASSUME CP!Coherent, NEW s \in States, NEW h \in {first, second}, h # Cache!NoHandle,
         h.chunk = StateRef(Layout, s).chunk
  PROVE  /\ Held(h)[StateRef(Layout, s).local] = Vector[s]
         /\ StateRef(Layout, s).local \in 0..(ChunkStates - 1)
<1>1. h.slot \in 1..EffectiveCacheSlots /\ h.slot # 0 /\ chunkToSlot[h.chunk] = h.slot
  BY CoherentParts
<1>2. StateRef(Layout, s).chunk \in Chunks /\ StateRef(Layout, s).local \in 0..(ChunkStates - 1)
  BY StateInLayout DEF InLayout
<1>3. Vector[s] = Cache!Content[h.chunk][StateRef(Layout, s).local]
  BY DEF Vector
<1>4. Cache!Content[h.chunk] = slots[h.slot].buffer
  BY <1>1, <1>2 DEF Cache!Content, Cache!NoSlot
<1> QED BY <1>2, <1>3, <1>4 DEF Held

(* A write through a handle sets the states of its chunk alone.            *)
LEMMA VectorWritten ==
  ASSUME CP!Coherent, NEW h \in {first, second}, NEW d \in Buffer, Cache!WriteThrough(h, d)
  PROVE  \A s \in States :
           Vector'[s] = IF StateRef(Layout, s).chunk = h.chunk
                        THEN d[StateRef(Layout, s).local] ELSE Vector[s]
<1> SUFFICES ASSUME NEW s \in States
             PROVE  Vector'[s] = IF StateRef(Layout, s).chunk = h.chunk
                                 THEN d[StateRef(Layout, s).local] ELSE Vector[s]
  OBVIOUS
<1> DEFINE ref == StateRef(Layout, s)
<1>1. h.chunk \in Chunks /\ Cache!Content' = [Cache!Content EXCEPT ![h.chunk] = d]
  BY ChunksRead
<1>2. ref.chunk \in Chunks
  BY StateInLayout DEF InLayout
<1>3. /\ Vector'[s] = Cache!Content'[ref.chunk][ref.local]
      /\ Vector[s] = Cache!Content[ref.chunk][ref.local]
  BY DEF Vector
<1>4. Cache!Content \in [Chunks -> Buffer]
  BY ContentType
<1> HIDE DEF ref
<1>5. Cache!Content'[ref.chunk] = IF ref.chunk = h.chunk THEN d ELSE Cache!Content[ref.chunk]
  BY <1>1, <1>2, <1>4
<1> QED BY <1>3, <1>5 DEF ref

\* A write of one state's amplitude.
LEMMA StateWritten ==
  ASSUME CP!Coherent, NEW h \in {first, second}, NEW t \in States, NEW a \in Amplitude,
         h.chunk = StateRef(Layout, t).chunk, Held(h) \in Buffer,
         Cache!WriteThrough(h, [Held(h) EXCEPT ![StateRef(Layout, t).local] = a])
  PROVE  \A s \in States : Vector'[s] = IF s = t THEN a ELSE Vector[s]
<1> SUFFICES ASSUME NEW s \in States PROVE Vector'[s] = IF s = t THEN a ELSE Vector[s]
  OBVIOUS
<1> DEFINE k == StateRef(Layout, t).local  d == [Held(h) EXCEPT ![k] = a]
<1>1. k \in 0..(ChunkStates - 1)
  BY StateInLayout DEF InLayout
<1>2. d \in Buffer /\ DOMAIN Held(h) = 0..(ChunkStates - 1)
  BY <1>1, BufferExcept DEF Buffer
<1>3. Vector'[s] = IF StateRef(Layout, s).chunk = h.chunk
                   THEN d[StateRef(Layout, s).local] ELSE Vector[s]
  BY <1>2, VectorWritten
<1>4. h # Cache!NoHandle
  BY DEF Cache!WriteThrough
<1>5. CASE s = t
  BY <1>1, <1>2, <1>3, <1>5
<1>6. CASE StateRef(Layout, s).chunk # h.chunk
  BY <1>3, <1>6
<1>7. CASE StateRef(Layout, s).chunk = h.chunk /\ s # t
  <2>1. StateRef(Layout, s).local # k
    BY <1>7, SameRef DEF StateRef
  <2>2. StateRef(Layout, s).local \in 0..(ChunkStates - 1)
    BY StateInLayout DEF InLayout
  <2>3. d[StateRef(Layout, s).local] = Held(h)[StateRef(Layout, s).local]
    BY <1>2, <2>1, <2>2
  <2>4. Held(h)[StateRef(Layout, s).local] = Vector[s]
    BY <1>4, <1>7, HeldState
  <2> QED BY <1>3, <1>7, <2>3, <2>4
<1> QED BY <1>5, <1>6, <1>7

-------------------------------------------------------------------------------
(* Which amplitudes an iteration sets.                                     *)

Touches(o, it) ==
  CASE o.name \in PairOperations -> {PairCall(o, it).state0, PairCall(o, it).state1}
    [] o.name \in StateOperations -> {o.state}
    [] o.name \in {"Inversion", "InversionMean", "Affine"} ->
         IF it[1] = Write THEN {s \in States : StateRef(Layout, s).chunk = it[2]} ELSE {}
    [] o.name = "Gate" ->
         IF it[2] = Write THEN {BlockState(o.qubits, NumQubits, it[1], it[3])} ELSE {}

\* The amplitude an iteration finds: an initialisation starts from 0.
Found(o, v, s) == IF o.name = "InitBasis" THEN 0 ELSE v[s]

(* Which states an iteration sets, by the kind of operation.               *)
LEMMA PairTouches ==
  ASSUME NEW o, o.name \in PairOperations, NEW it
  PROVE  Touches(o, it) = {PairCall(o, it).state0, PairCall(o, it).state1}
BY DEF Touches, PairOperations, StateOperations

LEMMA ChunkTouches ==
  ASSUME NEW o, o.name \in {"Inversion", "InversionMean", "Affine"}, NEW it
  PROVE  Touches(o, it)
           = IF it[1] = Write THEN {s \in States : StateRef(Layout, s).chunk = it[2]} ELSE {}
BY DEF Touches, PairOperations, StateOperations

LEMMA GateTouches ==
  ASSUME NEW o, o.name = "Gate", NEW it
  PROVE  Touches(o, it)
           = IF it[2] = Write THEN {BlockState(o.qubits, NumQubits, it[1], it[3])} ELSE {}
BY DEF Touches, PairOperations, StateOperations

LEMMA StateTouches ==
  ASSUME NEW o, o.name \in StateOperations, NEW it
  PROVE  Touches(o, it) = {o.state} /\ Work(o) = {<<Write>>}
BY DEF Touches, Work, PairOperations, StateOperations

(* The iterations of the loops, by the kind of operation.                  *)
LEMMA PairWork ==
  ASSUME NEW o, o.name \in PairOperations
  PROVE  Work(o) = Iterations(Mode(o), Layout, TargetMask(o))
BY DEF Work, PairOperations, StateOperations

LEMMA ChunkWork ==
  ASSUME NEW o, o.name \in {"Inversion", "InversionMean", "Affine"}
  PROVE  /\ \A it \in Work(o) : it = <<it[1], it[2]>> /\ it[1] \in {Read, Write} /\ it[2] \in Chunks
         /\ \A c \in Chunks : <<Write, c>> \in Work(o)
         /\ \A c \in Chunks : <<Read, c>> \in Work(o) <=> o.name = "Inversion"
BY DEF Work, PairOperations, StateOperations, Read, Write

LEMMA GateWork ==
  ASSUME NEW o, o.name = "Gate", NEW k \in 0..NumQubits, SizedFor(o, k)
  PROVE  /\ \A it \in Work(o) : /\ it = <<it[1], it[2], it[3]>> /\ it[1] \in Blocks(k)
                                /\ it[2] \in {Read, Write} /\ it[3] \in Rows(2^k)
         /\ \A b \in Blocks(k), pass \in {Read, Write}, r \in Rows(2^k) : <<b, pass, r>> \in Work(o)
<1>1. Work(o) = Blocks(k) \X {Read, Write} \X Rows(2^k)
  BY DEF Work, PairOperations, StateOperations, SizedFor, Blocks
<1> QED BY <1>1

(* Every amplitude is set by one iteration at most.                        *)
LEMMA Apart ==
  ASSUME NEW o, WellFormed(o), NEW it \in Work(o), NEW jt \in Work(o),
         NEW s, s \in Touches(o, it), s \in Touches(o, jt)
  PROVE  it = jt
<1>1. CASE o.name \in PairOperations
  <2> DEFINE c == PairCall(o, it)  d == PairCall(o, jt)
  <2>1. IsPairOf(Target(o), c.state0, c.state1) /\ IsPairOf(Target(o), d.state0, d.state1)
    BY <1>1, CallOfPair
  <2>2. s \in {c.state0, c.state1} /\ s \in {d.state0, d.state1}
    BY <1>1, PairTouches
  <2> HIDE DEF c, d
  <2>3. /\ Digit(c.state0, Place(Target(o))) = 0 /\ Digit(c.state1, Place(Target(o))) = 1
        /\ Digit(d.state0, Place(Target(o))) = 0 /\ Digit(d.state1, Place(Target(o))) = 1
        /\ c.state1 = c.state0 + Promise!Mask(Target(o))
        /\ d.state1 = d.state0 + Promise!Mask(Target(o))
        /\ c.state0 \in Nat /\ d.state0 \in Nat
    BY <2>1, StateNumbers DEF IsPairOf
  <2>4. Promise!Mask(Target(o)) \in Nat
    BY <1>1, CallOfPair, BitIsDigit
  <2>5. (c.state0 = d.state0) \/ (c.state1 = d.state1)
    BY <2>2, <2>3
  <2>6. c.state0 = d.state0
    BY <2>3, <2>4, <2>5
  <2>7. /\ it \in Iterations(Mode(o), Layout, TargetMask(o))
        /\ jt \in Iterations(Mode(o), Layout, TargetMask(o))
    BY <1>1, PairWork
  <2>8. Call(Mode(o), Layout, TargetMask(o), it).state0 = Call(Mode(o), Layout, TargetMask(o), jt).state0
    BY <2>6 DEF c, d, PairCall
  <2>9. Sized(Layout, TargetMask(o)) /\ Mode(o) \in Chosen(Layout, TargetMask(o))
    BY <1>1, TargetSized
  <2> DEFINE m == Mode(o)  lay == Layout  mask == TargetMask(o)
  <2>10. /\ Sized(lay, mask) /\ m \in Chosen(lay, mask)
         /\ it \in Iterations(m, lay, mask) /\ jt \in Iterations(m, lay, mask)
         /\ Call(m, lay, mask, it).state0 = Call(m, lay, mask, jt).state0
    BY <2>7, <2>8, <2>9
  <2> HIDE DEF m, lay, mask
  <2> QED BY <2>10, PairTellsIteration
<1>2. CASE o.name \in StateOperations
  BY <1>2, StateTouches
<1>3. CASE o.name \in {"Inversion", "InversionMean", "Affine"}
  <2>1. it[1] = Write /\ jt[1] = Write /\ StateRef(Layout, s).chunk = it[2]
        /\ StateRef(Layout, s).chunk = jt[2]
    BY <1>3, ChunkTouches
  <2>2. it = <<it[1], it[2]>> /\ jt = <<jt[1], jt[2]>>
    BY <1>3, ChunkWork
  <2>3. it[1] = jt[1] /\ it[2] = jt[2]
    BY <2>1
  <2> QED BY <2>2, <2>3, ZenonT(20)
<1>4. CASE o.name = "Gate"
  <2>1. PICK k \in 0..NumQubits : SizedFor(o, k)
    BY <1>4, GateSized DEF WellFormed, PairOperations
  <2>2. /\ it = <<it[1], it[2], it[3]>> /\ it[1] \in Blocks(k) /\ it[3] \in Rows(2^k)
        /\ jt = <<jt[1], jt[2], jt[3]>> /\ jt[1] \in Blocks(k) /\ jt[3] \in Rows(2^k)
    BY <1>4, <2>1, GateWork
  <2>3. /\ it[2] = Write /\ jt[2] = Write
        /\ s = BlockState(o.qubits, NumQubits, it[1], it[3])
        /\ s = BlockState(o.qubits, NumQubits, jt[1], jt[3])
    BY <1>4, GateTouches
  <2>4. o.qubits \in QubitLists(k)
    BY <2>1 DEF SizedFor
  <2> DEFINE q == o.qubits  b1 == it[1]  r1 == it[3]  b2 == jt[1]  r2 == jt[3]
  <2>6. /\ q \in QubitLists(k) /\ b1 \in Blocks(k) /\ b2 \in Blocks(k)
        /\ r1 \in Rows(2^k) /\ r2 \in Rows(2^k)
        /\ BlockState(q, NumQubits, b1, r1) = BlockState(q, NumQubits, b2, r2)
    BY <2>2, <2>3, <2>4
  <2>5. b1 = b2 /\ r1 = r2
    <3> HIDE DEF q, b1, b2, r1, r2
    <3> QED BY <2>6, BlocksApart
  <2> QED BY <2>2, <2>3, <2>5
<1>5. CASE o.name = "Load"
  BY <1>5 DEF Work, StateOperations, PairOperations
<1> QED BY <1>1, <1>2, <1>3, <1>4, <1>5, OperationKinds

(* Every state belongs to a pair that is visited.                          *)
LEMMA PairReached ==
  ASSUME NEW o, WellFormed(o), o.name \in PairOperations, NEW s \in States
  PROVE  \E it \in Work(o) : s \in Touches(o, it)
<1> DEFINE q == Target(o)  i == Place(q)
<1>0. q \in Qubits /\ TargetMask(o) = Promise!Mask(q)
  <2>1. \E it : it \in Work(o)
    <3>1. Work(o) # {}
      BY WorkExists DEF PairOperations
    <3> QED BY <3>1
  <2>2. q \in Qubits
    BY <2>1, CallOfPair
  <2> QED BY <2>2, BitIsDigit DEF TargetMask, Target
<1>1. /\ Promise!Mask(q) = 2^i /\ 2^i \in Nat \ {0}
      /\ \A t : Promise!Bit(t, q) = Digit(t, i)
  BY <1>0, BitIsDigit DEF Place
<1>2. s \in Nat /\ s < 2^NumQubits /\ NumQubits \in 0..NumQubits /\ i \in 0..(NumQubits - 1)
      /\ i \in 0..NumQubits
  BY <1>0, StateNumbers DEF Qubits, Place
<1>3. ASSUME NEW t \in States, Digit(t, i) = 0
      PROVE  \E it \in Work(o) : PairCall(o, it).state0 = t
  <2>1. t \in 0..(Layout.states - 1) /\ ((t \div TargetMask(o)) % 2) = 0
    BY <1>0, <1>1, <1>3, SizesNow DEF States, Promise!Bit
  <2>2. \E it \in Iterations(Mode(o), Layout, TargetMask(o)) :
          Call(Mode(o), Layout, TargetMask(o), it).state0 = t
    BY <2>1, TargetSized, EveryPairReached
  <2> QED BY <2>2, PairWork DEF PairCall
<1> HIDE DEF i, q
<1>4. CASE Digit(s, i) = 0
  BY <1>3, <1>4, PairTouches
<1>5. CASE Digit(s, i) = 1
  <2> DEFINE t == s - 2^i
  <2>1. t \in Int /\ t = s + (0 - Digit(s, i)) * 2^i
    BY <1>1, <1>2, <1>5
  <2>2. t \in Nat /\ t < 2^NumQubits /\ Digit(t, i) = 0
    <3>1. 0 \in {0, 1}
      OBVIOUS
    <3> HIDE DEF t
    <3> QED BY <1>2, <2>1, <3>1, WriteDigit
  <2>3. t \in States
    BY <2>2, StateNumbers
  <2>4. PICK it \in Work(o) : PairCall(o, it).state0 = t
    BY <1>3, <2>2, <2>3
  <2>5. PairCall(o, it).state1 = t + 2^i
    BY <1>1, <2>4, CallOfPair DEF IsPairOf, q
  <2>6. PairCall(o, it).state1 = s
    BY <1>1, <1>2, <2>5
  <2> QED BY <2>6, PairTouches
<1> QED BY <1>2, <1>4, <1>5, DigitType

(* The amplitudes no iteration sets are what they have to be.              *)
LEMMA Untouched ==
  ASSUME NEW o, WellFormed(o), o.name # "Load", NEW v \in Vectors, NEW s \in States,
         \A it \in Work(o) : s \notin Touches(o, it)
  PROVE  Promise!Result(o, v)[s] = Found(o, v, s)
<1>1. CASE o.name \in PairOperations
  BY <1>1, PairReached
<1>2. CASE o.name \in StateOperations
  <2>1. s # o.state
    BY <1>2, StateTouches
  <2> QED BY <1>2, <2>1, VectorOutcomes DEF Vectors, Found, StateOperations
<1>3. CASE o.name \in {"Inversion", "InversionMean", "Affine"}
  <2>1. StateRef(Layout, s).chunk \in Chunks
    BY StateInLayout DEF InLayout
  <2>2. <<Write, StateRef(Layout, s).chunk>> \in Work(o)
    BY <1>3, <2>1, ChunkWork
  <2> QED BY <1>3, <2>2, ChunkTouches
<1>4. CASE o.name = "Gate"
  <2>1. PICK k \in 0..NumQubits : SizedFor(o, k)
    BY <1>4, GateSized DEF WellFormed, PairOperations
  <2>2. PICK b \in Blocks(k), r \in Rows(2^k) : BlockState(o.qubits, NumQubits, b, r) = s
    BY <2>1, BlocksReach DEF SizedFor
  <2>3. <<b, Write, r>> \in Work(o)
    BY <1>4, <2>1, GateWork
  <2> QED BY <1>4, <2>2, <2>3, GateTouches
<1> QED BY <1>1, <1>2, <1>3, <1>4, OperationKinds

(* An iteration sets both amplitudes that change together, or neither.     *)
LEMMA PartnerTouched ==
  ASSUME NEW o, WellFormed(o), o.name \in {"H", "X", "CNOT"}, NEW s \in States
  PROVE  /\ Promise!Partner(o, s) \in States
         /\ \A it \in Work(o) : s \in Touches(o, it) <=> Promise!Partner(o, s) \in Touches(o, it)
<1>1. o.name \in PairOperations
  BY DEF PairOperations
<1>2. PICK it \in Work(o) : s \in Touches(o, it)
  BY <1>1, PairReached
<1> DEFINE q == Target(o)  c == PairCall(o, it)
<1>3. q \in Qubits /\ IsPairOf(q, c.state0, c.state1) /\ s \in {c.state0, c.state1}
  BY <1>1, <1>2, CallOfPair, PairTouches
<1>4. Promise!Partner(o, s)
        = IF Promise!Bit(s, q) = 0 THEN s + Promise!Mask(q) ELSE s - Promise!Mask(q)
  BY DEF Promise!Partner, Target
<1>5. Promise!Bit(s, q) = Digit(s, Place(q)) /\ Promise!Mask(q) \in Nat
  BY <1>3, BitIsDigit DEF Place
<1>6. Touches(o, it) = {c.state0, c.state1}
  BY <1>1, PairTouches
<1> HIDE DEF c, q
<1>7. Promise!Partner(o, s) \in {c.state0, c.state1} /\ c.state0 \in States /\ c.state1 \in States
  <2>1. /\ c.state0 \in Nat /\ c.state1 = c.state0 + Promise!Mask(q)
        /\ Digit(c.state0, Place(q)) = 0 /\ Digit(c.state1, Place(q)) = 1
        /\ c.state0 \in States /\ c.state1 \in States
    BY <1>3, StateNumbers DEF IsPairOf
  <2>2. CASE s = c.state0
    BY <1>4, <1>5, <2>1, <2>2
  <2>3. CASE s = c.state1
    <3>1. Promise!Partner(o, s) = s - Promise!Mask(q)
      BY <1>4, <1>5, <2>1, <2>3
    <3> QED BY <1>5, <2>1, <2>3, <3>1
  <2> QED BY <1>3, <2>1, <2>2, <2>3
<1>8. \A jt \in Work(o) : s \in Touches(o, jt) => jt = it
  BY <1>2, Apart
<1>9. \A jt \in Work(o) : Promise!Partner(o, s) \in Touches(o, jt) => jt = it
  BY <1>6, <1>7, Apart
<1> QED BY <1>2, <1>6, <1>7, <1>8, <1>9

-------------------------------------------------------------------------------
(* The inductive invariant of the amplitudes.                              *)

InProgress == phase \in {"first", "second", "apply", "write second", "finish"}

Outcome == Promise!Result(op, before)

\* What an amplitude has to be: found until an iteration sets it, then the
\* outcome.
Pending(s) == \E it \in todo : s \in Touches(op, it)
Expected(s) == IF Pending(s) THEN Found(op, before, s) ELSE Outcome[s]

\* Between the two writes of a pair, its amplitudes are apart.
HalfDone(s) == phase = "write second" /\ s \in Touches(op, Earliest(todo))

VectorFits ==
  /\ phase = "configure" => Vector = before
  /\ InProgress => \A s \in States : ~HalfDone(s) => Vector[s] = Expected(s)

HalfFits ==
  phase = "write second" =>
    LET call == PairCall(op, Earliest(todo))
    IN Vector[call.state0] = Outcome[call.state0] /\ local[0] = Outcome[call.state1]

\* The first pass of an inversion has added up the chunks below m.
SummedUpTo(m) ==
  /\ \A c \in Chunks : <<Read, c>> \in todo <=> m <= c
  /\ local[0] = (Prefix(before, ChunksEnd(m)) % 17)

SumFits ==
  InProgress /\ op.name = "Inversion" =>
    /\ \E m \in 0..ChunkCount(Layout) : SummedUpTo(m)
    /\ \A c, d \in Chunks : <<Read, c>> \in todo => <<Write, d>> \in todo

\* A gate's block is written after it is read, from what was read.
Reading(b) == \E r \in Rows(BlockSize(op.qubits)) : <<b, Read, r>> \in todo
Writing(b) == \E r \in Rows(BlockSize(op.qubits)) : <<b, Write, r>> \in todo

BlockFits ==
  InProgress /\ op.name = "Gate" =>
    /\ \A it \in Work(op) : it[2] = Write /\ Reading(it[1]) => it \in todo
    /\ \A it \in Work(op) :
         it[2] = Read /\ it \notin todo /\ Writing(it[1]) =>
           local[it[3]] = before[BlockState(op.qubits, NumQubits, it[1], it[3])]
    /\ \A it \in todo, jt \in Work(op) : it[1] < jt[1] => jt \in todo

\* A back end being initialised has an empty cache.
FreshCache == op.name = "InitBasis" /\ phase = "first" => size = 0
LocalClear == op = Idle => local = NoAmplitudes

ValueInv == VectorFits /\ HalfFits /\ SumFits /\ BlockFits /\ FreshCache /\ LocalClear

(* The outcome is settled when the operation starts.                       *)
LEMMA OutcomeLater ==
  ASSUME op' = op, before' = before
  PROVE  Outcome' = Outcome
BY DEF Outcome

\* What holds of the amplitudes between operations.
LEMMA QuietValues ==
  ASSUME op = Idle, phase \in {"idle", "failed"}, local = NoAmplitudes
  PROVE  ValueInv
BY Zenon DEF ValueInv, VectorFits, HalfFits, SumFits, BlockFits, FreshCache, LocalClear, InProgress, Idle

(* An operation that ends or throws leaves nothing behind.                 *)
LEMMA QuitValues ==
  ASSUME NEW how \in {"idle", "failed"}, Quit(how)
  PROVE  ValueInv'
<1>1. op' = Idle /\ phase' \in {"idle", "failed"} /\ local' = NoAmplitudes
  BY DEF Quit
<1> QED BY Zenon, <1>1 DEF ValueInv, VectorFits, HalfFits, SumFits, BlockFits, FreshCache, LocalClear,
                    InProgress, Idle, NoAmplitudes

\* An iteration's step that sets what the iteration is to set.
Sets(it) ==
  \A s \in States : Vector'[s] = IF s \in Touches(op, it) THEN Outcome[s] ELSE Vector[s]

\* What an iteration skipped would set is there.
Needless(skipped) ==
  \A it \in skipped, s \in States :
    it \in todo /\ s \in Touches(op, it) => Outcome[s] = Found(op, before, s)

(* An iteration that sets its states, and skips only iterations that       *)
(* have nothing to set, keeps every amplitude as it has to be.             *)
LEMMA IterationSets ==
  ASSUME LoopInv, VectorFits, phase \in {"apply", "write second"}, NEW skipped,
         EndIteration(skipped), Sets(Earliest(todo)), Needless(skipped)
  PROVE  VectorFits'
<1> DEFINE it == Earliest(todo)
<1>1. /\ WellFormed(op) /\ it \in todo /\ todo \subseteq Work(op)
  BY Zenon, Running
<1>2. /\ todo' = (todo \ {it}) \ skipped
      /\ phase' \in {"finish", "apply", "first"}
      /\ op' = op /\ before' = before
  BY Zenon DEF EndIteration, NextPhase
<1>3. Outcome' = Outcome
  BY Zenon, <1>2, OutcomeLater
<1> SUFFICES ASSUME NEW s \in States PROVE Vector'[s] = Expected(s)'
  BY Zenon, <1>2 DEF VectorFits
<1>4. Expected(s)' = IF \E jt \in todo' : s \in Touches(op, jt) THEN Found(op, before, s) ELSE Outcome[s]
  BY Zenon, <1>2, <1>3 DEF Expected, Pending
<1>5. CASE s \in Touches(op, it)
  <2>1. \A jt \in todo' : s \notin Touches(op, jt)
    BY Zenon, <1>1, <1>2, <1>5, Apart
  <2> QED BY Zenon, <1>4, <1>5, <2>1 DEF Sets
<1>6. CASE s \notin Touches(op, it)
  <2>1. Vector'[s] = Vector[s]
    BY Zenon, <1>6 DEF Sets
  <2>2. Vector[s] = Expected(s)
    BY Zenon, <1>6 DEF VectorFits, InProgress, HalfDone
  <2>3. CASE \E jt \in todo' : s \in Touches(op, jt)
    BY Zenon, <1>2, <1>4, <2>1, <2>2, <2>3 DEF Expected, Pending
  <2>4. CASE ~Pending(s)
    BY Zenon, <1>2, <1>4, <2>1, <2>2, <2>4 DEF Expected, Pending
  <2>5. CASE Pending(s) /\ ~\E jt \in todo' : s \in Touches(op, jt)
    <3>1. PICK jt \in todo : s \in Touches(op, jt)
      BY Zenon, <2>5 DEF Pending
    <3>2. jt \in skipped
      BY Zenon, <1>2, <1>6, <2>5, <3>1
    <3>3. Outcome[s] = Found(op, before, s)
      BY Zenon, <3>1, <3>2 DEF Needless
    <3> QED BY Zenon, <1>4, <2>1, <2>2, <2>5, <3>3 DEF Expected
  <2> QED BY Zenon, <2>3, <2>4, <2>5
<1> QED BY Zenon, <1>5, <1>6

\* Operations that keep nothing beside the chunks.
LEMMA PlainValues ==
  ASSUME VectorFits', HalfFits', op' = op, op # Idle, op.name \notin {"Inversion", "Gate"},
         op.name = "InitBasis" => phase' # "first"
  PROVE  ValueInv'
BY DEF ValueInv, SumFits, BlockFits, FreshCache, LocalClear, Idle

\* The states of a pair, where they live and what they hold.
LEMMA PairAtHand ==
  ASSUME LoopInv, phase \in {"apply", "write second"}, op.name \in PairOperations
  PROVE  LET call == PairCall(op, Earliest(todo))
             h1 == IF call.ref0.chunk = call.ref1.chunk THEN first ELSE second
         IN /\ call.state0 \in States /\ call.state1 \in States /\ call.state0 # call.state1
            /\ call.ref0 = StateRef(Layout, call.state0) /\ call.ref1 = StateRef(Layout, call.state1)
            /\ Touches(op, Earliest(todo)) = {call.state0, call.state1}
            /\ first # Cache!NoHandle /\ first.chunk = call.ref0.chunk /\ Held(first) \in Buffer
            /\ h1 # Cache!NoHandle /\ h1.chunk = call.ref1.chunk /\ Held(h1) \in Buffer
            /\ Held(first)[call.ref0.local] = Vector[call.state0]
            /\ Held(h1)[call.ref1.local] = Vector[call.state1]
<1> DEFINE it == Earliest(todo)  call == PairCall(op, it)
           h1 == IF call.ref0.chunk = call.ref1.chunk THEN first ELSE second
<1>1. WellFormed(op) /\ it \in Work(op) /\ CP!Coherent
  BY Zenon, Running
<1>2. call.state0 \in States /\ call.state1 \in States /\ call.state0 # call.state1
  <2>1. before \in Vectors
    BY Zenon DEF LoopInv, TypeOK, Vectors
  <2> QED BY Zenon, <1>1, <2>1, PairOutcome
<1>3. call.ref0 = StateRef(Layout, call.state0) /\ call.ref1 = StateRef(Layout, call.state1)
  BY Zenon, <1>1, CallOfPair
<1>4. Touches(op, it) = {call.state0, call.state1}
  BY Zenon, PairTouches
<1>5. /\ FirstRef(op, it) = call.ref0
      /\ call.ref0.chunk # call.ref1.chunk => TwoHandles(op)
  BY Zenon, <1>1, PairInLayout DEF TwoHandles
<1>6. /\ first # Cache!NoHandle /\ first.chunk = call.ref0.chunk /\ Held(first) \in Buffer
      /\ h1 # Cache!NoHandle /\ h1.chunk = call.ref1.chunk /\ Held(h1) \in Buffer
  BY Zenon, <1>5, KeptHandles
<1> HIDE DEF call
<1>7. Held(first)[call.ref0.local] = Vector[call.state0]
  BY Zenon, <1>1, <1>2, <1>3, <1>6, HeldState
<1>8. Held(h1)[call.ref1.local] = Vector[call.state1]
  BY Zenon, <1>1, <1>2, <1>3, <1>6, HeldState
<1> QED BY Zenon, <1>2, <1>3, <1>4, <1>6, <1>7, <1>8 DEF call

\* A write of both amplitudes of a pair in one chunk.
BothSet(d, s, t, a, b) ==
  d = [Held(first) EXCEPT ![StateRef(Layout, s).local] = a, ![StateRef(Layout, t).local] = b]

BothHold(s, t, a, b) ==
  \A r \in States : Vector'[r] = IF r = s THEN a ELSE IF r = t THEN b ELSE Vector[r]

(* Two amplitudes written into one chunk are two of the vector.            *)
LEMMA BothWritten ==
  ASSUME CP!Coherent, first # Cache!NoHandle, Held(first) \in Buffer,
         NEW s \in States, NEW t \in States, s # t,
         first.chunk = StateRef(Layout, s).chunk, first.chunk = StateRef(Layout, t).chunk,
         NEW a \in Amplitude, NEW b \in Amplitude,
         NEW d, Cache!WriteThrough(first, d),
         BothSet(d, s, t, a, b)
  PROVE  BothHold(s, t, a, b)
<1> SUFFICES ASSUME NEW r \in States
             PROVE  Vector'[r] = IF r = s THEN a ELSE IF r = t THEN b ELSE Vector[r]
  BY DEF BothHold
<1> DEFINE k == StateRef(Layout, s).local  l == StateRef(Layout, t).local
           n == StateRef(Layout, r).local
<1>0. d = [Held(first) EXCEPT ![k] = a, ![l] = b]
  BY DEF BothSet
<1>1. k \in 0..(ChunkStates - 1) /\ l \in 0..(ChunkStates - 1) /\ n \in 0..(ChunkStates - 1)
  BY StateInLayout DEF InLayout
<1>2. \A x \in {s, t} : StateRef(Layout, r).chunk = first.chunk /\ r # x => n # StateRef(Layout, x).local
  BY SameRef DEF StateRef
<1>3. k # l
  BY SameRef DEF StateRef
<1> HIDE DEF k, l, n
<1>4. DOMAIN Held(first) = 0..(ChunkStates - 1)
  BY DEF Buffer
<1>5. d[k] = a /\ d[l] = b /\ (n # k /\ n # l => d[n] = Held(first)[n])
  BY <1>0, <1>1, <1>3, <1>4
<1>6. d \in Buffer
  <2> DEFINE e == [Held(first) EXCEPT ![k] = a]
  <2>1. e \in Buffer
    BY <1>1, BufferExcept
  <2>2. d = [e EXCEPT ![l] = b]
    BY <1>0
  <2> HIDE DEF e
  <2>3. [e EXCEPT ![l] = b] \in Buffer
    BY <1>1, <2>1, BufferExcept
  <2> QED BY <2>2, <2>3
<1>7. Vector'[r] = IF StateRef(Layout, r).chunk = first.chunk THEN d[n] ELSE Vector[r]
  BY <1>6, VectorWritten DEF n
<1>8. StateRef(Layout, r).chunk = first.chunk => Held(first)[n] = Vector[r]
  BY HeldState DEF n
<1> QED BY <1>2, <1>5, <1>7, <1>8 DEF k, l, n

\* What an iteration reads is still what the operation found.
LEMMA StillFound ==
  ASSUME LoopInv, VectorFits, phase = "apply", NEW it \in todo, NEW s \in States, s \in Touches(op, it)
  PROVE  Vector[s] = Found(op, before, s)
BY DEF VectorFits, InProgress, HalfDone, Expected, Pending

(* The steps of a traversal of pairs.                                      *)
LEMMA ApplyPairValues == LoopInv /\ ValueInv /\ ApplyPair => ValueInv'
<1> SUFFICES ASSUME LoopInv, ValueInv, ApplyPair PROVE ValueInv'
  OBVIOUS
<1> DEFINE it == Earliest(todo)
           call == PairCall(op, it)
           s == call.state0  t == call.state1
           one == call.ref0.chunk = call.ref1.chunk
           h1 == IF one THEN first ELSE second
           held == PairBody(op, call, Held(first)[call.ref0.local], Held(h1)[call.ref1.local])
           body == PairBody(op, call, before[s], before[t])
           a == body.amps[1]  b == body.amps[2]
<1>1. phase = "apply" /\ op.name \in PairOperations /\ VectorFits
  BY Zenon DEF ApplyPair, ValueInv
<1>2. /\ WellFormed(op) /\ op # Idle /\ it \in Work(op) /\ it \in todo /\ CP!Coherent
      /\ op.name \notin {"Inversion", "Gate", "InitBasis"} /\ before \in Vectors
      /\ local \in Kept
  BY <1>1, Running DEF PairOperations, LoopInv, TypeOK, Vectors
<1>3. /\ s \in States /\ t \in States /\ s # t
      /\ call.ref0 = StateRef(Layout, s) /\ call.ref1 = StateRef(Layout, t)
      /\ Touches(op, it) = {s, t}
      /\ first # Cache!NoHandle /\ first.chunk = call.ref0.chunk /\ Held(first) \in Buffer
      /\ h1 # Cache!NoHandle /\ h1.chunk = call.ref1.chunk /\ Held(h1) \in Buffer
      /\ Held(first)[call.ref0.local] = Vector[s] /\ Held(h1)[call.ref1.local] = Vector[t]
  BY <1>1, PairAtHand
<1>4. Vector[s] = before[s] /\ Vector[t] = before[t]
  BY <1>1, <1>2, <1>3, StillFound DEF Found
<1>5. held = body
  BY <1>3, <1>4
<1>6. /\ Outcome[s] = a /\ Outcome[t] = b
      /\ ~body.first => a = before[s]
      /\ ~body.second => b = before[t]
      /\ body.first => body.second
  BY <1>1, <1>2, PairOutcome DEF Outcome
<1>7. a \in Amplitude /\ b \in Amplitude
  <2>1. before[s] \in Amplitude /\ before[t] \in Amplitude
    BY <1>2, <1>3 DEF Vectors
  <2> QED BY <1>1, <1>2, <2>1, PairBodyType
<1> DEFINE d1 == [Held(first) EXCEPT ![call.ref0.local] = a]
           d2 == [Held(first) EXCEPT ![call.ref0.local] = a, ![call.ref1.local] = b]
           hold == /\ local' = [local EXCEPT ![0] = b]
                   /\ phase' = "write second"
                   /\ UNCHANGED <<request, op, todo, before, clientVars>>
<1>8. \/ ~body.first /\ ~body.second /\ UNCHANGED <<cacheVars, local>> /\ EndIteration({})
      \/ one /\ body.second /\ Cache!WriteThrough(first, d2) /\ local' = local /\ EndIteration({})
      \/ ~one /\ body.first /\ Cache!WriteThrough(first, d1) /\ hold
      \/ ~one /\ ~body.first /\ body.second /\ UNCHANGED cacheVars /\ hold
  <2>1. \/ ~held.first /\ ~held.second /\ UNCHANGED <<cacheVars, local>> /\ EndIteration({})
        \/ /\ one /\ held.second
           /\ Cache!WriteThrough(first, [Held(first) EXCEPT ![call.ref0.local] = held.amps[1],
                                                            ![call.ref1.local] = held.amps[2]])
           /\ local' = local /\ EndIteration({})
        \/ /\ ~one /\ held.first
           /\ Cache!WriteThrough(first, [Held(first) EXCEPT ![call.ref0.local] = held.amps[1]])
           /\ local' = [local EXCEPT ![0] = held.amps[2]]
           /\ phase' = "write second"
           /\ UNCHANGED <<request, op, todo, before, clientVars>>
        \/ /\ ~one /\ ~held.first /\ held.second
           /\ local' = [local EXCEPT ![0] = held.amps[2]]
           /\ phase' = "write second"
           /\ UNCHANGED <<cacheVars, request, op, todo, before, clientVars>>
    BY Zenon DEF ApplyPair
  <2> HIDE DEF held, body, call, it, one
  <2> QED BY Zenon, <1>5, <2>1
<1>9. op' = op
  <2> HIDE DEF d1, d2, body, one
  <2> QED BY Zenon, <1>8 DEF EndIteration
<1>10. Needless({})
  BY DEF Needless
<1> HIDE DEF body, h1, held, s, t, one
<1>11. ASSUME EndIteration({}), Sets(it) PROVE ValueInv'
  <2>1. VectorFits'
    BY <1>1, <1>10, <1>11, IterationSets
  <2>2. phase' # "write second"
    BY <1>11 DEF EndIteration, NextPhase
  <2> QED BY Zenon, <1>2, <1>9, <2>1, <2>2, PlainValues DEF HalfFits
<1>12. CASE ~body.first /\ ~body.second /\ UNCHANGED <<cacheVars, local>> /\ EndIteration({})
  <2>1. Vector' = Vector
    BY <1>12 DEF Vector, Cache!Content, cacheVars
  <2>2. Sets(it)
    BY <1>3, <1>4, <1>6, <1>12, <2>1 DEF Sets
  <2> QED BY <1>11, <1>12, <2>2
<1>13. CASE one /\ body.second /\ Cache!WriteThrough(first, d2) /\ local' = local /\ EndIteration({})
  <2>1. BothHold(s, t, a, b)
    <3>1. first.chunk = StateRef(Layout, s).chunk /\ first.chunk = StateRef(Layout, t).chunk
      BY <1>3, <1>13 DEF one
    <3>2. Cache!WriteThrough(first, d2) /\ BothSet(d2, s, t, a, b)
      BY <1>3, <1>13 DEF BothSet
    <3>3. CP!Coherent /\ s \in States /\ t \in States /\ s # t
      BY <1>2, <1>3
    <3>4. first # Cache!NoHandle /\ Held(first) \in Buffer
      BY <1>3
    <3> HIDE DEF a, b, d1, d2
    <3> QED BY ONLY <1>7, <3>1, <3>2, <3>3, <3>4, BothWritten
  <2>2. Sets(it)
    BY <1>3, <1>6, <2>1 DEF Sets, BothHold
  <2> QED BY <1>11, <1>13, <2>2
<1>14. ASSUME hold, Vector'[s] = a, \A r \in States : r \notin {s, t} => Vector'[r] = Vector[r]
       PROVE  ValueInv'
  <2>1. /\ todo' = todo /\ before' = before /\ phase' = "write second" /\ local'[0] = b
    <3>1. 0 \in 0..(2^NumQubits - 1)
      BY SizesNow
    <3> QED BY Zenon, <1>2, <1>14, <3>1 DEF Kept
  <2>2. Outcome' = Outcome
    BY Zenon, <1>9, <2>1, OutcomeLater
  <2>3. HalfFits'
    <3>1. PairCall(op, Earliest(todo))' = call
      BY Zenon, <1>9, <2>1
    <3>2. Vector'[s] = Outcome[s] /\ local'[0] = Outcome[t]
      BY Zenon, <1>6, <1>14, <2>1
    <3> QED BY Zenon, <2>2, <3>1, <3>2 DEF HalfFits, s, t
  <2>4. VectorFits'
    <3> SUFFICES ASSUME NEW r \in States, ~HalfDone(r)' PROVE Vector'[r] = Expected(r)'
      BY Zenon, <2>1 DEF VectorFits
    <3>1. r \notin {s, t}
      BY Zenon, <1>3, <1>9, <2>1 DEF HalfDone
    <3>2. Vector[r] = Expected(r)
      BY Zenon, <1>1 DEF VectorFits, InProgress, HalfDone
    <3>3. Expected(r)' = Expected(r)
      BY Zenon, <1>9, <2>1, <2>2 DEF Expected, Pending
    <3> QED BY Zenon, <1>14, <3>1, <3>2, <3>3
  <2> QED BY Zenon, <1>2, <1>9, <2>1, <2>3, <2>4, PlainValues
<1>15. CASE ~one /\ body.first /\ Cache!WriteThrough(first, d1) /\ hold
  <2>1. \A r \in States : Vector'[r] = IF r = s THEN a ELSE Vector[r]
    <3>1. first.chunk = StateRef(Layout, s).chunk
      BY <1>3
    <3>2. Cache!WriteThrough(first, [Held(first) EXCEPT ![StateRef(Layout, s).local] = a])
      BY Zenon, <1>3, <1>15
    <3> HIDE DEF a
    <3> QED BY <1>2, <1>3, <1>7, <3>1, <3>2, StateWritten
  <2>2. Vector'[s] = a /\ \A r \in States : r \notin {s, t} => Vector'[r] = Vector[r]
    BY <1>3, <2>1
  <2> QED BY Zenon, <1>14, <1>15, <2>2
<1>16. CASE ~one /\ ~body.first /\ body.second /\ UNCHANGED cacheVars /\ hold
  <2>0. UNCHANGED cacheVars
    BY Zenon, <1>16
  <2>1. Vector' = Vector
    <3> HIDE DEF hold
    <3> QED BY ONLY <2>0 DEF Vector, Cache!Content, cacheVars
  <2>2. Vector'[s] = a /\ \A r \in States : r \notin {s, t} => Vector'[r] = Vector[r]
    BY Zenon, <1>4, <1>6, <1>16, <2>1
  <2> QED BY Zenon, <1>14, <1>16, <2>2
<1> HIDE DEF d1, d2, hold, a, b
<1> QED BY <1>8, <1>12, <1>13, <1>15, <1>16

LEMMA WriteSecondValues == LoopInv /\ ValueInv /\ WriteSecond => ValueInv'
<1> SUFFICES ASSUME LoopInv, ValueInv, WriteSecond PROVE ValueInv'
  OBVIOUS
<1> DEFINE it == Earliest(todo)
           call == PairCall(op, it)
           s == call.state0  t == call.state1
           a == local[0]
<1>1. /\ phase = "write second" /\ EndIteration({})
      /\ Cache!WriteThrough(second, [Held(second) EXCEPT ![call.ref1.local] = a])
  BY Zenon DEF WriteSecond
<1>2. TwoHandles(op) /\ op.name \in PairOperations /\ VectorFits /\ HalfFits
  BY Zenon, <1>1 DEF LoopInv, PhaseFits, TwoHandles, ValueInv
<1>3. /\ WellFormed(op) /\ op # Idle /\ it \in Work(op) /\ it \in todo /\ CP!Coherent
      /\ op.name \notin {"Inversion", "Gate", "InitBasis"} /\ local \in Kept
  BY Zenon, <1>1, <1>2, Running DEF PairOperations
<1>4. /\ s \in States /\ t \in States /\ s # t
      /\ call.ref1 = StateRef(Layout, t) /\ Touches(op, it) = {s, t}
  BY Zenon, <1>1, <1>2, PairAtHand
<1>5. second # Cache!NoHandle /\ second.chunk = StateRef(Layout, t).chunk /\ Held(second) \in Buffer
  BY Zenon, <1>1, <1>2, <1>4, KeptHandles
<1>6. a \in Amplitude
  <2>1. 0 \in 0..(2^NumQubits - 1)
    BY SizesNow
  <2> QED BY <1>3, <2>1 DEF Kept
<1>7. Vector[s] = Outcome[s] /\ a = Outcome[t]
  BY Zenon, <1>1, <1>2 DEF HalfFits
<1> HIDE DEF a, s, t
<1>8. \A r \in States : Vector'[r] = IF r = t THEN a ELSE Vector[r]
  BY Zenon, <1>1, <1>3, <1>4, <1>5, <1>6, StateWritten
<1>9. Sets(it)
  BY <1>4, <1>7, <1>8 DEF Sets
<1>10. VectorFits'
  <2>1. Needless({})
    BY DEF Needless
  <2> QED BY Zenon, <1>1, <1>2, <1>9, <2>1, IterationSets
<1>11. op' = op /\ phase' # "write second"
  BY Zenon, <1>1 DEF EndIteration, NextPhase
<1> QED BY Zenon, <1>3, <1>10, <1>11, PlainValues DEF HalfFits

\* An acquire changes nothing an amplitude depends on.
LEMMA AcquireValues ==
  ASSUME LoopInv, ValueInv, phase \in {"first", "second"}, NEW k \in 1..2, NEW c \in Chunks,
         Cache!Acquire(k, c), phase' \in {"second", "apply"},
         UNCHANGED <<op, todo, local, before>>
  PROVE  ValueInv'
<1>1. Vector' = Vector
  BY ChunksRead, VectorRead DEF LoopInv
<1>2. op # Idle
  BY Zenon, Running
<1>3. Outcome' = Outcome
  BY OutcomeLater
<1>4. VectorFits'
  <2>1. \A s \in States : ~HalfDone(s) /\ Expected(s)' = Expected(s)
    BY Zenon, <1>3 DEF HalfDone, Expected, Pending
  <2> QED BY Zenon, <1>1, <2>1 DEF ValueInv, VectorFits, InProgress
<1>5. SumFits'
  BY Zenon DEF ValueInv, SumFits, SummedUpTo, InProgress
<1>6. BlockFits'
  BY Zenon DEF ValueInv, BlockFits, Reading, Writing, InProgress
<1>7. HalfFits' /\ FreshCache' /\ LocalClear'
  BY Zenon, <1>2 DEF HalfFits, FreshCache, LocalClear, Idle
<1> QED BY <1>4, <1>5, <1>6, <1>7 DEF ValueInv

LEMMA AcquireFirstValues == LoopInv /\ ValueInv /\ AcquireFirst => ValueInv'
<1> SUFFICES ASSUME LoopInv, ValueInv, AcquireFirst PROVE ValueInv'
  OBVIOUS
<1> DEFINE c == FirstRef(op, Earliest(todo)).chunk
<1>1. phase = "first" /\ Cache!Acquire(1, c)
  BY DEF AcquireFirst
<1>2. c \in Chunks
  BY <1>1, Running DEF InLayout
<1> HIDE DEF c
<1>3. CASE first' = Cache!NoHandle
  BY <1>3, QuitValues DEF AcquireFirst, Leave
<1>4. CASE first' # Cache!NoHandle
  <2>1. phase' \in {"second", "apply"} /\ UNCHANGED <<op, todo, local, before>>
    BY <1>4 DEF AcquireFirst
  <2> QED BY <1>1, <1>2, <2>1, AcquireValues
<1> QED BY <1>3, <1>4

LEMMA AcquireSecondValues == LoopInv /\ ValueInv /\ AcquireSecond => ValueInv'
<1> SUFFICES ASSUME LoopInv, ValueInv, AcquireSecond PROVE ValueInv'
  OBVIOUS
<1> DEFINE c == PairCall(op, Earliest(todo)).ref1.chunk
<1>1. phase = "second" /\ Cache!Acquire(2, c)
  BY DEF AcquireSecond
<1>2. c \in Chunks
  <2>1. op.name \in PairOperations /\ WellFormed(op) /\ Earliest(todo) \in Work(op)
    BY <1>1, Running DEF LoopInv, PhaseFits, TwoHandles
  <2> QED BY <2>1, PairInLayout DEF InLayout
<1> HIDE DEF c
<1>3. CASE second' = Cache!NoHandle
  BY <1>3, QuitValues DEF AcquireSecond, Leave
<1>4. CASE second' # Cache!NoHandle
  <2>1. phase' \in {"second", "apply"} /\ UNCHANGED <<op, todo, local, before>>
    BY <1>4 DEF AcquireSecond
  <2> QED BY <1>1, <1>2, <2>1, AcquireValues
<1> QED BY <1>3, <1>4

LEMMA FinishValues == Finish => ValueInv'
<1> SUFFICES ASSUME Finish PROVE ValueInv'
  OBVIOUS
<1>1. \E how \in {"idle", "failed"} : Quit(how)
  BY DEF Finish, Leave, HowFlushed
<1> QED BY <1>1, QuitValues

LEMMA LoadValues == Load => ValueInv'
BY QuitValues DEF Load

(* An operation on one state.                                              *)
LEMMA ApplyToStateValues == LoopInv /\ ValueInv /\ ApplyToState => ValueInv'
<1> SUFFICES ASSUME LoopInv, ValueInv, ApplyToState PROVE ValueInv'
  OBVIOUS
<1> DEFINE it == Earliest(todo)
           s == op.state
           k == FirstRef(op, it).local
           a == IF op.name = "PhaseFlip" THEN Minus(0, Held(first)[k]) ELSE op.value
           d == [Held(first) EXCEPT ![k] = IF op.name = "PhaseFlip" THEN Minus(0, @) ELSE op.value]
<1>1. /\ phase = "apply" /\ op.name \in StateOperations
      /\ Cache!WriteThrough(first, d) /\ local' = local /\ EndIteration({})
  BY DEF ApplyToState
<1>2. /\ WellFormed(op) /\ op # Idle /\ CP!Coherent /\ it \in todo /\ it \in Work(op)
      /\ op.name \notin {"Inversion", "Gate"} /\ s \in States /\ before \in Vectors /\ VectorFits
  BY <1>1, Running DEF StateOperations, WellFormed, PairOperations, LoopInv, TypeOK, Vectors, ValueInv
<1>3. FirstRef(op, it) = StateRef(Layout, s) /\ Touches(op, it) = {s}
  BY <1>1, StateTouches DEF FirstRef, StateOperations, PairOperations
<1>4. /\ first # Cache!NoHandle /\ first.chunk = StateRef(Layout, s).chunk
      /\ Held(first) \in Buffer /\ k = StateRef(Layout, s).local
  BY <1>1, <1>3, KeptHandles
<1>5. Held(first)[k] = Vector[s] /\ Vector[s] = Found(op, before, s)
  <2>1. Held(first)[k] = Vector[s]
    BY <1>2, <1>4, HeldState
  <2>2. s \in Touches(op, it)
    BY <1>3
  <2> QED BY <1>1, <1>2, <2>1, <2>2, StillFound
<1>6. a = Outcome[s]
  <2>1. CASE op.name = "PhaseFlip"
    BY <1>2, <1>5, <2>1, VectorOutcomes DEF Outcome, Vectors, Found
  <2>2. CASE op.name = "SetAmplitude"
    BY <1>2, <2>2, VectorOutcomes DEF Outcome, Vectors
  <2>3. CASE op.name = "InitBasis"
    BY <1>2, <2>3, VectorOutcomes DEF Outcome
  <2> QED BY <1>1, <2>1, <2>2, <2>3 DEF StateOperations
<1>7. a \in Amplitude
  <2>1. Vector[s] \in Int
    BY <1>2, ContentType, AmplitudesAreNumbers
  <2>2. Minus(0, Held(first)[k]) \in Amplitude
    BY <1>5, <2>1, ArithmeticType
  <2>3. op.name # "PhaseFlip" => op.value \in Amplitude
    BY <1>1, <1>2 DEF WellFormed, StateOperations, PairOperations
  <2> QED BY <2>2, <2>3
<1>8. Cache!WriteThrough(first, [Held(first) EXCEPT ![StateRef(Layout, s).local] = a])
  <2>1. d = [Held(first) EXCEPT ![k] = a]
    OBVIOUS
  <2> HIDE DEF d, a, k
  <2> QED BY <1>1, <1>4, <2>1
<1> HIDE DEF a, d, k, s
<1>9. \A r \in States : Vector'[r] = IF r = s THEN a ELSE Vector[r]
  BY <1>2, <1>4, <1>7, <1>8, StateWritten
<1>10. Sets(it)
  BY <1>3, <1>6, <1>9 DEF Sets
<1>11. VectorFits'
  <2>1. Needless({})
    BY DEF Needless
  <2> QED BY <1>1, <1>2, <1>10, <2>1, IterationSets
<1>12. /\ op' = op /\ phase' # "write second"
       /\ phase' # "first"
  <2>1. todo' = {}
    <3>1. todo \subseteq {<<Write>>} /\ it = <<Write>>
      BY <1>1, <1>2, Running, StateTouches
    <3> QED BY <1>1, <3>1 DEF EndIteration
  <2> QED BY <1>1, <2>1 DEF EndIteration, NextPhase
<1> QED BY Zenon, <1>2, <1>11, <1>12, PlainValues DEF HalfFits

ChunkOperations == {"Inversion", "InversionMean", "Affine"}

\* A loop over chunks takes them in order, pass after pass.
LEMMA ChunkOrder ==
  ASSUME NEW o, o.name \in ChunkOperations, NEW S \in SUBSET Work(o), S # {}, NEW jt \in S
  PROVE  LET it == Earliest(S)
         IN it[1] < jt[1] \/ (it[1] = jt[1] /\ it[2] <= jt[2])
<1> DEFINE it == Earliest(S)
<1>1. S \in SUBSET (Nat \X Nat)
  <2>1. Work(o) \subseteq {Read, Write} \X Chunks
    BY DEF Work, StateOperations, PairOperations, ChunkOperations
  <2>2. {Read, Write} \X Chunks \subseteq Nat \X Nat
    BY SizesNow DEF Read, Write
  <2> QED BY <2>1, <2>2
<1>2. it \in S /\ \A q \in S \ {it} : Earlier(it, q)
  BY <1>1, EarliestPair
<1> HIDE DEF it
<1>3. it \in Nat \X Nat /\ jt \in Nat \X Nat
  BY <1>1, <1>2
<1>4. CASE jt # it
  <2>1. Earlier(it, jt)
    BY <1>2, <1>4
  <2>2. it[1] < jt[1] \/ (it[1] = jt[1] /\ it[2] < jt[2])
    BY <1>3, <2>1, EarlierPair
  <2> QED BY <1>3, <2>2 DEF it
<1>5. CASE jt = it
  BY <1>3, <1>5 DEF it
<1> QED BY <1>4, <1>5

\* Where chunks end.
LEMMA ChunkEnds ==
  /\ ChunksEnd(0) = 0
  /\ ChunksEnd(ChunkCount(Layout)) = 2^NumQubits
  /\ \A m \in 0..ChunkCount(Layout) : ChunksEnd(m) \in 0..2^NumQubits
<1> DEFINE n == 2^NumQubits  w == ChunkStates  count == (n + w - 1) \div w
<1>1. n \in Nat \ {0} /\ w \in Nat \ {0} /\ ChunkCount(Layout) = count
  BY SizesNow DEF ChunkCount
<1> HIDE DEF n, w
<1>2. count \in Nat /\ w * count >= n
  <2> DEFINE m == n + w - 1
  <2>1. m \in Nat
    BY <1>1
  <2> HIDE DEF m
  <2>2. m \div w \in Nat /\ m = w * (m \div w) + (m % w) /\ (m % w) \in 0..(w - 1)
    BY <1>1, <2>1, Division
  <2>3. w * (m \div w) \in Nat
    BY <1>1, <2>2
  <2>4. w * (m \div w) >= n
    BY <1>1, <2>2, <2>3 DEF m
  <2> QED BY <2>2, <2>4 DEF m
<1> HIDE DEF count
<1>3. \A m \in Nat : m * w \in Nat /\ m * w = w * m /\ 0 * w = 0
  BY <1>1
<1>4. \A m \in Nat : ChunksEnd(m) = IF m * w < n THEN m * w ELSE n
  BY DEF ChunksEnd, n, w
<1>5. \A m \in Nat : ChunksEnd(m) \in 0..n
  BY <1>1, <1>3, <1>4
<1>6. ChunksEnd(0) = 0
  BY <1>1, <1>3, <1>4
<1>7. ChunksEnd(count) = n
  <2>1. count * w >= n
    BY <1>2, <1>3
  <2> QED BY <1>1, <1>2, <1>3, <1>4, <2>1
<1> QED BY <1>1, <1>2, <1>5, <1>6, <1>7 DEF n

LEMMA ChunkEndsAt ==
  ASSUME CP!Coherent, NEW c \in Chunks
  PROVE  /\ ChunksEnd(c) = c * ChunkStates
         /\ ChunksEnd(c + 1) = c * ChunkStates + StatesInChunk(Layout, c)
<1> DEFINE b == c * ChunkStates  l == StatesInChunk(Layout, c)  n == 2^NumQubits
<1>1. b < n /\ b + l = IF (c + 1) * ChunkStates < n THEN (c + 1) * ChunkStates ELSE n
  BY ChunkParts
<1> QED BY <1>1 DEF ChunksEnd

\* Each state is one of those its chunk holds.
LEMMA StateOfChunk ==
  ASSUME NEW s \in States
  PROVE  LET ref == StateRef(Layout, s)
         IN /\ ref.chunk \in Chunks /\ ref.local \in 0..(StatesInChunk(Layout, ref.chunk) - 1)
            /\ ChunkStateBegin(Layout, ref.chunk) + ref.local = s
<1> DEFINE c == s \div ChunkStates  k == s % ChunkStates  n == 2^NumQubits  w == ChunkStates
<1>1. StateRef(Layout, s) = [chunk |-> c, local |-> k]
  BY SizesNow DEF StateRef
<1>2. n \in Nat /\ w \in Nat \ {0} /\ s \in Nat /\ s < n
  BY SizesNow, StateNumbers
<1>3. c \in Nat /\ k \in 0..(w - 1) /\ s = w * c + k
  BY <1>2, Division
<1>4. c \in Chunks
  BY <1>1, StateInLayout DEF InLayout
<1>5. /\ StatesInChunk(Layout, c) = (IF w < n - c * w THEN w ELSE n - c * w)
      /\ ChunkStateBegin(Layout, c) = c * w
  BY SizesNow DEF StatesInChunk, ChunkStateBegin
<1> HIDE DEF c, k, n, w
<1>6. c * w = w * c /\ w * c \in Nat
  BY <1>2, <1>3
<1>7. k \in 0..(StatesInChunk(Layout, c) - 1) /\ ChunkStateBegin(Layout, c) + k = s
  BY <1>2, <1>3, <1>5, <1>6
<1> QED BY <1>1, <1>4, <1>7

\* What a handle for a chunk holds of it.
LEMMA HeldChunk ==
  ASSUME CP!Coherent, NEW h \in {first, second}, h # Cache!NoHandle, NEW c \in Chunks, h.chunk = c
  PROVE  [k \in 0..(StatesInChunk(Layout, c) - 1) |-> Held(h)[k]] = ChunkData(c)
<1>1. h.slot # 0 /\ chunkToSlot[c] = h.slot
  BY CoherentParts
<1>2. Cache!Content[c] = Held(h)
  BY <1>1 DEF Cache!Content, Cache!NoSlot, Held
<1> QED BY <1>2 DEF ChunkData

\* A chunk adds up to the difference of the sums up to its ends.
LEMMA ChunkTotal ==
  ASSUME CP!Coherent, NEW c \in Chunks
  PROVE  Total(ChunkData(c))
           = ((Prefix(Vector, ChunksEnd(c + 1)) - Prefix(Vector, ChunksEnd(c))) % 17)
<1> DEFINE b == c * ChunkStates  l == StatesInChunk(Layout, c)  d == ChunkData(c)
<1>1. b \in Nat /\ l \in Nat \ {0} /\ DOMAIN d = 0..(l - 1)
  BY ChunkParts
<1>2. \A j \in 0..l : Prefix(d, j) = Prefix(Vector, b + j) - Prefix(Vector, b)
  <2>1. SampleBegin \in SampleType /\ 0 \in Int
    BY DEF SampleBegin, SampleType, NoState
  <2> QED BY <2>1, ChunkSampled
<1>3. ChunksEnd(c) = b /\ ChunksEnd(c + 1) = b + l
  BY ChunkEndsAt
<1> HIDE DEF b, l, d
<1>4. Total(d) = (Prefix(d, l) % 17)
  BY <1>1 DEF Total, SumFunction, Prefix
<1> QED BY <1>1, <1>2, <1>3, <1>4 DEF d

\* As long as an inversion reads, it has written nothing.
LEMMA StillBefore ==
  ASSUME LoopInv, ValueInv, phase = "apply", op.name = "Inversion", NEW c \in Chunks,
         <<Read, c>> \in todo
  PROVE  Vector = before
<1>1. CP!Coherent
  BY Running
<1>2. ASSUME NEW s \in States PROVE Vector[s] = before[s]
  <2>1. StateRef(Layout, s).chunk \in Chunks
    BY StateInLayout DEF InLayout
  <2>2. <<Write, StateRef(Layout, s).chunk>> \in todo
    BY <2>1 DEF ValueInv, SumFits, InProgress
  <2>3. s \in Touches(op, <<Write, StateRef(Layout, s).chunk>>)
    BY ChunkTouches
  <2> QED BY <2>2, <2>3, StillFound DEF ValueInv, Found
<1>3. Vector \in [States -> Amplitude] /\ before \in [States -> Amplitude]
  BY <1>1, ContentType DEF LoopInv, TypeOK
<1> QED BY <1>2, <1>3

(* The two passes over chunks.                                             *)
LEMMA SumChunkValues == LoopInv /\ ValueInv /\ SumChunk => ValueInv'
<1> SUFFICES ASSUME LoopInv, ValueInv, SumChunk PROVE ValueInv'
  OBVIOUS
<1> DEFINE it == Earliest(todo)
           c == it[2]
           d == [k \in 0..(StatesInChunk(Layout, c) - 1) |-> Held(first)[k]]
<1>1. /\ phase = "apply" /\ op.name = "Inversion" /\ it[1] = Read /\ UNCHANGED cacheVars
      /\ EndIteration({}) /\ local' = [local EXCEPT ![0] = Plus(@, Total(d))]
  BY DEF SumChunk
<1>2. /\ WellFormed(op) /\ op # Idle /\ CP!Coherent /\ it \in todo /\ it \in Work(op)
      /\ todo \in SUBSET Work(op) /\ todo # {} /\ local \in Kept /\ VectorFits
  BY <1>1, Running DEF ValueInv
<1>3. c \in Chunks /\ it = <<Read, c>>
  BY <1>1, <1>2, ChunkWork
<1>4. /\ todo' = todo \ {it} /\ op' = op /\ before' = before
      /\ phase' # "write second"
  BY <1>1 DEF EndIteration, NextPhase
<1>5. Total(d) = Total(ChunkData(c))
  <2>1. FirstRef(op, it) = [chunk |-> c, local |-> 0]
    BY <1>1 DEF FirstRef, StateOperations, PairOperations
  <2>2. first # Cache!NoHandle /\ first.chunk = c
    BY <1>1, <2>1, KeptHandles
  <2> HIDE DEF c
  <2>3. d = ChunkData(c)
    BY <1>2, <1>3, <2>2, HeldChunk
  <2> QED BY <2>3
<1>6. Vector = before
  BY <1>1, <1>2, <1>3, StillBefore
<1>7. Total(d) = ((Prefix(before, ChunksEnd(c + 1)) - Prefix(before, ChunksEnd(c))) % 17)
  BY <1>2, <1>3, <1>5, <1>6, ChunkTotal
<1> HIDE DEF d
<1>8. PICK m \in 0..ChunkCount(Layout) : SummedUpTo(m)
  BY <1>1 DEF ValueInv, SumFits, InProgress
<1>9. \A e \in Chunks : <<Read, e>> \in todo => c <= e
  <2> SUFFICES ASSUME NEW e \in Chunks, <<Read, e>> \in todo PROVE c <= e
    OBVIOUS
  <2>1. it[1] < <<Read, e>>[1] \/ (it[1] = <<Read, e>>[1] /\ it[2] <= <<Read, e>>[2])
    BY <1>1, <1>2, ChunkOrder DEF ChunkOperations
  <2> QED BY <1>1, <2>1 DEF Read
<1>10. c = m /\ c + 1 \in 0..ChunkCount(Layout) /\ c \in Nat
  <2>1. Chunks = 0..(ChunkCount(Layout) - 1) /\ ChunkCount(Layout) \in Nat
    BY SizesNow
  <2>2. m <= c
    BY <1>2, <1>3, <1>8 DEF SummedUpTo
  <2>3. m \in Chunks
    BY <1>3, <2>1, <2>2
  <2>4. <<Read, m>> \in todo
    BY <1>8, <2>1, <2>3 DEF SummedUpTo
  <2>5. c <= m
    BY <1>9, <2>3, <2>4
  <2> HIDE DEF c
  <2> QED BY <1>3, <2>1, <2>2, <2>5
<1>11. local'[0] = (Prefix(before, ChunksEnd(c + 1)) % 17)
  <2> DEFINE P == Prefix(before, ChunksEnd(c))  Q == Prefix(before, ChunksEnd(c + 1))
  <2>1. P \in Int /\ Q \in Int
    <3>1. ChunksEnd(c) \in 0..2^NumQubits /\ ChunksEnd(c + 1) \in 0..2^NumQubits
      <4>1. c \in 0..ChunkCount(Layout)
        BY <1>8, <1>10
      <4> QED BY <1>10, <4>1, ChunkEnds
    <3> HIDE DEF c
    <3> QED BY <1>2, <1>6, <3>1, VectorSums
  <2>2. local[0] = (P % 17)
    BY <1>8, <1>10 DEF SummedUpTo
  <2>3. local'[0] = ((local[0] + Total(d)) % 17)
    <3>1. 0 \in 0..(2^NumQubits - 1)
      BY SizesNow
    <3> QED BY <1>1, <1>2, <3>1 DEF Kept, Plus
  <2>4. Total(d) = ((Q - P) % 17)
    BY <1>7
  <2> HIDE DEF P, Q
  <2>5. (((P % 17) + ((Q - P) % 17)) % 17) = (Q % 17)
    BY <2>1
  <2> QED BY <2>2, <2>3, <2>4, <2>5 DEF Q
<1>12. SumFits'
  <2>1. \A e \in Chunks : <<Read, e>> \in todo' <=> m + 1 <= e
    <3> SUFFICES ASSUME NEW e \in Chunks PROVE <<Read, e>> \in todo' <=> m + 1 <= e
      OBVIOUS
    <3>1. <<Read, e>> \in todo <=> m <= e
      BY <1>8 DEF SummedUpTo
    <3>2. it = <<Read, m>>
      BY <1>3, <1>10
    <3> HIDE DEF c, it
    <3>3. <<Read, e>> = it <=> e = m
      BY <3>2
    <3>4. <<Read, e>> \in todo' <=> m <= e /\ e # m
      BY Zenon, <1>4, <3>1, <3>3
    <3>5. e \in Int /\ m \in Int
      BY SizesNow
    <3> QED BY <3>4, <3>5
  <2>2. local'[0] = (Prefix(before', ChunksEnd(m + 1)) % 17)
    BY Zenon, <1>4, <1>10, <1>11
  <2>3. SummedUpTo(m + 1)'
    BY <2>1, <2>2 DEF SummedUpTo
  <2>4. \A e \in Chunks, f \in Chunks : <<Read, e>> \in todo' => <<Write, f>> \in todo'
    <3> SUFFICES ASSUME NEW e \in Chunks, NEW f \in Chunks, <<Read, e>> \in todo'
                 PROVE  <<Write, f>> \in todo'
      OBVIOUS
    <3>1. <<Write, f>> \in todo
      BY Zenon, <1>1, <1>4 DEF ValueInv, SumFits, InProgress
    <3>2. <<Write, f>> # it
      BY <1>1 DEF Read, Write
    <3> QED BY Zenon, <1>4, <3>1, <3>2
  <2>5. m + 1 \in 0..ChunkCount(Layout)
    BY <1>10
  <2> QED BY <2>3, <2>4, <2>5 DEF SumFits
<1>13. VectorFits'
  <2>1. Vector' = Vector
    BY <1>1 DEF Vector, Cache!Content, cacheVars
  <2>2. Touches(op, it) = {}
    BY <1>1, ChunkTouches DEF Read, Write
  <2>3. Sets(it) /\ Needless({})
    BY <2>1, <2>2 DEF Sets, Needless
  <2> QED BY <1>1, <1>2, <2>3, IterationSets
<1> QED BY Zenon, <1>1, <1>2, <1>4, <1>12, <1>13 DEF ValueInv, HalfFits, BlockFits, FreshCache, LocalClear, Idle

LEMMA ApplyToChunkValues == LoopInv /\ ValueInv /\ ApplyToChunk => ValueInv'
<1> SUFFICES ASSUME LoopInv, ValueInv, ApplyToChunk PROVE ValueInv'
  OBVIOUS
<1> DEFINE it == Earliest(todo)
           c == it[2]
           count == StatesInChunk(Layout, c)
           d == [k \in DOMAIN Held(first) |->
                   IF k < count THEN NewValue(Held(first)[k]) ELSE Held(first)[k]]
<1>1. /\ phase = "apply" /\ op.name \in {"Inversion", "InversionMean", "Affine"} /\ it[1] = Write
      /\ Cache!WriteThrough(first, d) /\ local' = local /\ EndIteration({})
  BY DEF ApplyToChunk
<1>2. /\ WellFormed(op) /\ op # Idle /\ CP!Coherent /\ it \in todo /\ it \in Work(op)
      /\ todo \in SUBSET Work(op) /\ todo # {} /\ local \in Kept /\ VectorFits
      /\ before \in Vectors
  BY <1>1, Running DEF ValueInv, LoopInv, TypeOK, Vectors
<1>3. c \in Chunks /\ it = <<Write, c>>
  BY <1>1, <1>2, ChunkWork
<1>4. /\ todo' = todo \ {it} /\ op' = op /\ before' = before
      /\ phase' # "write second"
  BY <1>1 DEF EndIteration, NextPhase
<1>5. first # Cache!NoHandle /\ first.chunk = c /\ Held(first) \in Buffer
  <2>1. FirstRef(op, it) = [chunk |-> c, local |-> 0]
    BY <1>1 DEF FirstRef, StateOperations, PairOperations
  <2> QED BY <1>1, <2>1, KeptHandles
<1>6. \A e \in Chunks : <<Read, e>> \notin todo
  <2> SUFFICES ASSUME NEW e \in Chunks, <<Read, e>> \in todo PROVE FALSE
    OBVIOUS
  <2>1. it[1] < <<Read, e>>[1] \/ (it[1] = <<Read, e>>[1] /\ it[2] <= <<Read, e>>[2])
    BY <1>1, <1>2, ChunkOrder DEF ChunkOperations
  <2> QED BY <1>1, <2>1 DEF Read, Write
<1>7. ASSUME op.name = "Inversion" PROVE local[0] = Total(before)
  <2>1. PICK m \in 0..ChunkCount(Layout) : SummedUpTo(m)
    BY <1>1, <1>7 DEF ValueInv, SumFits, InProgress
  <2>2. m = ChunkCount(Layout)
    <3>1. Chunks = 0..(ChunkCount(Layout) - 1) /\ ChunkCount(Layout) \in Nat
      BY SizesNow
    <3>2. ASSUME m \in Chunks PROVE FALSE
      <4>1. <<Read, m>> \in todo <=> m <= m
        BY <2>1, <3>2 DEF SummedUpTo
      <4>2. m <= m
        BY <3>1, <3>2
      <4> QED BY <1>6, <3>2, <4>1, <4>2
    <3> QED BY <2>1, <3>1, <3>2
  <2>3. local[0] = (Prefix(before, 2^NumQubits) % 17)
    BY <2>1, <2>2, ChunkEnds DEF SummedUpTo
  <2>4. DOMAIN before = 0..(2^NumQubits - 1)
    BY <1>2 DEF Vectors, States
  <2> QED BY <2>3, <2>4 DEF Total, SumFunction, Prefix
<1>8. ASSUME NEW s \in States PROVE NewValue(before[s]) = Outcome[s]
  <2>1. CASE op.name = "Inversion"
    BY <1>7, <2>1, VectorOutcomes DEF NewValue, Outcome
  <2>2. CASE op.name = "InversionMean"
    BY <2>2, VectorOutcomes DEF NewValue, Outcome
  <2>3. CASE op.name = "Affine"
    BY <2>3, VectorOutcomes DEF NewValue, Outcome
  <2> QED BY <1>1, <2>1, <2>2, <2>3
<1>9. d \in Buffer
  <2>1. DOMAIN Held(first) = 0..(ChunkStates - 1)
    BY <1>5 DEF Buffer
  <2>2. ASSUME NEW k \in 0..(ChunkStates - 1)
        PROVE  Held(first)[k] \in Amplitude /\ NewValue(Held(first)[k]) \in Amplitude
    BY <1>1, <1>2, <1>5, BufferRead, NewValueType
  <2> QED BY <2>1, <2>2 DEF Buffer
<1>10. Sets(it)
  <2> SUFFICES ASSUME NEW s \in States
               PROVE  Vector'[s] = IF s \in Touches(op, it) THEN Outcome[s] ELSE Vector[s]
    BY DEF Sets
  <2> DEFINE k == StateRef(Layout, s).local
  <2>1. s \in Touches(op, it) <=> StateRef(Layout, s).chunk = c
    BY <1>1, ChunkTouches
  <2>2. Vector'[s] = IF StateRef(Layout, s).chunk = c THEN d[k] ELSE Vector[s]
    <3> HIDE DEF d
    <3> QED BY <1>1, <1>2, <1>5, <1>9, VectorWritten
  <2>3. ASSUME StateRef(Layout, s).chunk = c PROVE d[k] = Outcome[s]
    <3>1. Held(first)[k] = Vector[s] /\ k \in 0..(ChunkStates - 1)
      BY <1>2, <1>5, <2>3, HeldState
    <3>2. Vector[s] = before[s]
      <4>1. s \in Touches(op, it) /\ op.name # "InitBasis"
        BY <1>1, <2>1, <2>3
      <4> QED BY <1>1, <1>2, <4>1, StillFound DEF Found
    <3>3. k < count
      <4>1. k \in 0..(count - 1)
        BY <2>3, StateOfChunk
      <4>2. count \in Int
        BY <1>3, ChunkStatesHeld
      <4> HIDE DEF k, count
      <4> QED BY <4>1, <4>2
    <3>4. DOMAIN Held(first) = 0..(ChunkStates - 1)
      BY <1>5 DEF Buffer
    <3>5. d[k] = NewValue(Held(first)[k])
      BY <3>1, <3>3, <3>4
    <3> QED BY <1>8, <3>1, <3>2, <3>5
  <2> QED BY <2>1, <2>2, <2>3
<1> HIDE DEF d
<1>11. VectorFits'
  <2>1. Needless({})
    BY DEF Needless
  <2> QED BY <1>1, <1>2, <1>10, <2>1, IterationSets
<1>12. ASSUME op.name = "Inversion" PROVE SumFits'
  <2>1. PICK m \in 0..ChunkCount(Layout) : SummedUpTo(m)
    BY <1>1, <1>12 DEF ValueInv, SumFits, InProgress
  <2>2. \A e \in Chunks : <<Read, e>> \in todo' <=> <<Read, e>> \in todo
    BY Zenon, <1>4, <1>6
  <2>3. SummedUpTo(m)'
    BY Zenon, <1>1, <1>4, <2>1, <2>2 DEF SummedUpTo
  <2> QED BY Zenon, <1>4, <1>6, <2>1, <2>3 DEF SumFits
<1>13. op.name # "Inversion" => SumFits'
  BY Zenon, <1>4 DEF SumFits
<1> QED BY Zenon, <1>1, <1>2, <1>4, <1>11, <1>12, <1>13
        DEF ValueInv, HalfFits, BlockFits, FreshCache, LocalClear, Idle

\* The generic engine takes its blocks in order, reads before writes.
LEMMA GateOrder ==
  ASSUME NEW o, o.name = "Gate", NEW k \in 0..NumQubits, SizedFor(o, k),
         NEW S \in SUBSET Work(o), S # {}, NEW jt \in S
  PROVE  LET it == Earliest(S)
         IN /\ it[1] <= jt[1]
            /\ it[1] = jt[1] => it[2] <= jt[2]
            /\ it[1] = jt[1] /\ it[2] = jt[2] => it[3] <= jt[3]
<1> DEFINE it == Earliest(S)
<1>1. S \in SUBSET (Nat \X Nat \X Nat)
  <2>1. Work(o) = Blocks(k) \X {Read, Write} \X Rows(2^k)
    BY DEF Work, PairOperations, StateOperations, SizedFor, Blocks
  <2>2. Blocks(k) \subseteq Nat /\ {Read, Write} \subseteq Nat
    BY GateBounds DEF Blocks, Read, Write
  <2>3. Rows(2^k) \subseteq Nat
    BY GateBounds
  <2> QED BY <2>1, <2>2, <2>3
<1>2. it \in S /\ \A q \in S \ {it} : Earlier(it, q)
  BY <1>1, EarliestTriple
<1> HIDE DEF it
<1>3. it \in Nat \X Nat \X Nat /\ jt \in Nat \X Nat \X Nat
  BY <1>1, <1>2
<1>4. CASE jt # it
  <2>1. Earlier(it, jt)
    BY <1>2, <1>4
  <2>2. \/ it[1] < jt[1]
        \/ it[1] = jt[1] /\ it[2] < jt[2]
        \/ it[1] = jt[1] /\ it[2] = jt[2] /\ it[3] < jt[3]
    BY <1>3, <2>1, EarlierTriple
  <2> QED BY <1>3, <2>2 DEF it
<1>5. CASE jt = it
  BY <1>3, <1>5 DEF it
<1> QED BY <1>4, <1>5

\* What the generic engine knows at an iteration.
LEMMA GateAtHand ==
  ASSUME LoopInv, ValueInv, phase = "apply", op.name = "Gate"
  PROVE  /\ WellFormed(op) /\ op # Idle /\ CP!Coherent
         /\ Earliest(todo) \in todo /\ todo # {} /\ todo \in SUBSET Work(op)
         /\ local \in Kept /\ before \in Vectors /\ VectorFits
         /\ \E k \in 0..NumQubits :
              /\ SizedFor(op, k)
              /\ Earliest(todo)[1] \in Blocks(k)
              /\ Earliest(todo)[2] \in {Read, Write}
              /\ Earliest(todo)[3] \in Rows(2^k)
              /\ Earliest(todo) = <<Earliest(todo)[1], Earliest(todo)[2], Earliest(todo)[3]>>
         /\ LET s == BlockState(op.qubits, NumQubits, Earliest(todo)[1], Earliest(todo)[3])
            IN /\ s \in States
               /\ FirstRef(op, Earliest(todo)) = StateRef(Layout, s)
               /\ first # Cache!NoHandle /\ first.chunk = StateRef(Layout, s).chunk
               /\ Held(first) \in Buffer
               /\ Held(first)[StateRef(Layout, s).local] = Vector[s]
<1> DEFINE it == Earliest(todo)  s == BlockState(op.qubits, NumQubits, it[1], it[3])
<1>1. /\ WellFormed(op) /\ op # Idle /\ CP!Coherent
      /\ it \in todo /\ it \in Work(op) /\ todo # {} /\ todo \in SUBSET Work(op)
      /\ local \in Kept /\ before \in Vectors /\ VectorFits
  BY Running DEF LoopInv, TypeOK, Vectors, ValueInv
<1>2. PICK k \in 0..NumQubits : SizedFor(op, k)
  BY <1>1, GateSized DEF WellFormed, PairOperations
<1>3. /\ it = <<it[1], it[2], it[3]>> /\ it[1] \in Blocks(k)
      /\ it[2] \in {Read, Write} /\ it[3] \in Rows(2^k)
  BY <1>1, <1>2, GateWork
<1>4. s \in States
  <2>1. op.qubits \in QubitLists(k)
    BY <1>2 DEF SizedFor
  <2> QED BY <1>3, <2>1, BlockStates
<1>5. FirstRef(op, it) = StateRef(Layout, s)
  BY DEF FirstRef, PairOperations, StateOperations
<1>6. first # Cache!NoHandle /\ first.chunk = StateRef(Layout, s).chunk /\ Held(first) \in Buffer
  BY <1>5, KeptHandles
<1>7. Held(first)[StateRef(Layout, s).local] = Vector[s]
  BY <1>1, <1>4, <1>6, HeldState
<1> QED BY <1>1, <1>2, <1>3, <1>4, <1>5, <1>6, <1>7

(* The two loops over the rows of a block.                                 *)
LEMMA LoadAmplitudeValues == LoopInv /\ ValueInv /\ LoadAmplitude => ValueInv'
<1> SUFFICES ASSUME LoopInv, ValueInv, LoadAmplitude PROVE ValueInv'
  OBVIOUS
<1> DEFINE it == Earliest(todo)
           R == Rows(BlockSize(op.qubits))
           lastRow == it[3] = BlockSize(op.qubits) - 1
           skipped == IF lastRow /\ \A row \in R : local'[row] = 0
                      THEN {it[1]} \X {Write} \X R ELSE {}
           At(b, q) == BlockState(op.qubits, NumQubits, b, q)
<1>1. /\ phase = "apply" /\ op.name = "Gate" /\ it[2] = Read /\ UNCHANGED cacheVars
      /\ local' = [local EXCEPT ![it[3]] = Held(first)[FirstRef(op, it).local]]
      /\ EndIteration(skipped)
  BY DEF LoadAmplitude
<1>2. /\ WellFormed(op) /\ op # Idle /\ CP!Coherent /\ it \in todo /\ todo # {}
      /\ todo \in SUBSET Work(op) /\ local \in Kept /\ before \in Vectors /\ VectorFits
      /\ Held(first)[FirstRef(op, it).local] = Vector[At(it[1], it[3])]
      /\ At(it[1], it[3]) \in States
  BY <1>1, GateAtHand
<1>3. PICK k \in 0..NumQubits :
        /\ SizedFor(op, k) /\ it[1] \in Blocks(k) /\ it[3] \in Rows(2^k)
        /\ it = <<it[1], it[2], it[3]>>
  BY <1>1, GateAtHand
<1>4. /\ BlockSize(op.qubits) = 2^k /\ R = Rows(2^k) /\ op.qubits \in QubitLists(k)
      /\ \A b \in Blocks(k) : b \in Int
      /\ \A q \in R : q \in Int /\ q <= 2^k - 1 /\ q \in 0..(2^NumQubits - 1)
  BY <1>3, GateBounds DEF SizedFor, Rows, Blocks
<1>5. /\ todo' = (todo \ {it}) \ skipped /\ op' = op /\ before' = before
      /\ phase' # "write second"
  BY <1>1 DEF EndIteration, NextPhase
<1>6. /\ \A jt \in Work(op) : /\ jt = <<jt[1], jt[2], jt[3]>> /\ jt[1] \in Blocks(k)
                              /\ jt[2] \in {Read, Write} /\ jt[3] \in R
      /\ \A b \in Blocks(k), pass \in {Read, Write}, q \in R : <<b, pass, q>> \in Work(op)
  BY <1>1, <1>3, <1>4, GateWork
<1>7. \A jt \in todo : it[1] <= jt[1] /\ (it[1] = jt[1] /\ jt[2] = Read => it[3] <= jt[3])
  BY <1>1, <1>2, <1>3, GateOrder
<1>8. /\ \A jt \in Work(op) : jt[2] = Write /\ Reading(jt[1]) => jt \in todo
      /\ \A jt \in Work(op) : jt[2] = Read /\ jt \notin todo /\ Writing(jt[1]) =>
                                local[jt[3]] = before[At(jt[1], jt[3])]
      /\ \A kt \in todo, jt \in Work(op) : kt[1] < jt[1] => jt \in todo
  BY <1>1 DEF ValueInv, BlockFits, InProgress
<1>9. \A q \in R : <<it[1], Write, q>> \in todo
  <2>1. Reading(it[1])
    BY <1>1, <1>2, <1>3, <1>4 DEF Reading
  <2> QED BY <1>3, <1>6, <1>8, <2>1
<1>10. Writing(it[1])
  BY <1>3, <1>4, <1>9 DEF Writing
<1>11. Vector[At(it[1], it[3])] = before[At(it[1], it[3])]
  <2>1. <<it[1], Write, it[3]>> \in todo
    BY <1>3, <1>4, <1>9
  <2>2. At(it[1], it[3]) \in Touches(op, <<it[1], Write, it[3]>>)
    BY <1>1, GateTouches
  <2> QED BY <1>1, <1>2, <2>1, <2>2, StillFound DEF Found
<1>12. /\ local'[it[3]] = before[At(it[1], it[3])]
       /\ \A q \in R : q # it[3] => local'[q] = local[q]
  BY <1>1, <1>2, <1>3, <1>4, <1>11 DEF Kept
<1>13. ASSUME NEW q \in R, <<it[1], Read, q>> \notin todo \/ q = it[3]
       PROVE  local'[q] = before[At(it[1], q)]
  <2>1. CASE q = it[3]
    BY <1>12, <2>1
  <2>2. CASE q # it[3]
    <3>1. <<it[1], Read, q>> \in Work(op)
      BY <1>3, <1>6
    <3> QED BY <1>8, <1>10, <1>12, <1>13, <2>2, <3>1
  <2> QED BY <2>1, <2>2
<1>14. \A jt \in skipped : jt[1] = it[1] /\ jt[2] = Write /\ jt[3] \in R
  OBVIOUS
<1>15. ASSUME lastRow, NEW q \in R PROVE local'[q] = before[At(it[1], q)]
  <2>1. <<it[1], Read, q>> \in todo => it[3] <= q
    BY <1>7
  <2>2. q <= it[3] /\ it[3] \in Int /\ q \in Int
    BY <1>3, <1>4, <1>15
  <2> QED BY <1>13, <2>1, <2>2
<1>16. Needless(skipped)
  <2> SUFFICES ASSUME NEW jt \in skipped, NEW s \in States, s \in Touches(op, jt)
               PROVE  Outcome[s] = Found(op, before, s)
    BY DEF Needless
  <2>1. lastRow /\ \A row \in R : local'[row] = 0
    OBVIOUS
  <2>2. s = At(it[1], jt[3]) /\ jt[3] \in R
    BY <1>1, <1>14, GateTouches
  <2> DEFINE b == it[1]  r == jt[3]  amps == local'
  <2>3. /\ \A col \in Rows(2^k) : amps[col] = before[BlockState(op.qubits, NumQubits, b, col)]
        /\ \A col \in Rows(2^k) : amps[col] = 0
        /\ b \in Blocks(k) /\ r \in Rows(2^k)
        /\ WellFormed(op) /\ op.name = "Gate" /\ SizedFor(op, k) /\ before \in Vectors
    BY <1>1, <1>2, <1>3, <1>4, <1>15, <2>1, <2>2
  <2>4. Promise!Result(op, before)[BlockState(op.qubits, NumQubits, b, r)] = 0
    <3> HIDE DEF b, r, amps
    <3> QED BY ONLY <2>3, BlockOutcome, k \in 0..NumQubits
  <2>5. before[s] = 0
    BY <1>15, <2>1, <2>2
  <2> QED BY <1>1, <2>2, <2>4, <2>5 DEF Outcome, Found
<1> HIDE DEF skipped
<1>17. VectorFits'
  <2>1. Vector' = Vector
    BY <1>1 DEF Vector, Cache!Content, cacheVars
  <2>2. Touches(op, it) = {}
    BY <1>1, GateTouches DEF Read, Write
  <2>3. Sets(it)
    BY <2>1, <2>2 DEF Sets
  <2> QED BY <1>1, <1>2, <1>16, <2>3, IterationSets
<1>18. \A jt \in Work(op) : jt[2] = Write /\ Reading(jt[1])' => jt \in todo'
  <2> SUFFICES ASSUME NEW jt \in Work(op), jt[2] = Write, Reading(jt[1])' PROVE jt \in todo'
    OBVIOUS
  <2>1. PICK q \in R : <<jt[1], Read, q>> \in todo'
    BY Zenon, <1>5 DEF Reading
  <2>2. <<jt[1], Read, q>> \in todo /\ <<jt[1], Read, q>> # it
    BY Zenon, <1>5, <2>1
  <2>3. jt \in todo
    BY <1>8, <2>2 DEF Reading
  <2>4. jt # it
    BY <1>1 DEF Read, Write
  <2>5. ASSUME jt \in skipped PROVE FALSE
    <3>1. lastRow /\ jt[1] = it[1]
      BY <1>14, <2>5 DEF skipped
    <3>2. it[3] <= q
      BY <1>7, <2>2, <3>1
    <3>3. q <= it[3] /\ it[3] \in Int /\ q \in Int
      BY <1>3, <1>4, <3>1
    <3>4. q = it[3]
      BY <3>2, <3>3
    <3> QED BY <1>1, <1>3, <2>2, <3>1, <3>4
  <2> QED BY Zenon, <1>5, <2>3, <2>4, <2>5
<1>19. \A jt \in Work(op) : jt[2] = Read /\ jt \notin todo' /\ Writing(jt[1])' =>
                              local'[jt[3]] = before[At(jt[1], jt[3])]
  <2> SUFFICES ASSUME NEW jt \in Work(op), jt[2] = Read, jt \notin todo', Writing(jt[1])'
               PROVE  local'[jt[3]] = before[At(jt[1], jt[3])]
    OBVIOUS
  <2>1. PICK q \in R : <<jt[1], Write, q>> \in todo'
    BY Zenon, <1>5 DEF Writing
  <2>2. <<jt[1], Write, q>> \in todo
    BY Zenon, <1>5, <2>1
  <2>3. Writing(jt[1]) /\ it[1] <= jt[1]
    BY <1>7, <2>2 DEF Writing
  <2>4. jt \notin skipped
    BY <1>14 DEF Read, Write
  <2>5. CASE jt = it
    BY <1>12, <2>5
  <2>6. CASE jt # it
    <3>1. jt \notin todo
      BY Zenon, <1>5, <2>4, <2>6
    <3>2. ~(it[1] < jt[1])
      BY <1>2, <1>8, <3>1
    <3>3. jt[1] = it[1]
      <4>1. jt[1] \in Int /\ it[1] \in Int
        BY <1>3, <1>4, <1>6
      <4> HIDE DEF it
      <4> QED BY <2>3, <3>2, <4>1
    <3>4. jt = <<it[1], Read, jt[3]>> /\ jt[3] \in R
      BY <1>6, <3>3
    <3> QED BY <1>13, <3>1, <3>3, <3>4
  <2> QED BY <2>5, <2>6
<1>20. \A kt \in todo', jt \in Work(op) : kt[1] < jt[1] => jt \in todo'
  <2> SUFFICES ASSUME NEW kt \in todo', NEW jt \in Work(op), kt[1] < jt[1] PROVE jt \in todo'
    OBVIOUS
  <2>1. kt \in todo /\ jt \in todo
    BY Zenon, <1>5, <1>8
  <2>2. it[1] <= kt[1] /\ it[1] \in Int /\ kt[1] \in Int /\ jt[1] \in Int
    BY <1>2, <1>3, <1>4, <1>6, <1>7, <2>1
  <2>3. jt[1] # it[1]
    <3> HIDE DEF it
    <3> QED BY <2>2
  <2> QED BY Zenon, <1>5, <1>14, <2>1, <2>3
<1>21. BlockFits'
  <2> HIDE DEF it
  <2> QED BY Zenon, <1>5, <1>18, <1>19, <1>20 DEF BlockFits
<1> QED BY Zenon, <1>1, <1>2, <1>5, <1>17, <1>21
        DEF ValueInv, HalfFits, SumFits, FreshCache, LocalClear, Idle

LEMMA StoreAmplitudeValues == LoopInv /\ ValueInv /\ StoreAmplitude => ValueInv'
<1> SUFFICES ASSUME LoopInv, ValueInv, StoreAmplitude PROVE ValueInv'
  OBVIOUS
<1> DEFINE it == Earliest(todo)
           R == Rows(BlockSize(op.qubits))
           At(b, q) == BlockState(op.qubits, NumQubits, b, q)
           s == At(it[1], it[3])
           a == NewAmplitude(op.matrix, it[3], local)
<1>1. /\ phase = "apply" /\ op.name = "Gate" /\ it[2] = Write /\ local' = local
      /\ Cache!WriteThrough(first, [Held(first) EXCEPT ![FirstRef(op, it).local] = a])
      /\ EndIteration({})
  BY DEF StoreAmplitude
<1>2. /\ WellFormed(op) /\ op # Idle /\ CP!Coherent /\ it \in todo /\ todo # {}
      /\ todo \in SUBSET Work(op) /\ local \in Kept /\ before \in Vectors /\ VectorFits
      /\ FirstRef(op, it) = StateRef(Layout, s) /\ s \in States
      /\ first # Cache!NoHandle /\ first.chunk = StateRef(Layout, s).chunk
      /\ Held(first) \in Buffer
  BY <1>1, GateAtHand
<1>3. PICK k \in 0..NumQubits :
        /\ SizedFor(op, k) /\ it[1] \in Blocks(k) /\ it[3] \in Rows(2^k)
        /\ it = <<it[1], it[2], it[3]>>
  BY <1>1, GateAtHand
<1>4. /\ R = Rows(2^k) /\ \A b \in Blocks(k) : b \in Int
  BY <1>3, GateBounds DEF SizedFor, Blocks
<1>5. /\ todo' = todo \ {it} /\ op' = op /\ before' = before
      /\ phase' # "write second"
  BY <1>1 DEF EndIteration, NextPhase
<1>6. /\ \A jt \in Work(op) : jt = <<jt[1], jt[2], jt[3]>> /\ jt[1] \in Blocks(k)
      /\ \A b \in Blocks(k), pass \in {Read, Write}, q \in R : <<b, pass, q>> \in Work(op)
  BY <1>1, <1>3, <1>4, GateWork
<1>7. \A jt \in todo : it[1] <= jt[1] /\ (it[1] = jt[1] => jt[2] # Read)
  <2>1. \A jt \in todo : it[1] <= jt[1] /\ (it[1] = jt[1] => it[2] <= jt[2])
    BY <1>1, <1>2, <1>3, GateOrder
  <2> QED BY <1>1, <2>1 DEF Read, Write
<1>8. /\ \A jt \in Work(op) : jt[2] = Write /\ Reading(jt[1]) => jt \in todo
      /\ \A jt \in Work(op) : jt[2] = Read /\ jt \notin todo /\ Writing(jt[1]) =>
                                local[jt[3]] = before[At(jt[1], jt[3])]
      /\ \A kt \in todo, jt \in Work(op) : kt[1] < jt[1] => jt \in todo
  BY <1>1 DEF ValueInv, BlockFits, InProgress
<1>9. ASSUME NEW q \in R PROVE local[q] = before[At(it[1], q)]
  <2>1. Writing(it[1])
    BY <1>1, <1>2, <1>3, <1>4 DEF Writing
  <2>2. <<it[1], Read, q>> \in Work(op) /\ <<it[1], Read, q>> \notin todo
    BY <1>3, <1>6, <1>7
  <2> QED BY <1>8, <2>1, <2>2
<1>10. a = Outcome[s]
  <2> DEFINE b == it[1]  r == it[3]
  <2>1. /\ \A col \in Rows(2^k) : local[col] = before[BlockState(op.qubits, NumQubits, b, col)]
        /\ b \in Blocks(k) /\ r \in Rows(2^k)
        /\ WellFormed(op) /\ op.name = "Gate" /\ SizedFor(op, k) /\ before \in Vectors
    BY <1>1, <1>2, <1>3, <1>4, <1>9
  <2>2. Promise!Result(op, before)[BlockState(op.qubits, NumQubits, b, r)]
          = NewAmplitude(op.matrix, r, local)
    <3> HIDE DEF b, r
    <3> QED BY ONLY <2>1, BlockOutcome, k \in 0..NumQubits
  <2> QED BY <2>2 DEF Outcome
<1>11. a \in Amplitude
  <2>1. GateFits(op)
    BY <1>1, <1>2 DEF WellFormed, PairOperations
  <2>2. it[3] \in R
    BY <1>3, <1>4
  <2> QED BY <1>2, <2>1, <2>2, NewAmplitudeType
<1>12. Sets(it)
  <2>1. Touches(op, it) = {s}
    BY <1>1, GateTouches
  <2>2. Cache!WriteThrough(first, [Held(first) EXCEPT ![StateRef(Layout, s).local] = a])
    BY <1>1, <1>2
  <2> HIDE DEF s, a
  <2>3. \A t \in States : Vector'[t] = IF t = s THEN a ELSE Vector[t]
    BY <1>2, <1>11, <2>2, StateWritten
  <2> QED BY <1>10, <2>1, <2>3 DEF Sets
<1>13. VectorFits'
  <2>1. Needless({})
    BY DEF Needless
  <2> QED BY <1>1, <1>2, <1>12, <2>1, IterationSets
<1>14. \A jt \in Work(op) : jt[2] = Write /\ Reading(jt[1])' => jt \in todo'
  <2> SUFFICES ASSUME NEW jt \in Work(op), jt[2] = Write, Reading(jt[1])' PROVE jt \in todo'
    OBVIOUS
  <2>1. PICK q \in R : <<jt[1], Read, q>> \in todo
    BY Zenon, <1>5 DEF Reading
  <2>2. jt \in todo
    BY <1>8, <2>1 DEF Reading
  <2>3. jt # it
    BY <1>7, <2>1
  <2> QED BY Zenon, <1>5, <2>2, <2>3
<1>15. \A jt \in Work(op) : jt[2] = Read /\ jt \notin todo' /\ Writing(jt[1])' =>
                              local'[jt[3]] = before[At(jt[1], jt[3])]
  <2> SUFFICES ASSUME NEW jt \in Work(op), jt[2] = Read, jt \notin todo', Writing(jt[1])'
               PROVE  local'[jt[3]] = before[At(jt[1], jt[3])]
    OBVIOUS
  <2>0. jt # it
    BY <1>1 DEF Read, Write
  <2>1. jt \notin todo
    BY Zenon, <1>5, <2>0
  <2>2. Writing(jt[1])
    BY Zenon, <1>5 DEF Writing
  <2> QED BY <1>1, <1>8, <2>1, <2>2
<1>16. \A kt \in todo', jt \in Work(op) : kt[1] < jt[1] => jt \in todo'
  <2> SUFFICES ASSUME NEW kt \in todo', NEW jt \in Work(op), kt[1] < jt[1] PROVE jt \in todo'
    OBVIOUS
  <2>1. kt \in todo /\ jt \in todo
    BY Zenon, <1>5, <1>8
  <2>2. it[1] <= kt[1] /\ it[1] \in Int /\ kt[1] \in Int /\ jt[1] \in Int
    BY <1>2, <1>3, <1>4, <1>6, <1>7, <2>1
  <2>3. jt[1] # it[1]
    <3> HIDE DEF it
    <3> QED BY <2>2
  <2> QED BY Zenon, <1>5, <2>1, <2>3
<1>17. BlockFits'
  <2> HIDE DEF it
  <2> QED BY Zenon, <1>5, <1>14, <1>15, <1>16 DEF BlockFits
<1> QED BY Zenon, <1>1, <1>2, <1>5, <1>13, <1>17
        DEF ValueInv, HalfFits, SumFits, FreshCache, LocalClear, Idle

-------------------------------------------------------------------------------
(* The calls.                                                              *)

\* Chunks that hold a vector are read as that vector.
LEMMA StoredVector ==
  ASSUME NEW v, NEW s \in States
  PROVE  LET ref == StateRef(Layout, s)
         IN /\ ChunksOf(v)[ref.chunk][ref.local] = v[s]
            /\ [c \in Chunks |-> ZeroBuffer][ref.chunk][ref.local] = 0
<1> DEFINE c == StateRef(Layout, s).chunk  k == StateRef(Layout, s).local
<1>1. c \in Chunks /\ k \in 0..(ChunkStates - 1)
  BY StateInLayout DEF InLayout
<1>2. k \in 0..(StatesInChunk(Layout, c) - 1) /\ ChunkStateBegin(Layout, c) + k = s
  BY StateOfChunk
<1>3. StatesInChunk(Layout, c) \in Int
  BY <1>1, ChunkStatesHeld
<1> HIDE DEF c, k
<1>4. k < StatesInChunk(Layout, c)
  BY <1>1, <1>2, <1>3
<1>5. ChunksOf(v)[c][k] = v[s]
  BY <1>1, <1>2, <1>4 DEF ChunksOf
<1>6. [e \in Chunks |-> ZeroBuffer][c][k] = 0
  BY <1>1 DEF ZeroBuffer
<1> QED BY <1>5, <1>6 DEF c, k

(* An initialisation replaces the vector.                                  *)
LEMMA ConfiguredVector ==
  ASSUME CP!Coherent
  PROVE  /\ \A v \in Vectors : Cache!Configure(ChunksOf(v)) => Vector' = v
         /\ Cache!Configure([c \in Chunks |-> ZeroBuffer]) => \A s \in States : Vector'[s] = 0
<1>1. ASSUME NEW v \in Vectors, Cache!Configure(ChunksOf(v)) PROVE Vector' = v
  <2>1. ChunksOf(v) \in [Chunks -> Buffer]
    BY ChunksOfType DEF Vectors
  <2>2. Cache!Content' = ChunksOf(v)
    BY <1>1, <2>1, ChunksRead
  <2>3. ASSUME NEW s \in States PROVE Vector'[s] = v[s]
    BY <2>2, StoredVector DEF Vector
  <2> QED BY <2>3 DEF Vectors, Vector
<1>2. ASSUME Cache!Configure([c \in Chunks |-> ZeroBuffer]), NEW s \in States
      PROVE  Vector'[s] = 0
  <2> DEFINE data == [c \in Chunks |-> ZeroBuffer]
  <2>1. data \in [Chunks -> Buffer]
    BY BuffersNow
  <2>2. Cache!Content' = data
    <3> HIDE DEF data
    <3>1. Cache!Configure(data)
      BY <1>2 DEF data
    <3> QED BY <2>1, <3>1, ChunksRead
  <2> QED BY <2>2, StoredVector DEF Vector
<1> QED BY <1>1, <1>2

(* A basis state is zeros first, and then one amplitude.                   *)
LEMMA InitBasisValues == LoopInv /\ ValueInv /\ InitBasis => ValueInv'
<1> SUFFICES ASSUME LoopInv, ValueInv, InitBasis PROVE ValueInv'
  OBVIOUS
<1>1. /\ phase = "configure" /\ op.name = "InitBasis"
      /\ Cache!Configure([c \in Chunks |-> ZeroBuffer])
  BY DEF InitBasis
<1>2. CASE op.state \notin States
  BY <1>2, QuitValues DEF InitBasis
<1>3. CASE op.state \in States
  <2>1. phase' = "first" /\ UNCHANGED <<request, op, todo, local, before>>
    BY <1>3 DEF InitBasis
  <2>2. \A s \in States : Vector'[s] = 0
    BY <1>1, ConfiguredVector DEF LoopInv
  <2>3. op # Idle
    BY <1>1 DEF Idle
  <2>4. todo = {<<Write>>} /\ \A it : Touches(op, it) = {op.state}
    <3>1. op.name \in StateOperations
      BY <1>1 DEF StateOperations
    <3>2. todo \subseteq Work(op) /\ todo # {}
      BY <1>1, <2>3 DEF LoopInv, TypeOK
    <3> QED BY <3>1, <3>2, StateTouches
  <2>5. Outcome' = Outcome
    BY <2>1, OutcomeLater
  <2>6. ASSUME NEW s \in States PROVE Vector'[s] = Expected(s)'
    <3>1. Expected(s)' = Expected(s)
      BY <2>1, <2>5 DEF Expected, Pending
    <3>2. CASE s = op.state
      BY <1>1, <2>2, <2>4, <3>1, <3>2 DEF Expected, Pending, Found
    <3>3. CASE s # op.state
      <4>1. Outcome[s] = 0
        BY <1>1, <3>3, VectorOutcomes DEF Outcome
      <4> QED BY <2>2, <2>4, <3>1, <3>3, <4>1 DEF Expected, Pending
    <3> QED BY <3>2, <3>3
  <2>7. VectorFits'
    BY <2>1, <2>6 DEF VectorFits
  <2>8. size' = 0
    BY <1>1 DEF Cache!Configure
  <2> QED BY <1>1, <2>1, <2>3, <2>7, <2>8
          DEF ValueInv, HalfFits, SumFits, BlockFits, FreshCache, LocalClear
<1> QED BY <1>2, <1>3

(* When an operation starts, every amplitude is as found.                  *)
LEMMA StartValues ==
  ASSUME LoopInv, ValueInv, NEW o \in Operations, Start(o)
  PROVE  ValueInv'
<1> DEFINE p == IF o.name = "Gate" THEN Dispatched(o) ELSE o
<1>1. /\ op = Idle /\ op' = p /\ todo' = Work(p) /\ before' = Vector /\ local' = local
      /\ phase' = IF o.name \in Initialisations THEN "configure" ELSE "first"
      /\ UNCHANGED cacheVars
  BY DEF Start
<1>2. WellFormed(p) /\ p # Idle
  <2>1. WellFormed(p)
    BY DispatchedFits DEF OpFits
  <2>2. p.name # "Idle"
    BY <2>1 DEF WellFormed, PairOperations
  <2> HIDE DEF p
  <2> QED BY <2>1, <2>2 DEF Idle
<1>3. p.name \in Initialisations => o.name = p.name
  BY DispatchedName
<1> HIDE DEF p
<1>4. Vector' = Vector
  BY <1>1 DEF Vector, Cache!Content, cacheVars
<1>5. Vector \in Vectors
  BY ContentType DEF LoopInv, Vectors
<1>6. phase' = "first" => p.name # "InitBasis" /\ p.name # "Load"
  BY <1>1, <1>3 DEF Initialisations
<1>7. phase' \in {"configure", "first"}
  BY <1>1
<1>8. VectorFits'
  <2> SUFFICES ASSUME phase' = "first", NEW s \in States PROVE Vector'[s] = Expected(s)'
    BY <1>1, <1>4, <1>7 DEF VectorFits, InProgress
  <2>1. Expected(s)' = IF \E it \in Work(p) : s \in Touches(p, it) THEN Found(p, Vector, s)
                       ELSE Promise!Result(p, Vector)[s]
    BY <1>1 DEF Expected, Pending, Outcome
  <2>2. Found(p, Vector, s) = Vector[s]
    BY <1>6 DEF Found
  <2>3. CASE \E it \in Work(p) : s \in Touches(p, it)
    BY <1>4, <2>1, <2>2, <2>3
  <2>4. CASE ~\E it \in Work(p) : s \in Touches(p, it)
    <3>1. Promise!Result(p, Vector)[s] = Found(p, Vector, s)
      BY <1>2, <1>5, <1>6, <2>4, Untouched
    <3> QED BY <1>4, <2>1, <2>2, <2>4, <3>1
  <2> QED BY <2>3, <2>4
<1>9. SumFits'
  <2> SUFFICES ASSUME p.name = "Inversion"
               PROVE  /\ \E m \in 0..ChunkCount(Layout) : SummedUpTo(m)'
                      /\ \A c, d \in Chunks : (<<Read, c>> \in todo => <<Write, d>> \in todo)'
    BY <1>1 DEF SumFits
  <2>1. \A c \in Chunks : <<Read, c>> \in todo' /\ <<Write, c>> \in todo' /\ 0 <= c
    BY <1>1, SizesNow, ChunkWork
  <2>2. 0 \in 0..ChunkCount(Layout)
    BY SizesNow
  <2>3. local'[0] = 0
    <3>1. 0 \in 0..(2^NumQubits - 1)
      BY SizesNow
    <3> QED BY <1>1, <3>1 DEF ValueInv, LocalClear, NoAmplitudes
  <2>4. (Prefix(before', ChunksEnd(0)) % 17) = 0
    <3> DEFINE n == 2^NumQubits
    <3>1. n \in Nat /\ \A x \in 0..(n - 1) : Vector[x] \in Int
      BY VectorSums, SizesNow DEF LoopInv
    <3> HIDE DEF n
    <3>2. Prefix(Vector, 0) = 0
      BY <3>1, PrefixStep
    <3> QED BY <1>1, <3>2, ChunkEnds
  <2>5. SummedUpTo(0)'
    BY <2>1, <2>3, <2>4 DEF SummedUpTo
  <2> QED BY <2>1, <2>2, <2>5
<1>10. BlockFits'
  BY <1>1 DEF BlockFits
<1> QED BY Zenon, <1>1, <1>2, <1>6, <1>7, <1>8, <1>9, <1>10 DEF ValueInv, HalfFits, FreshCache, LocalClear

(* Queries and batches keep nothing in a back end at rest.                 *)
LEMMA BetweenValues ==
  ASSUME LoopInv, ValueInv, op = Idle, UNCHANGED <<op, local>>, phase' \in {"idle", "failed"}
  PROVE  ValueInv'
<1>1. op' = Idle /\ local' = NoAmplitudes
  BY DEF ValueInv, LocalClear
<1> QED BY Zenon, <1>1 DEF ValueInv, VectorFits, HalfFits, SumFits, BlockFits, FreshCache, LocalClear,
                    InProgress, Idle, NoAmplitudes

(* The invariant is inductive, given that of the loops.                    *)
LEMMA NextValues == LoopInv /\ ValueInv /\ [Next]_vars => ValueInv'
<1> SUFFICES ASSUME LoopInv, ValueInv, [Next]_vars PROVE ValueInv'
  OBVIOUS
<1>1. CASE Step
  BY <1>1, AcquireFirstValues, AcquireSecondValues, ApplyPairValues, WriteSecondValues,
     ApplyToStateValues, SumChunkValues, ApplyToChunkValues, LoadAmplitudeValues,
     StoreAmplitudeValues, FinishValues, LoadValues, InitBasisValues DEF Step
<1>2. ASSUME NEW o \in Operations, Start(o) PROVE ValueInv'
  BY <1>2, StartValues
<1>3. op = Idle => phase \in {"idle", "failed"}
  BY Zenon DEF LoopInv, TypeOK
<1>4. ASSUME NEW s \in States, Query(s) PROVE ValueInv'
  <2>1. op = Idle /\ UNCHANGED <<op, local>> /\ phase' \in {"idle", "failed"}
    BY <1>3, <1>4 DEF Query
  <2> QED BY <2>1, BetweenValues
<1>5. CASE BeginBatch
  <2>1. op = Idle /\ UNCHANGED <<op, local>> /\ phase' \in {"idle", "failed"}
    BY <1>3, <1>5 DEF BeginBatch, opVars
  <2> QED BY <2>1, BetweenValues
<1>6. CASE EndBatch
  <2>1. op = Idle /\ UNCHANGED <<op, local>> /\ phase' \in {"idle", "failed"}
    BY <1>3, <1>6 DEF EndBatch, HowFlushed
  <2> QED BY <2>1, BetweenValues
<1>7. CASE UNCHANGED vars
  <2>1. /\ Vector' = Vector /\ Outcome' = Outcome
        /\ UNCHANGED <<op, phase, todo, local, before, size>>
    BY <1>7 DEF Vector, Cache!Content, Outcome, vars, cacheVars, opVars
  <2>2. VectorFits' /\ HalfFits'
    BY Zenon, <2>1 DEF ValueInv, VectorFits, HalfFits, InProgress, HalfDone, Expected, Pending
  <2>3. SumFits' /\ BlockFits' /\ FreshCache' /\ LocalClear'
    BY Zenon, <2>1 DEF ValueInv, SumFits, SummedUpTo, BlockFits, Reading, Writing, FreshCache, LocalClear,
                InProgress
  <2> QED BY <2>2, <2>3 DEF ValueInv
<1> QED BY <1>1, <1>2, <1>4, <1>5, <1>6, <1>7 DEF Next

LEMMA InitValues == Init => ValueInv
<1> SUFFICES ASSUME Init PROVE ValueInv
  OBVIOUS
<1>1. op = Idle /\ phase = "idle" /\ local = NoAmplitudes
  BY DEF Init
<1> QED BY <1>1, QuietValues

-------------------------------------------------------------------------------
(* The back end implements the state vector.                               *)

\* The vector the client sees: during a call, the one it had before.
Seen == IF op = Idle THEN Vector ELSE before

(* What is carried out is what was called, or its kernel.                  *)
LEMMA Requested ==
  ASSUME LoopInv
  PROVE  /\ op = Idle => request = NoRequest
         /\ op # Idle => /\ request \in Operations /\ request # NoRequest
                         /\ op = IF request.name = "Gate" THEN Dispatched(request) ELSE request
<1>1. /\ request \in Operations \cup {NoRequest}
      /\ op = CASE request = NoRequest -> Idle
                [] request.name = "Gate" -> Dispatched(request)
                [] OTHER -> request
  BY Zenon DEF LoopInv, TypeOK
<1>2. CASE request = NoRequest
  <2>1. request.name # "Gate"
    BY <1>2 DEF NoRequest
  <2>2. op = Idle
    BY <1>1, <1>2, <2>1
  <2> QED BY <1>2, <2>2
<1>3. CASE request # NoRequest
  <2> DEFINE p == IF request.name = "Gate" THEN Dispatched(request) ELSE request
  <2>1. request \in Operations /\ op = p
    BY <1>1, <1>3
  <2>2. WellFormed(p)
    BY <2>1, DispatchedFits DEF OpFits
  <2> HIDE DEF p
  <2>3. p.name # "Idle"
    BY <2>2 DEF WellFormed, PairOperations
  <2>4. op # Idle
    BY <2>1, <2>3 DEF Idle
  <2> QED BY <1>3, <2>1, <2>4 DEF p
<1> QED BY <1>2, <1>3

LEMMA RequestedOutcome ==
  ASSUME LoopInv, op # Idle
  PROVE  Promise!Result(request, before) = Outcome
<1>1. op = IF request.name = "Gate" THEN Dispatched(request) ELSE request
  BY Requested
<1> QED BY <1>1, DispatchedOutcome DEF Outcome

\* A flush that ends early and the end of a batch leave the vector alone.
LEMMA QuietVector ==
  ASSUME CP!Coherent
  PROVE  /\ UNCHANGED <<slots, chunkToSlot, store>> => Vector' = Vector
         /\ \A n \in 0..size : Cache!FlushUpTo(n) => Vector' = Vector
         /\ \A k \in 1..2, c \in Chunks : Cache!Acquire(k, c) => Vector' = Vector
<1>1. UNCHANGED <<slots, chunkToSlot, store>> => Vector' = Vector
  BY DEF Vector, Cache!Content
<1>2. ASSUME NEW n \in 0..size, Cache!FlushUpTo(n) PROVE Vector' = Vector
  BY <1>2, ChunksRead, VectorRead
<1>3. ASSUME NEW k \in 1..2, NEW c \in Chunks, Cache!Acquire(k, c) PROVE Vector' = Vector
  BY <1>3, ChunksRead, VectorRead
<1> QED BY <1>1, <1>2, <1>3

\* The end of an operation whose outcome is there.
LEMMA Returns ==
  ASSUME LoopInv, op # Idle, NEW how, Quit(how), Vector' = Outcome
  PROVE  Promise!Return
<1>1. op' = Idle /\ request' = NoRequest /\ request # NoRequest
  BY Requested DEF Quit
<1>2. Idle' = Idle
  BY DEF Idle
<1>3. Seen = before /\ Seen' = Outcome
  BY <1>1, <1>2 DEF Seen
<1>4. Seen' = Promise!Result(request, Seen)
  BY <1>3, RequestedOutcome
<1> QED BY <1>1, <1>4 DEF Promise!Return, Promise!NoRequest, NoRequest, Seen

LEMMA FinishReturns == LoopInv /\ ValueInv /\ Finish => Promise!Return
<1> SUFFICES ASSUME LoopInv, ValueInv, Finish PROVE Promise!Return
  OBVIOUS
<1>1. phase = "finish" /\ \E how \in {"idle", "failed"} : Quit(how)
  BY DEF Finish, Leave, HowFlushed
<1>2. op # Idle /\ todo = {} /\ CP!Coherent /\ before \in Vectors /\ WellFormed(op)
  BY <1>1 DEF LoopInv, TypeOK, PhaseFits, OpFits, Vectors
<1>3. Vector' = Vector
  <2>1. \/ UNCHANGED <<slots, chunkToSlot, store>>
        \/ \E n \in 0..size : Cache!FlushUpTo(n)
    BY DEF Finish
  <2> QED BY <1>2, <2>1, QuietVector
<1>4. Vector = Outcome
  <2>1. ASSUME NEW s \in States PROVE Vector[s] = Outcome[s]
    BY <1>1, <1>2 DEF ValueInv, VectorFits, InProgress, HalfDone, Expected, Pending
  <2>2. Outcome = [s \in States |-> Outcome[s]]
    BY <1>2, OutcomeStates DEF Outcome
  <2>3. Vector \in [States -> Amplitude]
    BY <1>2, ContentType
  <2> QED BY <2>1, <2>2, <2>3
<1> QED BY <1>1, <1>2, <1>3, <1>4, Returns

LEMMA LoadReturns == LoopInv /\ ValueInv /\ Load => Promise!Return
<1> SUFFICES ASSUME LoopInv, ValueInv, Load PROVE Promise!Return
  OBVIOUS
<1>1. /\ op.name = "Load" /\ op # Idle /\ phase = "configure" /\ Quit("idle")
      /\ Cache!Configure(ChunksOf(op.vector))
  BY DEF Load, Idle
<1>2. op.vector \in Vectors /\ CP!Coherent
  <2>1. WellFormed(op)
    BY <1>1 DEF LoopInv, PhaseFits, OpFits
  <2> QED BY <1>1, <2>1 DEF LoopInv, WellFormed, PairOperations, Vectors
<1>3. Vector' = op.vector
  BY <1>1, <1>2, ConfiguredVector
<1>4. Outcome = op.vector
  BY <1>1, VectorOutcomes DEF Outcome
<1> QED BY <1>1, <1>3, <1>4, Returns

(* A basis state outside the vector leaves zeros and throws.               *)
LEMMA InitBasisReturns ==
  ASSUME LoopInv, ValueInv, InitBasis, op.state \notin States
  PROVE  Promise!Return
<1>1. /\ op.name = "InitBasis" /\ op # Idle /\ Quit("failed")
      /\ Cache!Configure([c \in Chunks |-> ZeroBuffer])
  BY DEF InitBasis, Idle
<1>2. \A s \in States : Vector'[s] = 0
  BY <1>1, ConfiguredVector DEF LoopInv
<1>3. Outcome = [s \in States |-> 0]
  <2>1. Outcome = [s \in States |-> IF s = op.state THEN op.value ELSE 0]
    BY <1>1, VectorOutcomes DEF Outcome
  <2> QED BY <2>1
<1>4. Vector' = [s \in States |-> Vector'[s]]
  BY DEF Vector
<1>5. Vector' = Outcome
  BY <1>2, <1>3, <1>4
<1> QED BY <1>1, <1>5, Returns

\* A failed acquire: the iterations before it are done, on whole pairs.
LEMMA AcquireThrows ==
  ASSUME LoopInv, ValueInv, phase \in {"first", "second"}, NEW k \in 1..2, NEW c \in Chunks,
         Cache!Acquire(k, c), k = 1 => first' = Cache!NoHandle, k = 2 => second' = Cache!NoHandle,
         Quit("failed")
  PROVE  Promise!Throw
<1>1. Cache!AcquireStoreFails(k, c)
  <2> DEFINE h == IF k = 1 THEN first' ELSE second'
  <2>1. ASSUME NEW s, NEW reallocated, Cache!Hold(k, c, s, reallocated) PROVE FALSE
    <3>1. h.marks
      BY <2>1 DEF Cache!Hold
    <3> QED BY <3>1 DEF Cache!NoHandle
  <2>2. ~Cache!AcquireHit(k, c)
    BY <2>1 DEF Cache!AcquireHit
  <2>3. ~Cache!AcquireFill(k, c)
    BY <2>1 DEF Cache!AcquireFill, Cache!Load
  <2>4. ~Cache!AcquireEvict(k, c)
    BY <2>1 DEF Cache!AcquireEvict, Cache!Load
  <2> QED BY <2>2, <2>3, <2>4 DEF Cache!Acquire
<1>2. StoreMayFail /\ size = EffectiveCacheSlots /\ size # 0
  BY <1>1, SlotsNow DEF Cache!AcquireStoreFails
<1>3. /\ WellFormed(op) /\ op # Idle /\ CP!Coherent /\ todo \subseteq Work(op)
      /\ before \in Vectors
  BY Zenon, Running DEF LoopInv, TypeOK, Vectors
<1>4. op.name # "InitBasis"
  <2>1. CASE phase = "first"
    BY <1>2, <2>1 DEF ValueInv, FreshCache
  <2>2. CASE phase = "second"
    BY <2>2 DEF LoopInv, PhaseFits, TwoHandles, PairOperations
  <2> QED BY <2>1, <2>2
<1>5. Vector' = Vector
  BY <1>3, QuietVector
<1>6. \A s \in States : Vector[s] = IF Pending(s) THEN before[s] ELSE Outcome[s]
  BY Zenon, <1>4 DEF ValueInv, VectorFits, InProgress, HalfDone, Expected, Found
<1>7. /\ request # NoRequest /\ request' = NoRequest /\ op' = Idle
      /\ op = IF request.name = "Gate" THEN Dispatched(request) ELSE request
  BY <1>3, Requested DEF Quit
<1>8. ASSUME NEW s \in States
      PROVE  /\ Promise!Partner(request, s) \in States
             /\ Pending(Promise!Partner(request, s)) <=> Pending(s)
  <2>1. CASE request.name \in {"H", "X", "CNOT"}
    <3>1. op = request
      BY <1>7, <2>1
    <3> QED BY <1>3, <2>1, <3>1, PartnerTouched DEF Pending
  <2>2. CASE request.name \notin {"H", "X", "CNOT"}
    BY <2>2 DEF Promise!Partner
  <2> QED BY <2>1, <2>2
<1>9. ASSUME NEW s \in States
      PROVE  \/ \A t \in {s, Promise!Partner(request, s)} : Vector[t] = before[t]
             \/ \A t \in {s, Promise!Partner(request, s)} : Vector[t] = Outcome[t]
  BY <1>6, <1>8
<1>10. Seen = before /\ Seen' = Vector
  <2>1. Idle' = Idle
    BY DEF Idle
  <2> QED BY <1>3, <1>5, <1>7, <2>1 DEF Seen
<1>11. Promise!Result(request, Seen) = Outcome
  BY <1>3, <1>10, RequestedOutcome
<1>12. Vector \in [States -> Amplitude]
  BY <1>3, ContentType
<1>13. \A s \in States :
         \/ \A t \in {s, Promise!Partner(request, s)} : Seen'[t] = Seen[t]
         \/ \A t \in {s, Promise!Partner(request, s)} :
              Seen'[t] = Promise!Result(request, Seen)[t]
  BY <1>9, <1>10, <1>11
<1>14. /\ request # Promise!NoRequest /\ request' = Promise!NoRequest
       /\ Promise!States = States /\ Seen' \in [States -> Amplitude]
  BY <1>7, <1>10, <1>12 DEF NoRequest, Promise!NoRequest, Promise!States, States
<1>15. Promise!Amplitude = Amplitude
  BY DEF Promise!Amplitude, Amplitude
<1> QED BY <1>2, <1>13, <1>14, <1>15 DEF Promise!Throw, Seen

(* Each step of an operation is the promise's, or a stutter.               *)
LEMMA StepVector ==
  ASSUME LoopInv, ValueInv, Step
  PROVE  \/ Promise!Return \/ Promise!Throw
         \/ UNCHANGED <<Seen, request>>
<1>1. ASSUME op # Idle, UNCHANGED <<request, op, before>> PROVE UNCHANGED <<Seen, request>>
  <2>1. Idle' = Idle
    BY DEF Idle
  <2> QED BY <1>1, <2>1 DEF Seen
<1>2. phase \notin {"idle", "failed"} => op # Idle
  BY Zenon DEF LoopInv, TypeOK
<1>3. CASE AcquireFirst
  <2> DEFINE c == FirstRef(op, Earliest(todo)).chunk
  <2>1. phase = "first" /\ Cache!Acquire(1, c)
    BY <1>3 DEF AcquireFirst
  <2>2. c \in Chunks
    BY <2>1, Running DEF InLayout
  <2> HIDE DEF c
  <2>3. CASE first' = Cache!NoHandle
    <3>1. Quit("failed")
      BY <1>3, <2>3 DEF AcquireFirst, Leave
    <3> QED BY <2>1, <2>2, <2>3, <3>1, AcquireThrows
  <2>4. CASE first' # Cache!NoHandle
    BY <1>1, <1>2, <1>3, <2>4 DEF AcquireFirst
  <2> QED BY <2>3, <2>4
<1>4. CASE AcquireSecond
  <2> DEFINE c == PairCall(op, Earliest(todo)).ref1.chunk
  <2>1. phase = "second" /\ Cache!Acquire(2, c)
    BY <1>4 DEF AcquireSecond
  <2>2. c \in Chunks
    <3>1. op.name \in PairOperations /\ WellFormed(op) /\ Earliest(todo) \in Work(op)
      BY <2>1, Running DEF LoopInv, PhaseFits, TwoHandles
    <3> QED BY <3>1, PairInLayout DEF InLayout
  <2> HIDE DEF c
  <2>3. CASE second' = Cache!NoHandle
    <3>1. Quit("failed")
      BY <1>4, <2>3 DEF AcquireSecond, Leave
    <3> QED BY <2>1, <2>2, <2>3, <3>1, AcquireThrows
  <2>4. CASE second' # Cache!NoHandle
    BY <1>1, <1>2, <1>4, <2>4 DEF AcquireSecond
  <2> QED BY <2>3, <2>4
<1>5. CASE ApplyPair
  BY Zenon, <1>1, <1>2, <1>5 DEF ApplyPair, EndIteration
<1>6. CASE WriteSecond \/ ApplyToState \/ SumChunk \/ ApplyToChunk \/ LoadAmplitude \/ StoreAmplitude
  BY Zenon, <1>1, <1>2, <1>6
     DEF WriteSecond, ApplyToState, SumChunk, ApplyToChunk, LoadAmplitude, StoreAmplitude, EndIteration
<1>7. CASE Finish
  BY <1>7, FinishReturns
<1>8. CASE Load
  BY <1>8, LoadReturns
<1>9. CASE InitBasis
  <2>1. CASE op.state \notin States
    BY <1>9, <2>1, InitBasisReturns
  <2>2. CASE op.state \in States
    BY <1>1, <1>2, <1>9, <2>2 DEF InitBasis
  <2> QED BY <2>1, <2>2
<1> QED BY <1>3, <1>4, <1>5, <1>6, <1>7, <1>8, <1>9 DEF Step

(* A call makes the promise's request.                                     *)
LEMMA StartRequests ==
  ASSUME LoopInv, NEW o \in Operations, Start(o)
  PROVE  Promise!Request(o)
<1> DEFINE p == IF o.name = "Gate" THEN Dispatched(o) ELSE o
<1>1. op = Idle /\ op' = p /\ request' = o /\ before' = Vector
  BY DEF Start
<1>2. p.name # "Idle"
  <2>1. WellFormed(p)
    BY DispatchedFits DEF OpFits
  <2> QED BY <2>1 DEF WellFormed, PairOperations
<1> HIDE DEF p
<1>3. op' # Idle'
  BY <1>1, <1>2 DEF Idle
<1>4. request = NoRequest
  BY <1>1, Requested
<1>5. Seen = Vector /\ Seen' = Vector
  BY <1>1, <1>3 DEF Seen
<1> QED BY <1>1, <1>4, <1>5 DEF Promise!Request, Promise!NoRequest, NoRequest, Seen

(* Every step maps to a step of StateVector, or to a stutter.              *)
LEMMA NextVector ==
  ASSUME LoopInv, ValueInv, [Next]_vars
  PROVE  [Promise!Next]_<<Seen, request>>
<1>1. CP!Coherent
  BY DEF LoopInv
<1>2. ASSUME op = Idle, UNCHANGED <<request, op>>, Vector' = Vector PROVE UNCHANGED <<Seen, request>>
  <2>1. Idle' = Idle
    BY DEF Idle
  <2> QED BY <1>2, <2>1 DEF Seen
<1>3. CASE Step
  BY <1>3, StepVector DEF Promise!Next
<1>4. ASSUME NEW o \in Operations, Start(o) PROVE Promise!Next
  BY <1>4, StartRequests DEF Promise!Next
<1>5. ASSUME NEW s \in States, Query(s) PROVE UNCHANGED <<Seen, request>>
  <2> DEFINE c == StateRef(Layout, s).chunk
  <2>1. op = Idle /\ UNCHANGED <<request, op>> /\ Cache!Acquire(1, c)
    BY <1>5 DEF Query
  <2>2. c \in Chunks
    BY StateInLayout DEF InLayout
  <2> HIDE DEF c
  <2>3. Vector' = Vector
    BY <1>1, <2>1, <2>2, QuietVector
  <2> QED BY <1>2, <2>1, <2>3
<1>6. CASE BeginBatch
  <2>1. op = Idle /\ UNCHANGED <<request, op, slots, chunkToSlot, store>>
    BY <1>6 DEF BeginBatch, cacheVars, opVars
  <2> QED BY <1>1, <1>2, <2>1, QuietVector
<1>7. CASE EndBatch
  <2>1. /\ op = Idle /\ UNCHANGED <<request, op>>
        /\ \/ UNCHANGED <<slots, chunkToSlot, store>>
           \/ \E n \in 0..size : Cache!FlushUpTo(n)
    BY <1>7 DEF EndBatch, cacheVars
  <2>2. Vector' = Vector
    BY <1>1, <2>1, QuietVector
  <2> QED BY <1>2, <2>1, <2>2
<1>8. CASE UNCHANGED vars
  BY <1>8 DEF vars, cacheVars, opVars, Seen, Vector, Cache!Content, Idle
<1> QED BY <1>3, <1>4, <1>5, <1>6, <1>7, <1>8 DEF Next

(* The first vector is an initial vector.                                  *)
LEMMA InitVector == Init => Promise!Init
<1> SUFFICES ASSUME Init PROVE Promise!Init
  OBVIOUS
<1>1. PICK v \in Initial : store = ChunksOf(v)
  BY DEF Init
<1>2. op = Idle /\ request = NoRequest /\ \A c \in Chunks : chunkToSlot[c] = 0
  BY DEF Init, Cache!NoSlot
<1>3. v \in Vectors
  BY InitialAssumption DEF Vectors
<1>4. ASSUME NEW s \in States PROVE Vector[s] = v[s]
  <2>1. StateRef(Layout, s).chunk \in Chunks
    BY StateInLayout DEF InLayout
  <2>2. Cache!Content[StateRef(Layout, s).chunk] = store[StateRef(Layout, s).chunk]
    BY <1>2, <2>1 DEF Cache!Content, Cache!NoSlot
  <2> QED BY <1>1, <2>2, StoredVector DEF Vector
<1>5. Vector = v
  BY <1>3, <1>4 DEF Vector, Vectors
<1> QED BY <1>2, <1>5 DEF Promise!Init, Promise!NoRequest, NoRequest

(* Whatever the layout, the cache and the batches do, an operation acts on *)
(* the vector as its matrix does, one that throws on whole pairs, and      *)
(* nothing else changes the vector.                                        *)
THEOREM BackendImplementsVector == Spec => ImplementsStateVector
<1>1. LoopInv /\ ValueInv /\ [Next]_vars => [Promise!Next]_<<Seen, request>>
  BY NextVector
<1> QED BY <1>1, InitLoop, InitValues, InitVector, NextLoop, NextValues, PTL
        DEF Spec, ImplementsStateVector, Promise!Spec, Seen

-------------------------------------------------------------------------------
(* The dense back end's loops.                                             *)

LEMMA TargetQubit ==
  ASSUME NEW o, WellFormed(o), o.name \in PairOperations
  PROVE  Target(o) \in Qubits
<1>1. PICK k \in 1..2 : o.qubits \in QubitLists(k)
  BY DEF WellFormed, PairOperations
<1>2. o.qubits \in [1..k -> Qubits]
  BY <1>1 DEF QubitLists, Injection
<1>3. Len(o.qubits) = k
  BY <1>2
<1> QED BY <1>2, <1>3 DEF Target

(* Operators the two back ends define alike.                               *)
LEMMA DenseNames ==
  /\ Dense!StateIndices = States /\ Dense!NumStates = 2^NumQubits
  /\ \A q : Dense!BitMask(q) = QubitMask(q)
  /\ \A s, q : Dense!IsSet(s, q) <=> HasBit(s, q)
  /\ \A s : Dense!Max(s) = Max(s)
  /\ \A a, b : /\ Dense!Plus(a, b) = Plus(a, b) /\ Dense!Minus(a, b) = Minus(a, b)
               /\ Dense!Times(a, b) = Times(a, b)
  /\ Dense!InvSqrt2 = InvSqrt2
  /\ Dense!InversePower2(NumQubits) = InversePower2(NumQubits)
<1>1. Dense!StateIndices = States /\ Dense!NumStates = 2^NumQubits
  BY DEF Dense!StateIndices, Dense!NumStates, States
<1>2. \A q : Dense!BitMask(q) = QubitMask(q)
  BY DEF Dense!BitMask, QubitMask
<1>3. \A s, q : Dense!IsSet(s, q) <=> HasBit(s, q)
  BY <1>2 DEF Dense!IsSet, HasBit
<1>4. \A s : Dense!Max(s) = Max(s)
  BY DEF Max, Dense!Max
<1>5. \A a, b : /\ Dense!Plus(a, b) = Plus(a, b) /\ Dense!Minus(a, b) = Minus(a, b)
                /\ Dense!Times(a, b) = Times(a, b)
  BY DEF Plus, Dense!Plus, Minus, Dense!Minus, Times, Dense!Times
<1>6. Dense!InvSqrt2 = InvSqrt2
  BY DEF InvSqrt2, Dense!InvSqrt2
<1>7. Dense!InversePower2(NumQubits) = InversePower2(NumQubits)
  BY DEF InversePower2, Dense!InversePower2, Half, Dense!Half
<1> QED BY <1>1, <1>2, <1>3, <1>4, <1>5, <1>6, <1>7

LEMMA DenseTotal == \A f : Dense!Total(f) = Total(f)
<1> SUFFICES ASSUME NEW f PROVE Dense!Total(f) = Total(f)
  OBVIOUS
<1>1. Dense!SumFunction(f) = SumFunction(f)
  BY DEF SumFunction, Dense!SumFunction, SumFunctionOnSet, Dense!SumFunctionOnSet,
         FoldFunctionOnSet, Dense!FoldFunctionOnSet, MapThenFoldSet, Dense!MapThenFoldSet
<1> QED BY <1>1 DEF Total, Dense!Total

(* A pair function does what the compressed back end's kernel does.        *)
LEMMA DenseBody ==
  ASSUME NEW o, o.name \in PairOperations, NEW w \in Vectors, NEW s \in States, NEW t \in States,
         s # t
  PROVE  LET body == PairBody(o, [state0 |-> s, state1 |-> t], w[s], w[t])
         IN Dense!PairFn(o, w, s, t) = [w EXCEPT ![s] = body.amps[1], ![t] = body.amps[2]]
<1> DEFINE call == [state0 |-> s, state1 |-> t]
           body == PairBody(o, call, w[s], w[t])
           same == [w EXCEPT ![s] = w[s], ![t] = w[t]]
<1>1. same = w
  BY DEF Vectors
<1>2. CASE o.name = "H"
  BY <1>1, <1>2, DenseNames DEF PairBody, Dense!PairFn
<1>3. CASE o.name = "X"
  BY <1>1, <1>3, DenseNames DEF PairBody, Dense!PairFn
<1>4. CASE o.name = "CP"
  <2>1. [w EXCEPT ![t] = Times(o.phase, @)] = [w EXCEPT ![s] = w[s], ![t] = Times(o.phase, w[t])]
    BY DEF Vectors
  <2> QED BY <1>1, <1>4, <2>1, DenseNames DEF PairBody, Dense!PairFn
<1>5. CASE o.name = "CNOT"
  BY <1>1, <1>5, DenseNames DEF PairBody, Dense!PairFn
<1> QED BY <1>2, <1>3, <1>4, <1>5 DEF PairOperations

(* So it keeps a vector a vector, and sets the two to the outcome if it    *)
(* finds them as they were.                                                *)
LEMMA DensePair ==
  ASSUME NEW o, WellFormed(o), o.name \in PairOperations, NEW s, NEW t, IsPairOf(Target(o), s, t),
         NEW w \in Vectors
  PROVE  /\ Dense!PairFn(o, w, s, t) \in Vectors
         /\ \A v \in Vectors : w[s] = v[s] /\ w[t] = v[t] =>
              \A r \in States : Dense!PairFn(o, w, s, t)[r]
                = IF r \in {s, t} THEN Promise!Result(o, v)[r] ELSE w[r]
<1> DEFINE call == [state0 |-> s, state1 |-> t]
           body == PairBody(o, call, w[s], w[t])
           u == Dense!PairFn(o, w, s, t)
<1>1. call.state0 = s /\ call.state1 = t /\ IsPairOf(Target(o), call.state0, call.state1)
  OBVIOUS
<1>2. s \in States /\ t \in States /\ s # t
  BY <1>1, KernelOutcome
<1>3. u = [w EXCEPT ![s] = body.amps[1], ![t] = body.amps[2]]
  BY <1>2, DenseBody
<1>4. w[s] \in Amplitude /\ w[t] \in Amplitude
  BY <1>2 DEF Vectors
<1>5. body.amps[1] \in Amplitude /\ body.amps[2] \in Amplitude
  BY <1>4, PairBodyType
<1> DEFINE a == body.amps[1]  b == body.amps[2]
<1>6. u = [w EXCEPT ![s] = a, ![t] = b] /\ a \in Amplitude /\ b \in Amplitude
  BY <1>3, <1>5
<1>7. ASSUME NEW v \in Vectors, w[s] = v[s], w[t] = v[t]
      PROVE  Promise!Result(o, v)[s] = a /\ Promise!Result(o, v)[t] = b
  <2>1. body = PairBody(o, call, v[call.state0], v[call.state1])
    BY <1>1, <1>7
  <2> HIDE DEF call, body
  <2>2. /\ Promise!Result(o, v)[call.state0] = body.amps[1]
        /\ Promise!Result(o, v)[call.state1] = body.amps[2]
    BY <1>1, <2>1, KernelOutcome
  <2> QED BY <1>1, <2>2
<1> HIDE DEF a, b, u
<1>8. u \in Vectors
  BY <1>2, <1>6 DEF Vectors
<1>9. \A r \in States : u[r] = IF r = t THEN b ELSE IF r = s THEN a ELSE w[r]
  BY <1>2, <1>6 DEF Vectors
<1> QED BY <1>2, <1>7, <1>8, <1>9 DEF u

(* The states a stride holds.                                              *)
LEMMA StrideStates ==
  ASSUME NEW d \in Nat \ {0}, NEW n \in Nat, (n % d) = 0, NEW b \in Nat, b < n \div d
  PROVE  /\ d * b \in Nat /\ ((d * b) % d) = 0 /\ d * b + d <= n
         /\ \A s \in Nat : s \div d = b <=> d * b <= s /\ s < d * b + d
<1> DEFINE c == n \div d  e == c - b - 1
<1>1. c \in Nat /\ n = d * c
  BY MultipleOf
<1>2. e \in Nat /\ c = b + 1 + e
  BY <1>1
<1> HIDE DEF c, e
<1>3. d * c = d * b + d + d * e /\ d * e \in Nat /\ d * b \in Nat
  BY <1>2
<1>4. d * b + d <= n
  BY <1>1, <1>3
<1>5. ((d * b) % d) = 0
  <2>1. d * b + 0 = d * b /\ 0 \in Nat /\ 0 < d
    BY <1>3
  <2> QED BY <2>1, DivisionUnique
<1>6. ASSUME NEW s \in Nat PROVE s \div d = b <=> d * b <= s /\ s < d * b + d
  <2>1. s \div d \in Nat /\ (s % d) \in 0..(d - 1) /\ s = d * (s \div d) + (s % d)
    BY Division
  <2>2. ASSUME s \div d = b PROVE d * b <= s /\ s < d * b + d
    <3>1. s = d * b + (s % d)
      BY <2>1, <2>2
    <3> QED BY <1>3, <2>1, <3>1
  <2>3. ASSUME d * b <= s, s < d * b + d PROVE s \div d = b
    <3>1. s - d * b \in Nat /\ s - d * b < d /\ s = d * b + (s - d * b)
      BY <1>3, <2>3
    <3> QED BY <3>1, DivisionUnique
  <2> QED BY <2>2, <2>3
<1> QED BY <1>3, <1>4, <1>5, <1>6

(* The loops of the fallback traversal: strides, and pairs in a stride.    *)
LEMMA StridePairs ==
  ASSUME NEW q \in Qubits, NEW m, m = QubitMask(q), NEW b \in Nat, b < 2^NumQubits \div (2 * m)
  PROVE  /\ 2 * m * b \in Nat
         /\ \A x \in 0..(m - 1) : IsPairOf(q, 2 * m * b + x, 2 * m * b + x + m)
         /\ \A s \in States : s \div (2 * m) = b <=>
              \E x \in 0..(m - 1) : s \in {2 * m * b + x, 2 * m * b + x + m}
<1> DEFINE n == 2^NumQubits
<1>1. n \in Nat /\ m \in Nat \ {0} /\ (n % (2 * m)) = 0 /\ 2 * m \in Nat \ {0}
  BY StateNumbers, MasksAssumption
<1>2. \A s : s \in States <=> s \in Nat /\ s < n
  BY StateNumbers
<1>3. Promise!Mask(q) = m /\ \A s : Promise!Bit(s, q) = ((s \div m) % 2)
  BY BitIsDigit DEF Promise!Bit
<1> HIDE DEF n
<1>4. /\ 2 * m * b \in Nat /\ ((2 * m * b) % (2 * m)) = 0 /\ 2 * m * b + 2 * m <= n
      /\ \A s \in Nat : s \div (2 * m) = b <=> 2 * m * b <= s /\ s < 2 * m * b + 2 * m
  BY <1>1, StrideStates DEF n
<1> DEFINE base == 2 * m * b
<1>5. base \in Nat /\ (base % (2 * m)) = 0 /\ base + 2 * m <= n /\ base < n
  BY <1>1, <1>4
<1>6. \A s \in Nat : s \div (2 * m) = b <=> base <= s /\ s < base + 2 * m
  BY <1>4
<1> HIDE DEF base
<1>7. ASSUME NEW x \in 0..(m - 1) PROVE IsPairOf(q, base + x, base + x + m)
  <2>1. base + x + m < n /\ (((base + x) \div m) % 2) = 0
    BY Zenon, <1>1, <1>5, LowerState
  <2>2. base + x \in Nat /\ base + x < n /\ base + x + m \in Nat
    BY <1>1, <1>5, <2>1
  <2>3. base + x \in States /\ base + x + m \in States
    BY <1>2, <2>1, <2>2
  <2> QED BY <1>3, <2>1, <2>3, PairsDiffer
<1>8. ASSUME NEW s \in States
      PROVE  s \div (2 * m) = b <=> \E x \in 0..(m - 1) : s \in {base + x, base + x + m}
  <2>1. s \in Nat /\ (s \div (2 * m) = b <=> base <= s /\ s < base + 2 * m)
    BY <1>2, <1>6
  <2>2. ASSUME base <= s, s < base + 2 * m
        PROVE  \E x \in 0..(m - 1) : s \in {base + x, base + x + m}
    <3>1. CASE s < base + m
      <4>1. s - base \in 0..(m - 1) /\ s = base + (s - base)
        BY <1>1, <1>5, <2>1, <2>2, <3>1
      <4> QED BY <4>1
    <3>2. CASE base + m <= s
      <4>1. s - base - m \in 0..(m - 1) /\ s = base + (s - base - m) + m
        BY <1>1, <1>5, <2>1, <2>2, <3>2
      <4> QED BY <4>1
    <3> QED BY <1>1, <1>5, <2>1, <3>1, <3>2
  <2>3. ASSUME NEW x \in 0..(m - 1), s \in {base + x, base + x + m}
        PROVE  base <= s /\ s < base + 2 * m
    BY <1>1, <1>5, <2>3
  <2> QED BY <2>1, <2>2, <2>3
<1> QED BY <1>5, <1>7, <1>8 DEF base

\* Step k of the loop over the pairs of a stride, which begins at base.
OffsetSteps(o, m, base) ==
  [k \in 1..m |-> [w \in Vectors |-> Dense!PairFn(o, w, base + (k - 1), base + (k - 1) + m)]]

(* The inner loop is a fold of these steps.                                *)
LEMMA OffsetsFold ==
  ASSUME NEW o, NEW m \in Nat, m = Dense!BitMask(Target(o)), NEW base, NEW v \in Vectors,
         OffsetSteps(o, m, base) \in [1..m -> [Vectors -> Vectors]]
  PROVE  \E c : FoldsBy(m, v, OffsetSteps(o, m, base), Vectors, c)
                /\ Dense!RunOffsets(o, v, base) = c[1..m]
<1> DEFINE mask == Dense!BitMask(o.qubits[Len(o.qubits)])
           seq == [k \in 1..mask |-> k - 1]
           F == OffsetSteps(o, m, base)
           Body(h) == [s \in SUBSET DOMAIN seq |->
                         IF s = {} THEN v
                         ELSE Dense!PairFn(o, h[s \ {Dense!Max(s)}], base + seq[Dense!Max(s)],
                                           base + seq[Dense!Max(s)] + mask)]
           c == CHOOSE h : h = Body(h)
<1>1. mask = m /\ DOMAIN seq = 1..m /\ \A k \in 1..m : seq[k] = k - 1
  BY DEF Target
<1>2. Dense!RunOffsets(o, v, base) = c[DOMAIN seq]
  BY DEF Dense!RunOffsets, Dense!FoldLeft, Dense!MapThenFoldSet
<1>3. \A k \in 1..m, w \in Vectors : F[k][w] = Dense!PairFn(o, w, base + seq[k], base + seq[k] + mask)
  BY <1>1 DEF OffsetSteps
<1> HIDE DEF F, seq, mask
<1>4. PICK g \in [SUBSET (1..m) -> Vectors] : LeftFolding(m, v, F, g)
  BY LeftFold DEF F
<1>5. g = Body(g)
  <2>1. ASSUME NEW s \in SUBSET (1..m)
        PROVE  g[s] = IF s = {} THEN v
                      ELSE Dense!PairFn(o, g[s \ {Dense!Max(s)}], base + seq[Dense!Max(s)],
                                        base + seq[Dense!Max(s)] + mask)
    <3>1. g[s] = IF s = {} THEN v ELSE F[Max(s)][g[s \ {Max(s)}]]
      BY <1>4 DEF LeftFolding
    <3>2. s # {} => Max(s) \in 1..m /\ g[s \ {Max(s)}] \in Vectors
      BY <1>4, MaxIn
    <3>3. Dense!Max(s) = Max(s)
      BY DenseNames
    <3> QED BY <1>3, <3>1, <3>2, <3>3
  <2> QED BY <1>1, <2>1
<1>6. c = Body(c)
  <2> HIDE DEF Body
  <2> QED BY <1>5
<1>7. FoldsBy(m, v, F, Vectors, c)
  <2> HIDE DEF c
  <2>1. ASSUME NEW s \in SUBSET (1..m)
        PROVE  /\ s = {} => c[s] = v
               /\ s # {} /\ c[s \ {Max(s)}] \in Vectors => c[s] = F[Max(s)][c[s \ {Max(s)}]]
    <3>1. Dense!Max(s) = Max(s) /\ (s # {} => Max(s) \in 1..m)
      BY DenseNames, MaxIn
    <3>2. c[s] = IF s = {} THEN v
                 ELSE Dense!PairFn(o, c[s \ {Dense!Max(s)}], base + seq[Dense!Max(s)],
                                   base + seq[Dense!Max(s)] + mask)
      BY <1>1, <1>6
    <3> QED BY <1>3, <3>1, <3>2
  <2> QED BY <2>1 DEF FoldsBy
<1> QED BY <1>1, <1>2, <1>7 DEF F

\* The states of stride b are set to r, if they are found as in v.
StrideSet(d, b, w, u, r) ==
  \A s \in States : u[s] = IF s \div d = b THEN r[s] ELSE w[s]

(* The loop over the pairs of a stride sets the states of the stride.      *)
LEMMA StrideOutcome ==
  ASSUME NEW o, WellFormed(o), o.name \in PairOperations, NEW m, m = QubitMask(Target(o)),
         NEW b \in Nat, b < 2^NumQubits \div (2 * m),
         NEW v \in Vectors, NEW w \in Vectors, \A s \in States : s \div (2 * m) = b => w[s] = v[s]
  PROVE  /\ Dense!RunOffsets(o, w, 2 * m * b) \in Vectors
         /\ StrideSet(2 * m, b, w, Dense!RunOffsets(o, w, 2 * m * b), Promise!Result(o, v))
<1> DEFINE q == Target(o)  base == 2 * m * b  r == Promise!Result(o, v)
           F == OffsetSteps(o, m, base)
           T == [k \in 1..m |-> {base + (k - 1), base + (k - 1) + m}]
<1>1. q \in Qubits
  BY TargetQubit
<1>2. m \in Nat \ {0} /\ m = Dense!BitMask(q)
  BY <1>1, MasksAssumption, DenseNames
<1>3. /\ base \in Nat
      /\ \A x \in 0..(m - 1) : IsPairOf(q, base + x, base + x + m)
      /\ \A s \in States : s \div (2 * m) = b <=>
           \E x \in 0..(m - 1) : s \in {base + x, base + x + m}
  BY <1>1, StridePairs
<1> HIDE DEF base
<1>4. \A k \in 1..m : k - 1 \in 0..(m - 1)
  BY <1>2
<1>5. \A k \in 1..m, u \in Vectors :
        F[k][u] = Dense!PairFn(o, u, base + (k - 1), base + (k - 1) + m)
  BY DEF OffsetSteps
<1>6. F \in [1..m -> [Vectors -> Vectors]]
  <2>1. \A k \in 1..m, u \in Vectors :
          Dense!PairFn(o, u, base + (k - 1), base + (k - 1) + m) \in Vectors
    BY <1>3, <1>4, DensePair
  <2> QED BY <2>1 DEF OffsetSteps
<1> HIDE DEF F
<1>7. SetsParts(m, States, Vectors, F, T, v, r)
  <2> SUFFICES ASSUME NEW k \in 1..m, NEW u \in Vectors, \A s \in States : s \in T[k] => u[s] = v[s]
               PROVE  \A s \in States : F[k][u][s] = IF s \in T[k] THEN r[s] ELSE u[s]
    BY DEF SetsParts
  <2> DEFINE x == base + (k - 1)  y == base + (k - 1) + m
  <2>1. IsPairOf(q, x, y) /\ T[k] = {x, y} /\ F[k][u] = Dense!PairFn(o, u, x, y)
    BY <1>3, <1>4, <1>5
  <2>2. x \in States /\ y \in States
    BY <2>1 DEF IsPairOf
  <2> HIDE DEF x, y, T, r, q
  <2>3. u[x] = v[x] /\ u[y] = v[y]
    BY <2>1, <2>2
  <2>4. \A s \in States : Dense!PairFn(o, u, x, y)[s]
          = IF s \in {x, y} THEN Promise!Result(o, v)[s] ELSE u[s]
    BY <2>1, <2>3, DensePair DEF q
  <2> QED BY <2>1, <2>4 DEF r
<1>8. \A j, k \in 1..m : \A s \in States : s \in T[j] /\ s \in T[k] => j = k
  BY <1>2, <1>3
<1>9. \A k \in 1..m : \A s \in States : s \in T[k] => w[s] = v[s]
  BY <1>3, <1>4
<1>10. \A s \in States : (\E k \in 1..m : s \in T[k]) <=> s \div (2 * m) = b
  <2>1. ASSUME NEW s \in States, NEW x \in 0..(m - 1), s \in {base + x, base + x + m}
        PROVE  \E k \in 1..m : s \in T[k]
    <3>1. x + 1 \in 1..m /\ (x + 1) - 1 = x
      BY <1>2
    <3>2. T[x + 1] = {base + x, base + x + m}
      BY <3>1
    <3> HIDE DEF T
    <3> QED BY <2>1, <3>1, <3>2
  <2>2. ASSUME NEW s \in States, NEW k \in 1..m, s \in T[k]
        PROVE  \E x \in 0..(m - 1) : s \in {base + x, base + x + m}
    BY <1>4, <2>2
  <2> HIDE DEF T
  <2> QED BY <1>3, <2>1, <2>2
<1> HIDE DEF T
<1>11. PICK c : FoldsBy(m, w, F, Vectors, c) /\ Dense!RunOffsets(o, w, base) = c[1..m]
  BY <1>2, <1>6, OffsetsFold DEF F
<1>12. c[1..m] \in Vectors /\ PartsSet(m, States, T, w, r, c[1..m])
  BY <1>2, <1>6, <1>7, <1>8, <1>9, <1>11, PartsFolded
<1> QED BY <1>10, <1>11, <1>12 DEF PartsSet, StrideSet, base

\* Step k of the loop over the strides.
StrideSteps(o, d, n) ==
  [k \in 1..n |-> [w \in Vectors |-> Dense!RunOffsets(o, w, d * (k - 1))]]

(* The outer loop is a fold of these steps.                                *)
LEMMA StridesFold ==
  ASSUME NEW o, NEW d, d = 2 * Dense!BitMask(Target(o)), NEW n \in Nat, n = Dense!NumStates \div d,
         amplitudes \in Vectors, StrideSteps(o, d, n) \in [1..n -> [Vectors -> Vectors]]
  PROVE  \E c : FoldsBy(n, amplitudes, StrideSteps(o, d, n), Vectors, c)
                /\ Dense!RunPairKernel(o) = c[1..n]
<1> DEFINE stride == 2 * Dense!BitMask(o.qubits[Len(o.qubits)])
           seq == [k \in 1..(Dense!NumStates \div stride) |-> stride * (k - 1)]
           F == StrideSteps(o, d, n)
           Body(h) == [s \in SUBSET DOMAIN seq |->
                         IF s = {} THEN amplitudes
                         ELSE Dense!RunOffsets(o, h[s \ {Dense!Max(s)}], seq[Dense!Max(s)])]
           c == CHOOSE h : h = Body(h)
<1>1. stride = d /\ DOMAIN seq = 1..n /\ \A k \in 1..n : seq[k] = d * (k - 1)
  BY DEF Target
<1>2. Dense!RunPairKernel(o) = c[DOMAIN seq]
  BY DEF Dense!RunPairKernel, Dense!FoldLeft, Dense!MapThenFoldSet
<1>3. \A k \in 1..n, w \in Vectors : F[k][w] = Dense!RunOffsets(o, w, seq[k])
  BY <1>1 DEF StrideSteps
<1> HIDE DEF F, seq, stride
<1>4. PICK g \in [SUBSET (1..n) -> Vectors] : LeftFolding(n, amplitudes, F, g)
  BY LeftFold DEF F
<1>5. g = Body(g)
  <2>1. ASSUME NEW s \in SUBSET (1..n)
        PROVE  g[s] = IF s = {} THEN amplitudes
                      ELSE Dense!RunOffsets(o, g[s \ {Dense!Max(s)}], seq[Dense!Max(s)])
    <3>1. g[s] = IF s = {} THEN amplitudes ELSE F[Max(s)][g[s \ {Max(s)}]]
      BY <1>4 DEF LeftFolding
    <3>2. s # {} => Max(s) \in 1..n /\ g[s \ {Max(s)}] \in Vectors
      BY <1>4, MaxIn
    <3>3. Dense!Max(s) = Max(s)
      BY DenseNames
    <3> QED BY <1>3, <3>1, <3>2, <3>3
  <2> QED BY <1>1, <2>1
<1>6. c = Body(c)
  <2> HIDE DEF Body
  <2> QED BY <1>5
<1>7. FoldsBy(n, amplitudes, F, Vectors, c)
  <2> HIDE DEF c
  <2>1. ASSUME NEW s \in SUBSET (1..n)
        PROVE  /\ s = {} => c[s] = amplitudes
               /\ s # {} /\ c[s \ {Max(s)}] \in Vectors => c[s] = F[Max(s)][c[s \ {Max(s)}]]
    <3>1. Dense!Max(s) = Max(s) /\ (s # {} => Max(s) \in 1..n)
      BY DenseNames, MaxIn
    <3>2. c[s] = IF s = {} THEN amplitudes
                 ELSE Dense!RunOffsets(o, c[s \ {Dense!Max(s)}], seq[Dense!Max(s)])
      BY <1>1, <1>6
    <3> QED BY <1>3, <3>1, <3>2
  <2> QED BY <2>1 DEF FoldsBy
<1> QED BY <1>1, <1>2, <1>7 DEF F

(* The dense pair kernel sweeps the whole vector.                          *)
LEMMA DensePairKernel ==
  ASSUME NEW o, WellFormed(o), o.name \in PairOperations, amplitudes \in Vectors
  PROVE  Dense!RunPairKernel(o) = Promise!Result(o, amplitudes)
<1> DEFINE v == amplitudes  r == Promise!Result(o, v)  m == QubitMask(Target(o))  d == 2 * m
           n == 2^NumQubits \div d
           F == StrideSteps(o, d, n)
           T == [k \in 1..n |-> {s \in States : s \div d = k - 1}]
<1>1. /\ m \in Nat \ {0} /\ (2^NumQubits % d) = 0 /\ 2^NumQubits \in Nat \ {0} /\ d \in Nat \ {0}
      /\ Dense!BitMask(Target(o)) = m /\ Dense!NumStates = 2^NumQubits
  BY TargetQubit, MasksAssumption, StateNumbers, DenseNames
<1>2. n \in Nat /\ 2^NumQubits = d * n
  BY <1>1, MultipleOf
<1>3. ASSUME NEW k \in 1..n PROVE k - 1 \in Nat /\ k - 1 < n
  BY <1>2
<1>4. ASSUME NEW k \in 1..n, NEW u \in Vectors, NEW w \in Vectors,
             \A s \in States : s \div d = k - 1 => w[s] = u[s]
      PROVE  /\ Dense!RunOffsets(o, w, d * (k - 1)) \in Vectors
             /\ StrideSet(d, k - 1, w, Dense!RunOffsets(o, w, d * (k - 1)), Promise!Result(o, u))
  BY <1>3, <1>4, StrideOutcome
<1> HIDE DEF m, d, n
<1>5. \A k \in 1..n, w \in Vectors : F[k][w] = Dense!RunOffsets(o, w, d * (k - 1))
  BY DEF StrideSteps
<1>6. F \in [1..n -> [Vectors -> Vectors]]
  BY <1>4 DEF StrideSteps
<1> HIDE DEF F
<1>7. SetsParts(n, States, Vectors, F, T, v, r)
  <2> SUFFICES ASSUME NEW k \in 1..n, NEW w \in Vectors, \A s \in States : s \in T[k] => w[s] = v[s]
               PROVE  \A s \in States : F[k][w][s] = IF s \in T[k] THEN r[s] ELSE w[s]
    BY DEF SetsParts
  <2>1. \A s \in States : s \in T[k] <=> s \div d = k - 1
    OBVIOUS
  <2>2. StrideSet(d, k - 1, w, Dense!RunOffsets(o, w, d * (k - 1)), Promise!Result(o, v))
    BY <1>4, <2>1
  <2> HIDE DEF T
  <2> QED BY <1>5, <2>1, <2>2 DEF StrideSet
<1>8. \A j, k \in 1..n : \A s \in States : s \in T[j] /\ s \in T[k] => j = k
  OBVIOUS
<1>9. \A s \in States : \E k \in 1..n : s \in T[k]
  <2> SUFFICES ASSUME NEW s \in States PROVE \E k \in 1..n : s \in T[k]
    OBVIOUS
  <2>1. s \in Nat /\ s < d * n
    BY <1>2, StateNumbers
  <2>2. s \div d \in Nat /\ d * (s \div d) <= s /\ d * (s \div d) \in Nat
    <3>1. s \div d \in Nat /\ (s % d) \in 0..(d - 1) /\ s = d * (s \div d) + (s % d)
      BY <1>1, <2>1, Division
    <3>2. d * (s \div d) \in Nat
      BY <1>1, <3>1
    <3> QED BY <1>1, <3>1, <3>2
  <2>3. d * (s \div d) < d * n
    BY <1>1, <1>2, <2>1, <2>2
  <2>4. s \div d < n
    BY <1>1, <1>2, <2>2, <2>3, FactorsInOrder
  <2>5. s \div d + 1 \in 1..n /\ (s \div d + 1) - 1 = s \div d
    BY <1>2, <2>2, <2>4
  <2> QED BY <2>5
<1>10. PICK c : FoldsBy(n, v, F, Vectors, c) /\ Dense!RunPairKernel(o) = c[1..n]
  BY <1>1, <1>2, <1>6, StridesFold DEF F, d, n
<1> HIDE DEF T
<1>11. c[1..n] \in Vectors /\ PartsSet(n, States, T, v, r, c[1..n])
  BY <1>2, <1>6, <1>7, <1>8, <1>10, PartsFolded
<1>12. c[1..n] = [s \in States |-> r[s]]
  BY <1>9, <1>11 DEF PartsSet, Vectors
<1> QED BY <1>10, <1>12, OutcomeStates

(* Blocks and gates, in both back ends.                                    *)
LEMMA DenseBlocks ==
  /\ \A n : Dense!Rows(n) = Rows(n)
  /\ \A qs : Dense!BlockSize(qs) = BlockSize(qs)
  /\ \A qs : Dense!NumBlocks(qs, NumQubits) = NumBlocks(qs, NumQubits)
  /\ \A qs, b, row : Dense!BlockState(qs, NumQubits, b, row) = BlockState(qs, NumQubits, b, row)
  /\ \A gate, row, amps : Dense!NewAmplitude(gate, row, amps) = NewAmplitude(gate, row, amps)
<1>1. \A n : Dense!Rows(n) = Rows(n)
  BY DEF Dense!Rows, Rows
<1>2. \A qs : Dense!BlockSize(qs) = BlockSize(qs)
  BY DEF Dense!BlockSize, BlockSize
<1>3. \A qs : Dense!NumBlocks(qs, NumQubits) = NumBlocks(qs, NumQubits)
  BY DEF Dense!NumBlocks, NumBlocks
<1>4. ASSUME NEW qs
      PROVE  /\ Dense!TargetPositions(qs, NumQubits) = TargetPositions(qs, NumQubits)
             /\ Dense!NonTargetPositions(qs, NumQubits) = NonTargetPositions(qs, NumQubits)
  <2>1. Dense!TargetPositions(qs, NumQubits) = TargetPositions(qs, NumQubits)
    BY DEF Dense!TargetPositions, TargetPositions
  <2>2. Dense!NonTargetPositions(qs, NumQubits) = NonTargetPositions(qs, NumQubits)
    BY DEF Dense!NonTargetPositions, NonTargetPositions, Dense!TargetPositions, TargetPositions,
           Dense!Cardinality, Cardinality
  <2> QED BY <2>1, <2>2
<1>5. ASSUME NEW b, NEW pos
      PROVE  Dense!ComposeBaseStateFromBlock(b, pos) = ComposeBaseStateFromBlock(b, pos)
  BY DEF Dense!ComposeBaseStateFromBlock, ComposeBaseStateFromBlock, Dense!MapThenSumSet,
         MapThenSumSet, Dense!MapThenFoldSet, MapThenFoldSet
<1>6. ASSUME NEW qs, NEW row
      PROVE  Dense!BlockOffset(qs, NumQubits, row) = BlockOffset(qs, NumQubits, row)
  BY DEF Dense!BlockOffset, BlockOffset, Dense!TargetPositions, TargetPositions,
         Dense!MapThenSumSet, MapThenSumSet, Dense!MapThenFoldSet, MapThenFoldSet
<1>7. \A qs, b, row :
        Dense!BlockState(qs, NumQubits, b, row) = BlockState(qs, NumQubits, b, row)
  BY <1>4, <1>5, <1>6 DEF Dense!BlockState, BlockState
<1>8. ASSUME NEW gate, NEW row, NEW amps
      PROVE  Dense!NewAmplitude(gate, row, amps) = NewAmplitude(gate, row, amps)
  <2>1. \A a, b : Dense!Times(a, b) = Times(a, b)
    BY DenseNames
  <2> QED BY <2>1, DenseTotal DEF Dense!NewAmplitude, NewAmplitude
<1> QED BY <1>1, <1>2, <1>3, <1>7, <1>8

(* An amplitude the block engine computes.                                 *)
LEMMA DenseRowType ==
  ASSUME NEW o, GateFits(o), NEW k \in 0..NumQubits, SizedFor(o, k), NEW row \in Rows(2^k),
         NEW amps \in [Rows(2^k) -> Amplitude]
  PROVE  NewAmplitude(o.matrix, row, amps) \in Amplitude
<1> DEFINE S == Rows(2^k)
           f == [col \in S |-> Times(o.matrix[row][col], amps[col])]
<1>1. o.matrix \in [S -> [S -> Amplitude]]
  BY DEF SizedFor
<1>2. IsFiniteSet(S)
  BY GateBounds, FS_Interval DEF Rows
<1>3. \A col \in S : f[col] \in Int
  <2> SUFFICES ASSUME NEW col \in S PROVE f[col] \in Int
    OBVIOUS
  <2>1. o.matrix[row][col] \in Int /\ amps[col] \in Int
    BY <1>1, AmplitudesAreNumbers
  <2> QED BY <2>1, ArithmeticType, AmplitudesAreNumbers
<1>4. NewAmplitude(o.matrix, row, amps) = Total(f)
  BY <1>1 DEF NewAmplitude
<1>5. DOMAIN f = S
  OBVIOUS
<1> HIDE DEF S, f
<1> QED BY <1>2, <1>3, <1>4, <1>5, TotalType

(* A block is multiplied by the gate, and no other state is touched.       *)
LEMMA DenseBlock ==
  ASSUME NEW o, WellFormed(o), o.name = "Gate", NEW k \in 0..NumQubits, SizedFor(o, k),
         NEW b \in Blocks(k), NEW w \in Vectors
  PROVE  LET part == {BlockState(o.qubits, NumQubits, b, row) : row \in Rows(2^k)}
         IN /\ Dense!RunBlock(o, w, b) \in Vectors
            /\ \A v \in Vectors : (\A s \in part : w[s] = v[s]) =>
                 \A s \in States : Dense!RunBlock(o, w, b)[s]
                   = IF s \in part THEN Promise!Result(o, v)[s] ELSE w[s]
<1> DEFINE R == Rows(2^k)
           at(row) == BlockState(o.qubits, NumQubits, b, row)
           part == {at(row) : row \in R}
           state == [row \in R |-> at(row)]
           amps == [row \in R |-> w[state[row]]]
           u == Dense!RunBlock(o, w, b)
           zero == \A row \in R : amps[row] = 0
           Chosen1(s) == CHOOSE row \in R : state[row] = s
<1>1. GateFits(o) /\ o.qubits \in QubitLists(k) /\ BlockSize(o.qubits) = 2^k
  BY DEF WellFormed, SizedFor
<1>2. u = IF zero THEN w
          ELSE [s \in States |-> IF \E row \in R : state[row] = s
                                 THEN NewAmplitude(o.matrix, Chosen1(s), amps) ELSE w[s]]
  <2> DEFINE R2 == Dense!Rows(Dense!BlockSize(o.qubits))
             state2 == [row \in R2 |-> Dense!BlockState(o.qubits, NumQubits, b, row)]
             amps2 == [row \in R2 |-> w[state2[row]]]
             In(s) == \E row \in R2 : state2[row] = s
             Chosen2(s) == CHOOSE row \in R2 : state2[row] = s
             Value2(s) == Dense!NewAmplitude(o.matrix, Chosen2(s), amps2)
  <2>1. u = IF \A row \in R2 : amps2[row] = 0 THEN w
            ELSE [s \in Dense!StateIndices |-> IF In(s) THEN Value2(s) ELSE w[s]]
    BY DEF Dense!RunBlock
  <2>2. R2 = R
    BY <1>1, DenseBlocks
  <2>3. state2 = state
    BY <2>2, DenseBlocks
  <2> HIDE DEF R2, state2, state, R
  <2>4. amps2 = amps
    BY <2>2, <2>3
  <2> HIDE DEF amps2, amps
  <2>5. \A s : Chosen2(s) = Chosen1(s)
    BY <2>2, <2>3
  <2> HIDE DEF Chosen1, Chosen2
  <2>6. \A s : Value2(s) = NewAmplitude(o.matrix, Chosen1(s), amps)
    BY <2>4, <2>5, DenseBlocks
  <2>7. \A s : In(s) <=> \E row \in R : state[row] = s
    BY <2>2, <2>3
  <2> HIDE DEF Value2, In, u
  <2>8. Dense!StateIndices = States
    BY DenseNames
  <2> QED BY <2>1, <2>2, <2>4, <2>6, <2>7, <2>8
<1>3. \A row \in R : at(row) \in States /\ state[row] = at(row)
  BY <1>1, BlockStates
<1>4. \A row \in R : w[at(row)] \in Amplitude /\ amps[row] = w[at(row)]
  BY <1>3 DEF Vectors
<1>5. ASSUME NEW row \in R PROVE NewAmplitude(o.matrix, row, amps) \in Amplitude
  <2>1. amps \in [R -> Amplitude]
    BY <1>4
  <2> HIDE DEF amps
  <2> QED BY <1>1, <2>1, DenseRowType
<1>6. ASSUME NEW row \in R PROVE Chosen1(at(row)) = row
  <2>1. \A x \in R : state[x] = at(row) => x = row
    BY <1>1, <1>3, BlocksApart
  <2>2. state[row] = at(row)
    BY <1>3
  <2> HIDE DEF state, at, R
  <2> QED BY <2>1, <2>2
<1> HIDE DEF state, at, R, amps, zero, Chosen1, u
<1>7. u \in Vectors
  <2>1. \A s \in States : (\E row \in R : state[row] = s) => NewAmplitude(o.matrix, Chosen1(s), amps) \in Amplitude
    BY <1>3, <1>5, <1>6
  <2>2. \A s \in States : w[s] \in Amplitude
    BY DEF Vectors
  <2> QED BY <1>2, <2>1, <2>2 DEF Vectors
<1>8. ASSUME NEW v \in Vectors, \A s \in part : w[s] = v[s], NEW s \in States
      PROVE  u[s] = IF s \in part THEN Promise!Result(o, v)[s] ELSE w[s]
  <2>1. \A row \in R : amps[row] = v[at(row)]
    BY <1>4, <1>8
  <2>2. ASSUME NEW row \in R
        PROVE  /\ Promise!Result(o, v)[at(row)] = NewAmplitude(o.matrix, row, amps)
               /\ zero => Promise!Result(o, v)[at(row)] = 0
    BY <2>1, BlockOutcome DEF at, R, zero
  <2>3. CASE s \in part
    <3>1. PICK row \in R : s = at(row)
      BY <2>3
    <3>2. state[row] = s /\ Chosen1(s) = row /\ amps[row] = w[s]
      BY <1>3, <1>4, <1>6, <3>1
    <3>3. zero => amps[row] = 0
      BY DEF zero
    <3>4. ~zero => u[s] = NewAmplitude(o.matrix, row, amps)
      BY <1>2, <3>2
    <3>5. zero => u[s] = w[s]
      BY <1>2
    <3> QED BY <2>2, <2>3, <3>1, <3>2, <3>3, <3>4, <3>5
  <2>4. CASE s \notin part
    <3>1. ~\E row \in R : state[row] = s
      BY <1>3, <2>4
    <3> QED BY <1>2, <2>4, <3>1
  <2> QED BY <2>3, <2>4
<1> QED BY <1>7, <1>8 DEF u, at, R

\* Step j of the loop over the blocks.
BlockSteps(o, n) ==
  [j \in 1..n |-> [w \in Vectors |-> Dense!RunBlock(o, w, j - 1)]]

(* The loop over the blocks is a fold of these steps.                      *)
LEMMA BlocksFold ==
  ASSUME NEW o, NEW n \in Nat, n = NumBlocks(o.qubits, NumQubits),
         amplitudes \in Vectors, BlockSteps(o, n) \in [1..n -> [Vectors -> Vectors]]
  PROVE  \E c : FoldsBy(n, amplitudes, BlockSteps(o, n), Vectors, c)
                /\ Dense!RunGate(o) = c[1..n]
<1> DEFINE seq == [k \in 1..Dense!NumBlocks(o.qubits, NumQubits) |-> k - 1]
           F == BlockSteps(o, n)
           Body(h) == [s \in SUBSET DOMAIN seq |->
                         IF s = {} THEN amplitudes
                         ELSE Dense!RunBlock(o, h[s \ {Dense!Max(s)}], seq[Dense!Max(s)])]
           c == CHOOSE h : h = Body(h)
<1>1. DOMAIN seq = 1..n /\ \A k \in 1..n : seq[k] = k - 1
  BY DenseBlocks
<1>2. Dense!RunGate(o) = c[DOMAIN seq]
  BY DEF Dense!RunGate, Dense!FoldLeft, Dense!MapThenFoldSet
<1>3. \A k \in 1..n, w \in Vectors : F[k][w] = Dense!RunBlock(o, w, seq[k])
  BY <1>1 DEF BlockSteps
<1> HIDE DEF F, seq
<1>4. PICK g \in [SUBSET (1..n) -> Vectors] : LeftFolding(n, amplitudes, F, g)
  BY LeftFold DEF F
<1>5. g = Body(g)
  <2>1. ASSUME NEW s \in SUBSET (1..n)
        PROVE  g[s] = IF s = {} THEN amplitudes
                      ELSE Dense!RunBlock(o, g[s \ {Dense!Max(s)}], seq[Dense!Max(s)])
    <3>1. g[s] = IF s = {} THEN amplitudes ELSE F[Max(s)][g[s \ {Max(s)}]]
      BY <1>4 DEF LeftFolding
    <3>2. s # {} => Max(s) \in 1..n /\ g[s \ {Max(s)}] \in Vectors
      BY <1>4, MaxIn
    <3>3. Dense!Max(s) = Max(s)
      BY DenseNames
    <3> QED BY <1>3, <3>1, <3>2, <3>3
  <2> QED BY <1>1, <2>1
<1>6. c = Body(c)
  <2> HIDE DEF Body
  <2> QED BY <1>5
<1>7. FoldsBy(n, amplitudes, F, Vectors, c)
  <2> HIDE DEF c
  <2>1. ASSUME NEW s \in SUBSET (1..n)
        PROVE  /\ s = {} => c[s] = amplitudes
               /\ s # {} /\ c[s \ {Max(s)}] \in Vectors => c[s] = F[Max(s)][c[s \ {Max(s)}]]
    <3>1. Dense!Max(s) = Max(s) /\ (s # {} => Max(s) \in 1..n)
      BY DenseNames, MaxIn
    <3>2. c[s] = IF s = {} THEN amplitudes
                 ELSE Dense!RunBlock(o, c[s \ {Dense!Max(s)}], seq[Dense!Max(s)])
      BY <1>1, <1>6
    <3> QED BY <1>3, <3>1, <3>2
  <2> QED BY <2>1 DEF FoldsBy
<1> QED BY <1>1, <1>2, <1>7 DEF F

(* The dense block engine multiplies the whole vector by the gate.         *)
LEMMA DenseGate ==
  ASSUME NEW o, WellFormed(o), o.name = "Gate", amplitudes \in Vectors
  PROVE  Dense!RunGate(o) = Promise!Result(o, amplitudes)
<1>1. GateFits(o)
  BY DEF WellFormed
<1>2. PICK k \in 0..NumQubits : SizedFor(o, k)
  BY <1>1, GateSized
<1> DEFINE v == amplitudes  r == Promise!Result(o, v)  n == 2^(NumQubits - k)
           at(b, row) == BlockState(o.qubits, NumQubits, b, row)
           part(b) == {at(b, row) : row \in Rows(2^k)}
           F == BlockSteps(o, n)
           T == [j \in 1..n |-> part(j - 1)]
<1>3. o.qubits \in QubitLists(k) /\ n = NumBlocks(o.qubits, NumQubits) /\ n \in Nat
  <2>1. NumQubits - k \in 0..(NumQubits + 1)
    BY SizesAssumption
  <2> QED BY <1>2, <2>1, Powers DEF SizedFor
<1>4. \A j \in 1..n : j - 1 \in Blocks(k)
  BY <1>3 DEF Blocks
<1>5. \A b \in Blocks(k) : b + 1 \in 1..n /\ (b + 1) - 1 = b
  BY <1>3 DEF Blocks
<1> HIDE DEF n
<1>6. ASSUME NEW b \in Blocks(k), NEW w \in Vectors
      PROVE  /\ Dense!RunBlock(o, w, b) \in Vectors
             /\ \A u \in Vectors : (\A s \in part(b) : w[s] = u[s]) =>
                  \A s \in States : Dense!RunBlock(o, w, b)[s]
                    = IF s \in part(b) THEN Promise!Result(o, u)[s] ELSE w[s]
  BY <1>2, DenseBlock
<1>7. \A b \in Blocks(k) : \A s \in part(b) : s \in States
  BY <1>3, BlockStates
<1>8. \A s \in States : \E b \in Blocks(k) : s \in part(b)
  <2> SUFFICES ASSUME NEW s \in States PROVE \E b \in Blocks(k) : s \in part(b)
    OBVIOUS
  <2>1. PICK b \in Blocks(k), row \in Rows(2^k) : at(b, row) = s
    BY <1>3, BlocksReach
  <2> QED BY <2>1
<1>9. ASSUME NEW b \in Blocks(k), NEW d \in Blocks(k), NEW s, s \in part(b), s \in part(d)
      PROVE  b = d
  <2>1. PICK row \in Rows(2^k) : s = at(b, row)
    BY <1>9
  <2>2. PICK col \in Rows(2^k) : s = at(d, col)
    BY <1>9
  <2>3. BlockState(o.qubits, NumQubits, b, row) = BlockState(o.qubits, NumQubits, d, col)
    BY <2>1, <2>2
  <2> QED BY ONLY <1>3, <2>3, b \in Blocks(k), d \in Blocks(k), BlocksApart
<1> HIDE DEF at, part
<1>10. \A j \in 1..n, w \in Vectors : F[j][w] = Dense!RunBlock(o, w, j - 1)
  BY DEF BlockSteps
<1>11. F \in [1..n -> [Vectors -> Vectors]]
  <2>1. \A j \in 1..n, w \in Vectors : Dense!RunBlock(o, w, j - 1) \in Vectors
    BY <1>4, <1>6
  <2> QED BY <2>1 DEF BlockSteps
<1> HIDE DEF F
<1>12. SetsParts(n, States, Vectors, F, T, v, r)
  <2> SUFFICES ASSUME NEW j \in 1..n, NEW w \in Vectors, \A s \in States : s \in T[j] => w[s] = v[s]
               PROVE  \A s \in States : F[j][w][s] = IF s \in T[j] THEN r[s] ELSE w[s]
    BY DEF SetsParts
  <2>1. j - 1 \in Blocks(k) /\ T[j] = part(j - 1)
    BY <1>4
  <2>2. \A s \in part(j - 1) : w[s] = v[s]
    BY <1>7, <2>1
  <2> HIDE DEF T
  <2> QED BY <1>6, <1>10, <2>1, <2>2
<1>13. \A i, j \in 1..n : \A s \in States : s \in T[i] /\ s \in T[j] => i = j
  <2> SUFFICES ASSUME NEW i \in 1..n, NEW j \in 1..n, NEW s \in States, s \in T[i], s \in T[j]
               PROVE  i = j
    OBVIOUS
  <2>1. i - 1 = j - 1
    BY <1>4, <1>9
  <2> QED BY <2>1
<1>14. \A s \in States : \E j \in 1..n : s \in T[j]
  <2> SUFFICES ASSUME NEW s \in States PROVE \E j \in 1..n : s \in T[j]
    OBVIOUS
  <2>1. PICK b \in Blocks(k) : s \in part(b)
    BY <1>8
  <2>2. b + 1 \in 1..n /\ T[b + 1] = part(b)
    BY <1>5
  <2> QED BY <2>1, <2>2
<1>15. PICK c : FoldsBy(n, v, F, Vectors, c) /\ Dense!RunGate(o) = c[1..n]
  BY <1>3, <1>11, BlocksFold DEF F
<1> HIDE DEF T
<1>16. c[1..n] \in Vectors /\ PartsSet(n, States, T, v, r, c[1..n])
  BY <1>3, <1>11, <1>12, <1>13, <1>15, PartsFolded
<1>17. c[1..n] = [s \in States |-> r[s]]
  BY <1>14, <1>16 DEF PartsSet, Vectors
<1> QED BY <1>15, <1>17, OutcomeStates

(* Every operation of the dense back end acts as the state vector says.    *)
LEMMA DenseOutcome ==
  ASSUME NEW o, WellFormed(o), amplitudes \in Vectors
  PROVE  Dense!Operation(o) = Promise!Result(o, amplitudes)
<1>1. Dense!StateIndices = States /\ Dense!Total(amplitudes) = Total(amplitudes)
  BY DenseNames, DenseTotal
<1>2. CASE o.name \in PairOperations
  BY <1>2, DensePairKernel DEF PairOperations, Dense!Operation
<1>3. CASE o.name = "Gate"
  BY <1>3, DenseGate DEF Dense!Operation
<1>4. CASE o.name = "PhaseFlip"
  BY <1>4, VectorOutcomes, DenseNames DEF Dense!Operation
<1>5. CASE o.name = "SetAmplitude"
  BY <1>5, VectorOutcomes DEF Dense!Operation
<1>6. CASE o.name = "Inversion"
  <2> DEFINE mean == Times(Total(amplitudes), InversePower2(NumQubits))
  <2>1. Dense!Operation(o) = Dense!RunInversionAboutMean(mean)
    BY <1>1, <1>6, DenseNames DEF Dense!Operation
  <2>2. Promise!Result(o, amplitudes) = [s \in States |-> Minus(2 * mean, amplitudes[s])]
    BY <1>6, VectorOutcomes
  <2> HIDE DEF mean
  <2>3. Dense!RunInversionAboutMean(mean) = [s \in States |-> Minus(2 * mean, amplitudes[s])]
    BY <1>1, DenseNames DEF Dense!RunInversionAboutMean
  <2> QED BY <2>1, <2>2, <2>3
<1>7. CASE o.name = "InversionMean"
  <2>1. Promise!Result(o, amplitudes) = [s \in States |-> Minus(2 * o.mean, amplitudes[s])]
    BY <1>7, VectorOutcomes
  <2> QED BY <1>1, <1>7, <2>1, DenseNames DEF Dense!Operation, Dense!RunInversionAboutMean
<1>8. CASE o.name = "Affine"
  <2>1. Promise!Result(o, amplitudes)
          = [s \in States |-> Plus(Times(o.scale, amplitudes[s]), o.bias)]
    BY <1>8, VectorOutcomes
  <2> QED BY <1>1, <1>8, <2>1, DenseNames DEF Dense!Operation, Dense!RunAffineTransform
<1>9. CASE o.name = "InitBasis"
  BY <1>1, <1>9, VectorOutcomes DEF Dense!Operation, Dense!RunInitBasis
<1>10. CASE o.name = "Load"
  BY <1>10, VectorOutcomes DEF Dense!Operation
<1> QED BY <1>2, <1>3, <1>4, <1>5, <1>6, <1>7, <1>8, <1>9, <1>10 DEF WellFormed, PairOperations

-------------------------------------------------------------------------------
(* Both back ends.                                                         *)

\* The dense array is ahead of the compressed vector by the operation under way.
ParityInv ==
  amplitudes = IF op = Idle THEN Vector ELSE Promise!Result(request, before)

LEMMA ParityStart ==
  ASSUME LoopInv, ParityInv, NEW o \in Operations, StartBoth(o)
  PROVE  ParityInv'
<1>1. /\ op = Idle /\ request' = o /\ before' = Vector /\ Start(o)
      /\ amplitudes' = Dense!Operation(o)
  BY DEF StartBoth, Start, Dense!Apply
<1>2. amplitudes = Vector /\ Vector \in Vectors
  BY <1>1, ContentType DEF ParityInv, LoopInv, Vectors
<1>3. WellFormed(o)
  BY OperationsAssumption
<1>4. amplitudes' = Promise!Result(o, Vector)
  BY <1>1, <1>2, <1>3, DenseOutcome
<1>5. op' # Idle'
  <2>1. WellFormed(IF o.name = "Gate" THEN Dispatched(o) ELSE o)
    BY DispatchedFits DEF OpFits
  <2>2. WellFormed(op')
    BY <1>1, <2>1 DEF Start
  <2> QED BY <2>2 DEF WellFormed, PairOperations, Idle
<1> QED BY <1>1, <1>4, <1>5 DEF ParityInv

LEMMA RequestedOrIdle == LoopInv => (op = Idle <=> request = NoRequest)
BY Requested

(* A step that leaves the array alone maps to a step of StateVector.       *)
LEMMA ParityStep ==
  ASSUME ~StoreMayFail, LoopInv, LoopInv', ValueInv, ParityInv, [Next]_vars,
         op = Idle => op' = Idle, amplitudes' = amplitudes
  PROVE  ParityInv'
<1>1. \/ \E o \in Operations : Promise!Request(o)
      \/ Promise!Return
      \/ UNCHANGED <<Seen, request>>
  BY NextVector DEF Promise!Next, Promise!Throw
<1>2. op = Idle <=> request = NoRequest
  BY RequestedOrIdle
<1>3. op' = Idle <=> request' = NoRequest
  <2>1. (LoopInv => (op = Idle <=> request = NoRequest))'
    BY RequestedOrIdle, PTL
  <2> QED BY <2>1 DEF Idle, NoRequest
<1>4. CASE op = Idle
  <2>1. Seen' = Seen
    BY <1>1, <1>2, <1>4 DEF Promise!Request, Promise!Return, Promise!NoRequest, NoRequest, Seen
  <2>2. op' = Idle /\ Idle' = Idle
    BY <1>4 DEF Idle
  <2> QED BY <1>4, <2>1, <2>2 DEF ParityInv, Seen
<1>5. CASE op # Idle
  <2>1. request # NoRequest /\ Seen = before /\ amplitudes = Promise!Result(request, before)
    BY <1>2, <1>5 DEF ParityInv, Seen
  <2>2. CASE Promise!Return
    <3>1. request' = NoRequest /\ Seen' = Promise!Result(request, before)
      BY <2>1, <2>2 DEF Promise!Return, Promise!NoRequest, NoRequest, Seen
    <3>2. op' = Idle /\ Idle' = Idle
      BY <1>3, <3>1 DEF Idle
    <3> QED BY <2>1, <3>1, <3>2 DEF ParityInv, Seen
  <2>3. CASE UNCHANGED <<Seen, request>>
    <3>1. op' # Idle /\ Idle' = Idle
      BY <1>3, <2>1, <2>3 DEF Idle
    <3>2. before' = before /\ request' = request
      BY <2>1, <2>3, <3>1 DEF Seen
    <3> QED BY <2>1, <3>1, <3>2 DEF ParityInv
  <2>4. ~\E o \in Operations : Promise!Request(o)
    BY <2>1 DEF Promise!Request, Promise!NoRequest, NoRequest
  <2> QED BY <1>1, <2>2, <2>3, <2>4
<1> QED BY <1>4, <1>5

LEMMA ParityInductive ==
  ASSUME ~StoreMayFail, ~MayClone
  PROVE  LoopInv /\ ValueInv /\ ParityInv /\ [ParityNext]_parityVars
           => LoopInv' /\ ValueInv' /\ ParityInv'
<1> SUFFICES ASSUME LoopInv, ValueInv, ParityInv, [ParityNext]_parityVars
             PROVE  LoopInv' /\ ValueInv' /\ ParityInv'
  OBVIOUS
<1>1. \/ \E o \in Operations : StartBoth(o)
      \/ [Next]_vars /\ amplitudes' = amplitudes /\ (op = Idle => op' = Idle)
  <2>1. CASE StepCompressed
    <3>1. Step /\ amplitudes' = amplitudes
      BY <2>1 DEF StepCompressed
    <3>2. op # Idle
      <4>1. phase \in {"first", "second", "apply", "write second", "finish", "configure"}
        BY Zenon, <3>1 DEF Step, AcquireFirst, AcquireSecond, ApplyPair, WriteSecond, ApplyToState,
                    SumChunk, ApplyToChunk, LoadAmplitude, StoreAmplitude, Finish, Load, InitBasis
      <4> QED BY Zenon, <4>1 DEF LoopInv, TypeOK
    <3> QED BY <3>1, <3>2 DEF Next
  <2>2. CASE OtherCalls
    <3>1. ~Clone
      BY DEF Clone, Cache!Clone
    <3>2. /\ (\E s \in States : Query(s)) \/ BeginBatch \/ EndBatch
          /\ amplitudes' = amplitudes
      BY <2>2, <3>1 DEF OtherCalls
    <3>3. op' = op
      BY <3>2 DEF Query, BeginBatch, EndBatch, opVars
    <3> QED BY <3>2, <3>3 DEF Next
  <2>3. CASE UNCHANGED parityVars
    <3>1. UNCHANGED vars /\ amplitudes' = amplitudes
      BY <2>3 DEF parityVars
    <3>2. op' = op
      BY <3>1 DEF vars, opVars
    <3> QED BY <3>1, <3>2
  <2> QED BY <2>1, <2>2, <2>3 DEF ParityNext
<1>2. [Next]_vars
  BY <1>1 DEF StartBoth, Next
<1>3. LoopInv' /\ ValueInv'
  BY <1>2, NextLoop, NextValues
<1> QED BY <1>1, <1>2, <1>3, ParityStart, ParityStep

(* The interface's promise (storage/i_state_backend.h), for operations     *)
(* that cannot fail to store a chunk and back ends that are not copied:    *)
(* between calls both back ends hold the same vector, whatever the chunks, *)
(* the cache, the traversal and the recognised gates, and after calls that *)
(* threw.                                                                  *)
THEOREM BackendsAlwaysAgree ==
  ~StoreMayFail /\ ~MayClone => (ParitySpec => []BackendsAgree)
<1> SUFFICES ASSUME ~StoreMayFail, ~MayClone PROVE ParitySpec => []BackendsAgree
  OBVIOUS
<1>1. ParityInit => LoopInv /\ ValueInv /\ ParityInv
  <2>1. ParityInit => Init /\ op = Idle /\ amplitudes = Vector
    BY DEF ParityInit, Init
  <2> QED BY <2>1, InitLoop, InitValues DEF ParityInv
<1>2. LoopInv /\ ValueInv /\ ParityInv /\ [ParityNext]_parityVars
        => LoopInv' /\ ValueInv' /\ ParityInv'
  BY ParityInductive
<1>3. ParityInv => BackendsAgree
  BY DEF ParityInv, BackendsAgree
<1> QED BY <1>1, <1>2, <1>3, PTL DEF ParitySpec
===============================================================================
