------------------------ MODULE CompressedBackendProofs ------------------------
(***************************************************************************)
(* Proofs about the compressed back end: the batches it counts are those   *)
(* its client has open; its loops keep the handles they use good, and keep *)
(* their types; the compressed chunks are the state whenever the back end  *)
(* is at rest; and sampling them is sampling the vector.  What the back    *)
(* end's calls do to the cache is taken from the proofs about the cache.   *)
(* The last part says what an operation makes of one amplitude, alone, as  *)
(* one of a pair and as a row of a block.                                  *)
(***************************************************************************)
EXTENDS CompressedBackend, OperatorTheorems

-------------------------------------------------------------------------------
(* An initialisation forgets the batches of its client, so none may be     *)
(* open as long as it is under way.                                        *)

BatchInv ==
  /\ open \in Nat
  /\ BatchesCounted
  /\ op.name \in Initialisations => open = 0

\* A gate is dispatched to a gate.
LEMMA DispatchedName ==
  ASSUME NEW o, o.name = "Gate"
  PROVE  Dispatched(o).name \notin Initialisations
BY DEF Dispatched, Initialisations

LEMMA InitBatch == Init => BatchInv
BY DEF Init, BatchInv, BatchesCounted, Idle, Initialisations

\* Steps that leave the client's batches alone.
LEMMA QuietKeepsBatch ==
  ASSUME BatchInv, UNCHANGED <<batchDepth, open>>, op' \in {op, Idle}
  PROVE  BatchInv'
BY DEF BatchInv, BatchesCounted, Idle, Initialisations

LEMMA StepBatch == BatchInv /\ Step => BatchInv'
<1> SUFFICES ASSUME BatchInv, Step PROVE BatchInv'
  OBVIOUS
<1>1. CASE Load
  BY <1>1 DEF Load, Quit, BatchInv, BatchesCounted, Idle, Initialisations
<1>2. CASE InitBasis
  BY <1>2 DEF InitBasis, Quit, BatchInv, BatchesCounted, Idle, Initialisations
<1>3. CASE ~Load /\ ~InitBasis
  <2>1. UNCHANGED <<batchDepth, open>> /\ op' \in {op, Idle}
    BY <1>3 DEF Step, AcquireFirst, AcquireSecond, ApplyPair, WriteSecond, ApplyToState,
                SumChunk, ApplyToChunk, LoadAmplitude, StoreAmplitude, Finish,
                Leave, Quit, EndIteration, clientVars
  <2> QED
    BY <2>1, QuietKeepsBatch
<1> QED
  BY <1>1, <1>2, <1>3

LEMMA NextBatch == ~ReinitInBatch /\ BatchInv /\ [Next]_vars => BatchInv'
<1> SUFFICES ASSUME ~ReinitInBatch, BatchInv, [Next]_vars PROVE BatchInv'
  OBVIOUS
<1>1. ASSUME NEW o \in Operations, Start(o) PROVE BatchInv'
  <2>1. op' = IF o.name = "Gate" THEN Dispatched(o) ELSE o
    BY <1>1 DEF Start
  <2>2. op'.name \in Initialisations => o.name \in Initialisations
    BY <2>1, DispatchedName
  <2> QED
    BY <1>1, <2>2 DEF Start, BatchInv, BatchesCounted
<1>2. ASSUME NEW s \in States, Query(s) PROVE BatchInv'
  BY <1>2, QuietKeepsBatch DEF Query
<1>3. CASE BeginBatch
  BY <1>3 DEF BeginBatch, BatchInv, BatchesCounted, opVars, Idle, Initialisations
<1>4. CASE EndBatch
  BY <1>4 DEF EndBatch, BatchInv, BatchesCounted
<1>5. CASE UNCHANGED vars
  BY <1>5, QuietKeepsBatch DEF vars, opVars, clientVars
<1> QED
  BY <1>1, <1>2, <1>3, <1>4, <1>5, StepBatch DEF Next

(* Unless clients initialise a back end inside a batch, the back end       *)
(* counts the batches its client has open, whatever operations throw, so   *)
(* that ending a batch never throws for want of one.                       *)
THEOREM BatchesAlwaysCounted == ~ReinitInBatch => (Spec => []BatchesCounted)
<1> SUFFICES ASSUME ~ReinitInBatch PROVE Spec => []BatchesCounted
  OBVIOUS
<1>1. BatchInv /\ [Next]_vars => BatchInv'
  BY NextBatch
<1>2. BatchInv => BatchesCounted
  BY DEF BatchInv
<1> QED
  BY <1>1, <1>2, InitBatch, PTL DEF Spec

-------------------------------------------------------------------------------
(* The cache of the back end.  The back end's own cache may be copied, but *)
(* none of its steps does that.                                            *)

CP == INSTANCE ChunkCacheProofs WITH
  NoChunk <- ChunkCount(Layout), Data <- Buffer, Zero <- ZeroBuffer,
  Codec <- [d \in Buffer |-> d], Capacity <- EffectiveCacheSlots,
  MaxHeld <- 2, LoadMayFail <- FALSE, MayClone <- FALSE

\* The register of as many qubits, for the theorems about qubits and gates.
Reg == INSTANCE QuantumRegisterProofs WITH
  Operations <- {}, Initial <- {}, MaxOperations <- 0, MayThrow <- FALSE,
  stored <- before, affineScale <- 1, affineBias <- 0, affineOverlayActive <- FALSE,
  cachedSum <- -1, outcome <- "returned", thrown <- FALSE

(* What these theorems assume.                                             *)
LEMMA RegAssumptions ==
  /\ /\ Reg!Times(Reg!I, Reg!I) = Reg!Minus(0, 1)
     /\ Reg!Times(2, Reg!Times(Reg!InvSqrt2, Reg!InvSqrt2)) = 1
     /\ Reg!Times(Reg!RootOfUnity8, Reg!RootOfUnity8) = Reg!I
     /\ Reg!Times(Reg!RootOfUnity16, Reg!RootOfUnity16) = Reg!RootOfUnity8
     /\ Reg!Times(2, Reg!Half) = 1
  /\ \A o \in {} : Reg!WellFormed(o)
  /\ {} \subseteq [Reg!States -> Reg!Amplitude]
  /\ 0 \in Nat
  /\ /\ NumQubits \in Nat /\ Reg!InversePower2(NumQubits) \in Reg!Amplitude
     /\ 2^0 = 1 /\ \A n \in 0..NumQubits : 2^(n + 1) = 2 * 2^n
<1>1. /\ Reg!Times(Reg!I, Reg!I) = Reg!Minus(0, 1)
      /\ Reg!Times(2, Reg!Times(Reg!InvSqrt2, Reg!InvSqrt2)) = 1
      /\ Reg!Times(Reg!RootOfUnity8, Reg!RootOfUnity8) = Reg!I
      /\ Reg!Times(Reg!RootOfUnity16, Reg!RootOfUnity16) = Reg!RootOfUnity8
      /\ Reg!Times(2, Reg!Half) = 1
  BY FieldOfAmplitudes DEF Reg!Times, Reg!Minus, Reg!I, Reg!InvSqrt2,
     Reg!RootOfUnity8, Reg!RootOfUnity16, Reg!Half, Times, Minus, I, InvSqrt2,
     RootOfUnity8, RootOfUnity16, Half
<1>2. Reg!InversePower2(NumQubits) \in Reg!Amplitude
  BY SizesAssumption DEF Reg!InversePower2, Reg!Amplitude, Reg!Half,
     InversePower2, Amplitude, Half
<1> QED BY <1>1, <1>2, SizesAssumption

(* Powers of two are positive.                                             *)
LEMMA Powers == \A n \in 0..(NumQubits + 1) : 2^n \in Nat \ {0}
BY RegAssumptions, Reg!Powers

LEMMA SizesNow ==
  /\ NumQubits \in Nat /\ ChunkStates \in Nat \ {0} /\ 2^NumQubits \in Nat \ {0}
  /\ Layout.states = 2^NumQubits /\ Layout.width = ChunkStates
  /\ ChunkCount(Layout) \in Nat \ {0}
  /\ Chunks = 0..(ChunkCount(Layout) - 1)
<1>1. ASSUME NEW a \in Nat \ {0}, NEW b \in Nat \ {0} PROVE (a + b - 1) \div b \in Nat \ {0}
  OBVIOUS
<1>2. NumQubits \in 0..(NumQubits + 1)
  BY SizesAssumption
<1>3. 2^NumQubits \in Nat \ {0}
  BY <1>2, Powers
<1> QED BY <1>1, <1>3, SizesAssumption DEF Layout, Chunks, ChunkIndices, ChunkCount

\* A cache of one slot is that of a back end of one chunk.
LEMMA SlotsNow ==
  /\ EffectiveCacheSlots \in Nat \ {0}
  /\ 2 <= EffectiveCacheSlots \/ \A c, d \in Chunks : c = d
<1> DEFINE n == ChunkCount(Layout)
<1>1. n \in Nat \ {0} /\ Chunks = 0..(n - 1) /\ CacheSlots \in Nat \ {0, 1}
  BY SizesNow, SlotsAssumption
<1>2. EffectiveCacheSlots = IF CacheSlots < n THEN CacheSlots ELSE n
  BY DEF EffectiveCacheSlots
<1> HIDE DEF n
<1>3. EffectiveCacheSlots \in Nat \ {0}
  BY <1>1, <1>2
<1>4. 2 <= EffectiveCacheSlots \/ n = 1
  BY <1>1, <1>2
<1>5. n = 1 => \A c, d \in Chunks : c = d
  BY <1>1
<1> QED BY <1>3, <1>4, <1>5

LEMMA BuffersNow == ZeroBuffer \in Buffer /\ [d \in Buffer |-> d] \in [Buffer -> Buffer]
BY DEF ZeroBuffer, Buffer, Amplitude

(* What the cache assumes of its constants holds of this back end's.       *)
LEMMA CacheFits ==
  /\ ChunkCount(Layout) \notin Chunks
  /\ ZeroBuffer \in Buffer /\ [d \in Buffer |-> d] \in [Buffer -> Buffer]
  /\ EffectiveCacheSlots \in Nat \ {0} /\ 2 \in 1..2
  /\ 2 <= EffectiveCacheSlots \/ \A c, d \in Chunks : c = d
  /\ FALSE \in BOOLEAN /\ StoreMayFail \in BOOLEAN /\ FALSE \in BOOLEAN
<1>1. ChunkCount(Layout) \notin Chunks
  BY SizesNow
<1> QED BY <1>1, SlotsNow, BuffersNow, BoundsAssumption

(* Every step of the cache keeps it coherent.                              *)
LEMMA CacheNext ==
  ASSUME CP!Coherent, [CP!Next]_(CP!vars)
  PROVE  CP!Coherent'
<1>1. CP!Careful
  BY DEF CP!Careful
<1> QED BY <1>1, CacheFits, CP!NextCoherent

LEMMA NoHandleSame == Cache!NoHandle = CP!NoHandle
BY DEF Cache!NoHandle, CP!NoHandle, Cache!NoSlot, CP!NoSlot

LEMMA AcquireSame == \A k, c : Cache!Acquire(k, c) <=> CP!Acquire(k, c)
BY DEF Cache!Acquire, CP!Acquire, Cache!AcquireHit, CP!AcquireHit,
       Cache!AcquireFill, CP!AcquireFill, Cache!AcquireEvict, CP!AcquireEvict,
       Cache!AcquireStoreFails, CP!AcquireStoreFails, Cache!Load, CP!Load,
       Cache!CanHold, CP!CanHold, Cache!Hold, CP!Hold, Cache!DropHandles, CP!DropHandles,
       Cache!Touched, CP!Touched, Cache!SlotIds, CP!SlotIds, Cache!NoSlot, CP!NoSlot,
       Cache!NoHandle, CP!NoHandle, Cache!EvictionSlot, CP!EvictionSlot,
       Cache!NeedsStore, CP!NeedsStore, Cache!WrittenBack, CP!WrittenBack,
       Cache!StoreAfterFlush, CP!StoreAfterFlush, Cache!TableWithout, CP!TableWithout

LEMMA WriteSame == \A h, d : Cache!WriteThrough(h, d) <=> CP!WriteThrough(h, d)
BY DEF Cache!WriteThrough, CP!WriteThrough, Cache!NoHandle, CP!NoHandle,
       Cache!NoSlot, CP!NoSlot

LEMMA FlushSame == \A n : Cache!FlushUpTo(n) <=> CP!FlushUpTo(n)
BY DEF Cache!FlushUpTo, CP!FlushUpTo, Cache!NeedsStore, CP!NeedsStore,
       Cache!StoreAfterFlush, CP!StoreAfterFlush, Cache!WrittenBack, CP!WrittenBack,
       Cache!SlotIds, CP!SlotIds, Cache!DropHandles, CP!DropHandles,
       Cache!NoHandle, CP!NoHandle, Cache!NoSlot, CP!NoSlot

LEMMA ConfigureSame == \A data : Cache!Configure(data) <=> CP!Configure(data)
BY DEF Cache!Configure, CP!Configure, Cache!EmptySlot, CP!EmptySlot,
       Cache!SlotIds, CP!SlotIds, Cache!DropHandles, CP!DropHandles,
       Cache!NoHandle, CP!NoHandle, Cache!NoSlot, CP!NoSlot

LEMMA TypeSame == Cache!TypeOK <=> CP!TypeOK
BY DEF Cache!TypeOK, CP!TypeOK, Cache!Slot, CP!Slot, Cache!Handle, CP!Handle,
       Cache!SlotIds, CP!SlotIds, Cache!NoSlot, CP!NoSlot

\* What is read through a coherent cache, and through handles of it.
LEMMA CoherentParts ==
  ASSUME CP!Coherent
  PROVE  /\ Cache!TypeOK /\ CP!TypeOK
         /\ slots \in [1..EffectiveCacheSlots -> CP!Slot]
         /\ size \in 0..EffectiveCacheSlots
         /\ \A h \in {first, second} : h # Cache!NoHandle =>
              /\ h.slot \in 1..EffectiveCacheSlots
              /\ h.slot # 0
              /\ Held(h) \in Buffer
              /\ slots[h.slot].chunk = h.chunk
              /\ chunkToSlot[h.chunk] = h.slot
<1>1. CP!TypeOK /\ CP!HeldStaysResident /\ CP!HandlesMark
  BY DEF CP!Coherent, CP!TypeInv
<1>2. slots \in [1..EffectiveCacheSlots -> CP!Slot] /\ size \in 0..EffectiveCacheSlots
  BY <1>1 DEF CP!TypeOK, CP!SlotIds
<1>3. ASSUME NEW h \in {first, second}, h # Cache!NoHandle
      PROVE  /\ h.slot \in 1..EffectiveCacheSlots
             /\ h.slot # 0
             /\ Held(h) \in Buffer
             /\ slots[h.slot].chunk = h.chunk
             /\ chunkToSlot[h.chunk] = h.slot
  <2>1. h # CP!NoHandle
    BY <1>3, NoHandleSame
  <2>2. h.slot \in 1..size
    BY <1>1, <2>1 DEF CP!HandlesMark, CP!Used
  <2>3. h.slot \in 1..EffectiveCacheSlots /\ h.slot # 0
    BY <1>2, <2>2, SlotsNow
  <2>4. Held(h) \in Buffer
    BY <1>2, <2>3 DEF CP!Slot, Held
  <2>5. slots[h.slot].chunk = h.chunk /\ chunkToSlot[h.chunk] = h.slot
    BY <1>1, <2>1 DEF CP!HeldStaysResident
  <2> QED BY <2>3, <2>4, <2>5
<1> QED BY <1>1, <1>2, <1>3, TypeSame

LEMMA AcquireCoherent ==
  ASSUME CP!Coherent, NEW k \in 1..2, NEW c \in Chunks, Cache!Acquire(k, c)
  PROVE  CP!Coherent'
<1>1. CP!Acquire(k, c)
  BY AcquireSame
<1>2. CP!Next
  BY <1>1 DEF CP!Next, CP!Operate
<1> QED BY <1>2, CacheNext

LEMMA WriteCoherent ==
  ASSUME CP!Coherent, NEW h \in {first, second}, NEW d \in Buffer, Cache!WriteThrough(h, d)
  PROVE  CP!Coherent' /\ first' = first /\ second' = second
<1>1. CP!WriteThrough(h, d)
  BY WriteSame
<1>2. CP!Next
  BY <1>1 DEF CP!Next, CP!Operate
<1>3. first' = first /\ second' = second
  BY <1>1 DEF CP!WriteThrough
<1> QED BY <1>2, <1>3, CacheNext

LEMMA FlushCoherent ==
  ASSUME CP!Coherent, NEW n \in 0..size, Cache!FlushUpTo(n)
  PROVE  CP!Coherent'
<1>1. CP!FlushAll
  BY FlushSame DEF CP!FlushAll
<1> QED BY <1>1, CacheNext DEF CP!Next, CP!Operate

LEMMA ConfigureCoherent ==
  ASSUME CP!Coherent, NEW data \in [Chunks -> Buffer], Cache!Configure(data)
  PROVE  CP!Coherent'
<1>1. CP!Configure(data)
  BY ConfigureSame
<1> QED BY <1>1, CacheNext DEF CP!Next, CP!Operate

(* An operation that ends without a flush only drops its handles.          *)
LEMMA DropCoherent ==
  ASSUME CP!Coherent, Cache!DropHandles,
         UNCHANGED <<slots, size, reserved, age, chunkToSlot, store>>
  PROVE  CP!Coherent'
<1>1. first' = CP!NoHandle /\ second' = CP!NoHandle
  BY NoHandleSame DEF Cache!DropHandles
<1>2. CP!NoHandle \in CP!Handle
  BY DEF CP!NoHandle, CP!Handle
<1>3. CP!TypeInv'
  BY <1>1, <1>2 DEF CP!Coherent, CP!TypeInv, CP!TypeOK, CP!AgesCover
<1>4. CP!HeldStaysResident' /\ CP!HandlesMark' /\ CP!FirstIsNewest'
  BY <1>1 DEF CP!HeldStaysResident, CP!HandlesMark, CP!FirstIsNewest
<1>5. CP!SlotsMatchTable' /\ CP!CleanIsStored' /\ CP!RoomReserved'
  BY DEF CP!Coherent, CP!SlotsMatchTable, CP!CleanIsStored, CP!RoomReserved, CP!Used
<1> QED BY <1>3, <1>4, <1>5 DEF CP!Coherent

(* The handles an acquire returns are for the chunk acquired, and a pair's *)
(* second leaves the first as it is.                                       *)
LEMMA AcquireHolds ==
  ASSUME CP!Coherent, NEW k \in 1..2, NEW c \in Chunks, Cache!Acquire(k, c)
  PROVE  /\ k = 1 => first' = Cache!NoHandle \/ first'.chunk = c
         /\ k = 2 /\ first # Cache!NoHandle =>
              \/ first' = Cache!NoHandle /\ second' = Cache!NoHandle
              \/ /\ first' # Cache!NoHandle /\ first'.chunk = first.chunk
                 /\ second' # Cache!NoHandle /\ second'.chunk = c
<1>1. CP!Acquire(k, c)
  BY AcquireSame
<1>2. CP!DropHandles \/ \E s, r : CP!Hold(k, c, s, r)
  BY <1>1 DEF CP!Acquire, CP!AcquireHit, CP!AcquireFill, CP!AcquireEvict,
              CP!AcquireStoreFails, CP!Load
<1>3. first \in CP!Handle
  BY CoherentParts DEF CP!TypeOK
<1>4. CASE CP!DropHandles
  BY <1>4, NoHandleSame DEF CP!DropHandles
<1>5. CASE \E s, r : CP!Hold(k, c, s, r)
  <2>1. PICK s, r : CP!Hold(k, c, s, r)
    BY <1>5
  <2>2. CASE k = 1
    BY <2>1, <2>2 DEF CP!Hold
  <2>3. CASE k = 2
    <3>1. /\ first' = [first EXCEPT !.marks = @ /\ ~r]
          /\ second' = [slot |-> s, chunk |-> c, marks |-> TRUE]
      BY <2>1, <2>3 DEF CP!Hold
    <3>2. second' # Cache!NoHandle /\ second'.chunk = c
      BY <3>1 DEF Cache!NoHandle
    <3>3. first'.chunk = first.chunk /\ first'.slot = first.slot
      BY <1>3, <3>1 DEF CP!Handle
    <3>4. first # Cache!NoHandle => first' # Cache!NoHandle
      BY <3>3, CoherentParts DEF Cache!NoHandle, Cache!NoSlot
    <3> QED BY <2>3, <3>2, <3>3, <3>4
  <2> QED BY <2>2, <2>3
<1> QED BY <1>2, <1>4, <1>5

-------------------------------------------------------------------------------
(* The binary digits of states and of the numbers of blocks and rows: what *)
(* makes the states of a block those that differ in the target bits alone. *)

(* The greater of two powers of two is a multiple of the lesser.           *)
LEMMA PowersDivide ==
  ASSUME NEW a \in 0..NumQubits, NEW b \in 0..NumQubits, a <= b
  PROVE  (2^b % 2^a) = 0
BY RegAssumptions, Reg!PowersDivide

Digit(s, i) == BitAt(s, 2^i)

LEMMA DigitType ==
  ASSUME NEW s \in Nat, NEW i \in 0..NumQubits
  PROVE  Digit(s, i) \in {0, 1}
<1> DEFINE m == 2^i
<1>1. i \in 0..(NumQubits + 1)
  BY SizesAssumption
<1>2. m \in Nat \ {0}
  BY <1>1, Powers
<1>3. Digit(s, i) = (s \div m) % 2
  BY DEF Digit, BitAt
<1> HIDE DEF m
<1>4. s \div m \in Nat
  BY <1>2, Division
<1> QED BY <1>3, <1>4

(* A number with one digit written differs from it in that digit alone.    *)
LEMMA WriteDigit ==
  ASSUME NEW n \in 0..NumQubits, NEW s \in Nat, s < 2^n, NEW i \in 0..(n - 1),
         NEW x \in {0, 1}, NEW t \in Int, t = s + (x - Digit(s, i)) * 2^i
  PROVE  /\ t \in Nat /\ t < 2^n /\ Digit(t, i) = x
         /\ \A j \in 0..(NumQubits - 1) : j # i => Digit(t, j) = Digit(s, j)
<1> DEFINE m == 2^i  p == 2^n
<1>1. /\ n \in Nat /\ i \in Nat /\ i + 1 <= n /\ NumQubits \in Nat /\ n <= NumQubits
      /\ i \in 0..NumQubits /\ i + 1 \in 0..NumQubits /\ n \in 0..(NumQubits + 1)
      /\ i \in 0..(NumQubits + 1)
  BY SizesAssumption
<1>2. m \in Nat \ {0} /\ p \in Nat \ {0} /\ 2^(i + 1) = 2 * m
  BY <1>1, Powers, SizesAssumption
<1>3. (p % (2 * m)) = 0
  BY <1>1, <1>2, PowersDivide
<1>4. t = s + (x - BitAt(s, m)) * m
  BY DEF Digit
<1>5. s < p
  OBVIOUS
<1>6. ASSUME NEW j \in 0..(NumQubits - 1), j # i
      PROVE  2^j \in Nat \ {0} /\ ((2^j % (2 * m)) = 0 \/ (m % (2 * 2^j)) = 0)
  <2>1. /\ j \in Nat /\ j \in 0..NumQubits /\ j + 1 \in 0..NumQubits
        /\ j \in 0..(NumQubits + 1)
    BY <1>1
  <2>2. 2^j \in Nat \ {0} /\ 2^(j + 1) = 2 * 2^j
    BY <2>1, Powers, SizesAssumption
  <2>3. CASE i < j
    <3>1. i + 1 <= j
      BY <1>1, <2>1, <2>3
    <3>2. (2^j % 2^(i + 1)) = 0
      BY <1>1, <2>1, <3>1, PowersDivide
    <3> QED BY <1>2, <2>2, <3>2
  <2>4. CASE j < i
    <3>1. j + 1 <= i
      BY <1>1, <2>1, <2>4
    <3>2. (m % 2^(j + 1)) = 0
      BY <1>1, <2>1, <3>1, PowersDivide
    <3> QED BY <2>2, <3>2
  <2> QED BY <1>1, <1>6, <2>1, <2>3, <2>4
<1> HIDE DEF m, p
<1>7. t \in Nat /\ t < p /\ BitAt(t, m) = x
  <2>1. m \in Nat \ {0} /\ p \in Nat /\ s \in Nat /\ x \in {0, 1} /\ t \in Int
    BY <1>2
  <2>2. ASSUME NEW u \in Int, u = s + (x - BitAt(s, m)) * m
        PROVE  u \in Nat /\ u < p /\ BitAt(u, m) = x
    BY <2>1, <2>2, <1>3, <1>5, WriteBit
  <2> QED BY <1>4, <2>2
<1>8. ASSUME NEW j \in 0..(NumQubits - 1), j # i PROVE BitAt(t, 2^j) = BitAt(s, 2^j)
  <2> DEFINE w == 2^j
  <2>1. w \in Nat \ {0} /\ ((w % (2 * m)) = 0 \/ (m % (2 * w)) = 0)
    BY <1>6, <1>8
  <2> HIDE DEF w
  <2>2. BitAt(t, w) = BitAt(s, w)
    BY <1>2, <1>4, <1>7, <2>1, OtherBit
  <2> QED BY <2>2 DEF w
<1> QED BY <1>7, <1>8 DEF Digit, m, p

(* Numbers below a power of two are told apart by their digits.            *)
LEMMA SameDigits ==
  ASSUME NEW n \in 0..NumQubits, NEW s \in Nat, s < 2^n, NEW t \in Nat, t < 2^n,
         \A i \in 0..(n - 1) : Digit(s, i) = Digit(t, i)
  PROVE  s = t
<1> DEFINE G == {i \in Nat : i <= n => (s % 2^i) = (t % 2^i)}
<1>0. n \in Nat /\ NumQubits \in Nat /\ n <= NumQubits /\ n \in 0..(NumQubits + 1)
  BY SizesAssumption
<1>1. 0 \in G
  <2>1. (s % 1) = 0 /\ (t % 1) = 0
    OBVIOUS
  <2>2. 2^0 = 1
    BY SizesAssumption
  <2> QED BY <2>1, <2>2
<1>2. ASSUME NEW i \in G PROVE i + 1 \in G
  <2> SUFFICES ASSUME i + 1 <= n PROVE (s % 2^(i + 1)) = (t % 2^(i + 1))
    OBVIOUS
  <2> DEFINE m == 2^i
  <2>1. i \in 0..(n - 1) /\ i \in 0..NumQubits /\ i \in 0..(NumQubits + 1) /\ i <= n
    BY <1>0
  <2>2. m \in Nat \ {0} /\ 2^(i + 1) = 2 * m
    BY <2>1, Powers, SizesAssumption
  <2>3. (s % m) = (t % m)
    BY <2>1
  <2>4. (s \div m) % 2 = (t \div m) % 2
    BY <2>1 DEF Digit, BitAt
  <2> HIDE DEF m
  <2>5. ASSUME NEW a \in Nat PROVE (a % (2 * m)) = m * ((a \div m) % 2) + (a % m)
    <3> DEFINE q == a \div m  r == a % m  h == q \div 2  b == q % 2
    <3>1. q \in Nat /\ r \in 0..(m - 1) /\ a = m * q + r
      BY <2>2, Division
    <3>2. h \in Nat /\ b \in {0, 1} /\ q = 2 * h + b
      <4> HIDE DEF q
      <4> QED BY <3>1
    <3> HIDE DEF q, r, h, b
    <3>3. r < m /\ r \in Nat /\ m * b \in {0, m}
      BY <2>2, <3>1, <3>2
    <3> DEFINE e == m * b + r  d == 2 * m
    <3>4. e \in Nat /\ e < d /\ d \in Nat \ {0}
      BY <2>2, <3>3
    <3>5. a = d * h + e
      BY <2>2, <3>1, <3>2, <3>3
    <3> HIDE DEF e, d
    <3>6. ((d * h + e) % d) = e
      BY <3>2, <3>4, DivisionUnique
    <3> QED BY <3>5, <3>6 DEF e, d, b, q, r
  <2>6. (s % (2 * m)) = (t % (2 * m))
    BY <2>3, <2>4, <2>5
  <2> QED BY <2>2, <2>6
<1>3. G \in SUBSET Nat
  OBVIOUS
<1> HIDE DEF G
<1>4. n \in G
  BY <1>0, <1>1, <1>2, <1>3, NumberInduction
<1> DEFINE p == 2^n
<1>5. (s % p) = (t % p) /\ p \in Nat \ {0} /\ s < p /\ t < p
  BY <1>0, <1>4, Powers DEF G
<1> HIDE DEF p
<1>6. ASSUME NEW a \in Nat, a < p PROVE (a % p) = a
  <2>1. ((p * 0 + a) % p) = a
    BY <1>5, <1>6, DivisionUnique
  <2>2. p * 0 + a = a
    BY <1>5
  <2> QED BY <2>1, <2>2
<1> QED BY <1>5, <1>6

(* A number below a power of two with several of its digits written: the   *)
(* places of the digits are given by pos, what is written there by x, and  *)
(* f says by how much each changes the number.                             *)
Places(n, S, pos) ==
  /\ \A k \in S : pos[k] \in 0..(n - 1)
  /\ \A k, l \in S : pos[k] = pos[l] => k = l

Written(s, S, pos, x, f) ==
  \A k \in S : x[k] \in {0, 1} /\ f[k] = (x[k] - Digit(s, pos[k])) * 2^pos[k]

LEMMA WriteDigits ==
  ASSUME NEW n \in 0..NumQubits, NEW s \in Nat, s < 2^n, NEW S, IsFiniteSet(S),
         NEW pos, Places(n, S, pos), NEW x, NEW f, Written(s, S, pos, x, f),
         NEW t, t = s + SumFunctionOnSet(f, S)
  PROVE  /\ t \in Nat /\ t < 2^n
         /\ \A k \in S : Digit(t, pos[k]) = x[k]
         /\ \A i \in 0..(NumQubits - 1) :
              (\A k \in S : pos[k] # i) => Digit(t, i) = Digit(s, i)
<1> DEFINE At(T) == s + SumFunctionOnSet(f, T)
           Good == {T \in SUBSET S :
                      /\ At(T) \in Nat /\ At(T) < 2^n
                      /\ \A k \in T : Digit(At(T), pos[k]) = x[k]
                      /\ \A i \in 0..(NumQubits - 1) :
                           (\A k \in T : pos[k] # i) => Digit(At(T), i) = Digit(s, i)}
<1>0. n \in Nat /\ NumQubits \in Nat /\ n <= NumQubits
  BY SizesAssumption
<1>1. ASSUME NEW k \in S
      PROVE  /\ pos[k] \in 0..(n - 1) /\ pos[k] \in 0..(NumQubits - 1) /\ x[k] \in {0, 1}
             /\ f[k] = (x[k] - Digit(s, pos[k])) * 2^pos[k] /\ f[k] \in Int
  <2> DEFINE i == pos[k]  m == 2^i  d == Digit(s, i)
  <2>1. i \in 0..(n - 1) /\ x[k] \in {0, 1} /\ f[k] = (x[k] - d) * m
    BY DEF Places, Written
  <2>2. i \in 0..NumQubits /\ i \in 0..(NumQubits + 1) /\ i \in 0..(NumQubits - 1)
    BY <1>0, <2>1
  <2>3. m \in Nat /\ d \in {0, 1}
    BY <2>2, Powers, DigitType
  <2> HIDE DEF m, d, i
  <2>4. (x[k] - d) * m \in Int
    BY <2>1, <2>3
  <2> QED BY <2>1, <2>2, <2>4 DEF d, m, i
<1>2. \A k, l \in S : pos[k] = pos[l] => k = l
  BY DEF Places
<1>3. ASSUME NEW T \in SUBSET S, \A k \in T : T \ {k} \in Good
      PROVE  T \in Good
  <2>1. IsFiniteSet(T) /\ \A k \in T : f[k] \in Int
    BY <1>1, FS_Subset
  <2>2. CASE T = {}
    <3>1. At(T) = s
      BY <2>1, <2>2, SumType
    <3> HIDE DEF At
    <3> QED BY <2>2, <3>1
  <2>3. CASE T # {}
    <3>1. PICK k \in T : TRUE
      BY <2>3
    <3> DEFINE R == T \ {k}  u == At(R)  v == At(T)  i == pos[k]
    <3>2. R \in Good
      BY <1>3
    <3>3. SumFunctionOnSet(f, R) \in Int
      <4>1. IsFiniteSet(R) /\ \A l \in R : f[l] \in Int
        BY <2>1, FS_Subset
      <4> HIDE DEF R
      <4> QED BY <4>1, SumType
    <3>4. v = u + f[k] /\ v \in Int
      <4>1. SumFunctionOnSet(f, T) = f[k] + SumFunctionOnSet(f, R)
        BY <2>1, SumSplit
      <4>2. f[k] \in Int
        BY <2>1
      <4> HIDE DEF R
      <4> QED BY <3>3, <4>1, <4>2
    <3>5. /\ u \in Nat /\ u < 2^n
          /\ \A l \in R : Digit(u, pos[l]) = x[l]
          /\ \A j \in 0..(NumQubits - 1) : (\A l \in R : pos[l] # j) => Digit(u, j) = Digit(s, j)
      <4> HIDE DEF At
      <4> QED BY <3>2
    <3>6. Digit(u, i) = Digit(s, i) /\ i \in 0..(n - 1) /\ x[k] \in {0, 1}
      <4>1. \A l \in R : pos[l] # i
        BY <1>2
      <4> HIDE DEF u
      <4> QED BY <1>1, <3>5, <4>1
    <3>7. v = u + (x[k] - Digit(u, i)) * 2^i
      <4>1. f[k] = (x[k] - Digit(s, i)) * 2^i
        BY <1>1
      <4> HIDE DEF u, v, i
      <4> QED BY <3>4, <3>6, <4>1
    <3> HIDE DEF u, v, i
    <3>8. /\ v \in Nat /\ v < 2^n /\ Digit(v, i) = x[k]
          /\ \A j \in 0..(NumQubits - 1) : j # i => Digit(v, j) = Digit(u, j)
      BY <3>4, <3>5, <3>6, <3>7, WriteDigit
    <3>9. ASSUME NEW l \in T PROVE Digit(v, pos[l]) = x[l]
      <4>1. CASE l = k
        BY <3>8, <4>1 DEF i
      <4>2. CASE l # k
        <5>1. l \in R /\ pos[l] # i /\ pos[l] \in 0..(NumQubits - 1)
          BY <1>1, <1>2, <4>2 DEF i
        <5> QED BY <3>5, <3>8, <5>1
      <4> QED BY <4>1, <4>2
    <3>10. ASSUME NEW j \in 0..(NumQubits - 1), \A l \in T : pos[l] # j
           PROVE  Digit(v, j) = Digit(s, j)
      <4>1. j # i /\ \A l \in R : pos[l] # j
        BY <3>10 DEF i
      <4> QED BY <3>5, <3>8, <4>1
    <3> HIDE DEF At
    <3> QED BY <3>8, <3>9, <3>10 DEF v
  <2> QED BY <2>2, <2>3
<1>4. SUBSET S \subseteq Good
  <2>1. \A H : (\A T \in SUBSET S : (\A k \in T : T \ {k} \in H) => T \in H)
               => SUBSET S \subseteq H
    BY SubsetInduction
  <2> HIDE DEF Good
  <2> QED BY <1>3, <2>1
<1>5. S \in Good
  BY <1>4
<1>6. t = At(S)
  OBVIOUS
<1> HIDE DEF At
<1> QED BY <1>5, <1>6

(* The numbers that rank the elements of a finite set of numbers.          *)
Rank(others, bit) == Cardinality({b \in others : b < bit})

LEMMA Ranks ==
  ASSUME NEW others \in SUBSET Nat, IsFiniteSet(others)
  PROVE  /\ Cardinality(others) \in Nat
         /\ \A bit \in others : Rank(others, bit) \in 0..(Cardinality(others) - 1)
         /\ \A bit, b \in others : Rank(others, bit) = Rank(others, b) => bit = b
         /\ \A k \in 0..(Cardinality(others) - 1) : \E bit \in others : Rank(others, bit) = k
<1> DEFINE m == Cardinality(others)
           Below(bit) == {b \in others : b < bit}
<1>1. m \in Nat
  BY FS_CardinalityType
<1>2. ASSUME NEW bit \in others
      PROVE  Rank(others, bit) \in 0..(m - 1) /\ IsFiniteSet(Below(bit))
  <2>1. IsFiniteSet(others \ {bit}) /\ Cardinality(others \ {bit}) = m - 1
    BY FS_RemoveElement
  <2>2. Below(bit) \in SUBSET (others \ {bit})
    OBVIOUS
  <2>3. IsFiniteSet(Below(bit)) /\ Cardinality(Below(bit)) <= m - 1
    <3> HIDE DEF Below, m
    <3> QED BY <2>1, <2>2, FS_Subset
  <2>4. Cardinality(Below(bit)) \in Nat
    <3> HIDE DEF Below
    <3> QED BY <2>3, FS_CardinalityType
  <2> HIDE DEF m
  <2> QED BY <1>1, <2>3, <2>4 DEF Rank
<1>3. ASSUME NEW bit \in others, NEW b \in others, b < bit
      PROVE  Rank(others, b) < Rank(others, bit)
  <2>1. Below(b) \in SUBSET Below(bit) /\ b \in Below(bit) /\ b \notin Below(b)
    <3>1. \A c \in others : c \in Nat
      OBVIOUS
    <3>2. b \in Nat /\ bit \in Nat
      OBVIOUS
    <3>3. \A c \in Nat : c < b => c < bit
      BY <1>3, <3>2
    <3>4. \A c \in Below(b) : c \in Below(bit)
      BY <3>1, <3>3
    <3>5. ~(b < b)
      BY <3>2
    <3> QED BY <1>3, <3>4, <3>5
  <2>2. Cardinality(Below(b)) <= Cardinality(Below(bit))
        /\ (Cardinality(Below(bit)) = Cardinality(Below(b)) => Below(bit) = Below(b))
    <3>1. IsFiniteSet(Below(bit))
      BY <1>2
    <3> HIDE DEF Below
    <3> QED BY <2>1, <3>1, FS_Subset
  <2>3. Cardinality(Below(b)) # Cardinality(Below(bit))
    <3> HIDE DEF Below
    <3> QED BY <2>1, <2>2
  <2>4. Cardinality(Below(b)) \in Int /\ Cardinality(Below(bit)) \in Int
    BY <1>2 DEF Rank
  <2> HIDE DEF Below
  <2>5. Cardinality(Below(b)) < Cardinality(Below(bit))
    BY <2>2, <2>3, <2>4
  <2> QED BY <2>5 DEF Rank, Below
<1>4. ASSUME NEW bit \in others, NEW b \in others, Rank(others, bit) = Rank(others, b)
      PROVE  bit = b
  <2>1. Rank(others, b) \in Int
    <3>1. Rank(others, b) \in 0..(m - 1)
      BY <1>2
    <3> HIDE DEF m
    <3> QED BY <1>1, <3>1
  <2>2. bit \in Nat /\ b \in Nat
    OBVIOUS
  <2> QED BY <1>3, <1>4, <2>1, <2>2
<1>5. ASSUME NEW k \in 0..(m - 1) PROVE \E bit \in others : Rank(others, bit) = k
  <2> DEFINE h == [bit \in others |-> Rank(others, bit)]  K == 0..(m - 1)
  <2>1. h \in Injection(others, K)
    BY <1>2, <1>4 DEF Injection, IsInjective
  <2>2. IsFiniteSet(K) /\ Cardinality(K) = m
    <3>1. 0 \in Int /\ m - 1 \in Int
      BY <1>1
    <3> HIDE DEF m
    <3>2. IsFiniteSet(K) /\ Cardinality(K) = IF 0 > m - 1 THEN 0 ELSE (m - 1) - 0 + 1
      BY <3>1, FS_Interval
    <3> QED BY <1>1, <3>2
  <2>3. h \in Surjection(others, K)
    <3> HIDE DEF h, K
    <3> QED BY <2>1, <2>2, FS_Injection
  <2>4. \E bit \in others : h[bit] = k
    BY <2>3 DEF Surjection
  <2> QED BY <2>4
<1> QED BY <1>1, <1>2, <1>4, <1>5

(* A list of qubits, the places of their bits, and the places of the bits  *)
(* of the other qubits.                                                    *)
LEMMA ListType ==
  ASSUME NEW k \in 0..NumQubits, NEW qs \in QubitLists(k)
  PROVE  /\ k \in Nat /\ k <= NumQubits /\ NumQubits \in Nat
         /\ DOMAIN qs = 1..k /\ Len(qs) = k /\ IsFiniteSet(1..k) /\ Cardinality(1..k) = k
         /\ \A i \in 1..k : qs[i] \in Qubits
         /\ \A i, j \in 1..k : qs[i] = qs[j] => i = j
<1>0. k \in Nat /\ k <= NumQubits /\ NumQubits \in Nat
  BY SizesAssumption
<1>1. qs \in [1..k -> Qubits] /\ \A i, j \in DOMAIN qs : qs[i] = qs[j] => i = j
  BY DEF QubitLists, Injection, IsInjective
<1>2. qs \in Seq(Qubits) /\ Len(qs) = k
  BY <1>0, <1>1
<1>3. IsFiniteSet(1..k) /\ Cardinality(1..k) = IF 1 > k THEN 0 ELSE k - 1 + 1
  BY <1>0, FS_Interval
<1> QED BY <1>0, <1>1, <1>2, <1>3

LEMMA TargetPlaces ==
  ASSUME NEW k \in 0..NumQubits, NEW qs \in QubitLists(k)
  PROVE  /\ Places(NumQubits, 1..k, TargetPositions(qs, NumQubits))
         /\ \A i \in 1..k : TargetPositions(qs, NumQubits)[i] = NumQubits - qs[i] - 1
<1>1. \A i \in 1..k : TargetPositions(qs, NumQubits)[i] = NumQubits - qs[i] - 1
  BY ListType DEF TargetPositions
<1>2. ASSUME NEW i \in 1..k PROVE NumQubits - qs[i] - 1 \in 0..(NumQubits - 1) /\ qs[i] \in Int
  <2>1. qs[i] \in 0..(NumQubits - 1) /\ NumQubits \in Nat
    BY ListType DEF Qubits
  <2> QED BY <2>1
<1>3. ASSUME NEW i \in 1..k, NEW j \in 1..k, NumQubits - qs[i] - 1 = NumQubits - qs[j] - 1
      PROVE  i = j
  <2>1. qs[i] = qs[j]
    BY <1>2, <1>3, SizesAssumption
  <2> QED BY <2>1, ListType
<1> QED BY <1>1, <1>2, <1>3 DEF Places

OtherPlaces(qs) == 0..(NumQubits - 1) \ {TargetPositions(qs, NumQubits)[i] : i \in DOMAIN qs}

LEMMA OthersCounted ==
  ASSUME NEW k \in 0..NumQubits, NEW qs \in QubitLists(k)
  PROVE  /\ OtherPlaces(qs) \in SUBSET Nat /\ IsFiniteSet(OtherPlaces(qs))
         /\ Cardinality(OtherPlaces(qs)) = NumQubits - k
<1> DEFINE tp == TargetPositions(qs, NumQubits)  D == 1..k  B == 0..(NumQubits - 1)
           T == {tp[i] : i \in D}
           h == [i \in D |-> tp[i]]
<1>1. DOMAIN qs = D /\ IsFiniteSet(D) /\ Cardinality(D) = k /\ NumQubits \in Nat
  BY ListType
<1>2. IsFiniteSet(B) /\ Cardinality(B) = NumQubits
  <2>1. IsFiniteSet(B) /\ Cardinality(B) = IF 0 > NumQubits - 1 THEN 0 ELSE (NumQubits - 1) - 0 + 1
    BY <1>1, FS_Interval
  <2> QED BY <1>1, <2>1
<1>3. (\A i \in D : tp[i] \in B) /\ \A i, j \in D : tp[i] = tp[j] => i = j
  BY TargetPlaces DEF Places
<1>4. h \in Injection(D, T) /\ h \in Surjection(D, T)
  BY <1>3 DEF Injection, IsInjective, Surjection
<1> HIDE DEF h, tp
<1>5. IsFiniteSet(T) /\ Cardinality(T) = k
  <2> HIDE DEF D, T
  <2>1. IsFiniteSet(T) /\ (Cardinality(T) = Cardinality(D) <=> h \in Injection(D, T))
    BY <1>1, <1>4, FS_Surjection
  <2> QED BY <1>1, <1>4, <2>1
<1>6. OtherPlaces(qs) = B \ T
  BY <1>1 DEF OtherPlaces, tp
<1>7. B \cap T = T
  BY <1>3
<1>8. IsFiniteSet(B \ T) /\ Cardinality(B \ T) = Cardinality(B) - Cardinality(B \cap T)
  <2> HIDE DEF B, T
  <2> QED BY <1>2, FS_Difference
<1>9. B \ T \in SUBSET Nat
  BY <1>1
<1> HIDE DEF B, T
<1> QED BY <1>2, <1>5, <1>6, <1>7, <1>8, <1>9

LEMMA NonTargetPlaces ==
  ASSUME NEW k \in 0..NumQubits, NEW qs \in QubitLists(k)
  PROVE  LET pos == NonTargetPositions(qs, NumQubits)
             S == 0..(NumQubits - k - 1)
         IN /\ DOMAIN pos = S /\ IsFiniteSet(S)
            /\ Places(NumQubits, S, pos)
            /\ \A j \in S : pos[j] \in OtherPlaces(qs)
            /\ \A i \in OtherPlaces(qs) : \E j \in S : pos[j] = i
<1> DEFINE others == OtherPlaces(qs)  pos == NonTargetPositions(qs, NumQubits)
           S == 0..(NumQubits - k - 1)
<1>1. others \in SUBSET Nat /\ IsFiniteSet(others) /\ Cardinality(others) = NumQubits - k
  BY OthersCounted
<1>2. pos = [j \in S |-> CHOOSE bit \in others : Rank(others, bit) = j]
  BY <1>1 DEF NonTargetPositions, OtherPlaces, Rank
<1>3. IsFiniteSet(S)
  <2>1. NumQubits - k - 1 \in Int
    BY ListType
  <2> QED BY <2>1, FS_Interval
<1>4. \A i \in others : i \in 0..(NumQubits - 1)
  BY DEF OtherPlaces
<1> HIDE DEF others, pos
<1>5. /\ \A bit \in others : Rank(others, bit) \in S
      /\ \A bit, b \in others : Rank(others, bit) = Rank(others, b) => bit = b
      /\ \A j \in S : \E bit \in others : Rank(others, bit) = j
  BY <1>1, Ranks
<1>6. ASSUME NEW j \in S PROVE pos[j] \in others /\ Rank(others, pos[j]) = j
  BY <1>2, <1>5
<1>7. ASSUME NEW i \in others PROVE pos[Rank(others, i)] = i /\ Rank(others, i) \in S
  BY <1>5, <1>6
<1>8. Places(NumQubits, S, pos)
  <2>1. \A j \in S : pos[j] \in 0..(NumQubits - 1)
    BY <1>4, <1>6
  <2>2. \A j, l \in S : pos[j] = pos[l] => j = l
    BY <1>6
  <2> QED BY <2>1, <2>2 DEF Places
<1>9. DOMAIN pos = S
  BY <1>2
<1> QED BY <1>3, <1>6, <1>7, <1>8, <1>9 DEF pos, others

LEMMA ZeroDigits == \A i \in 0..NumQubits : Digit(0, i) = 0 /\ 0 < 2^i
<1> SUFFICES ASSUME NEW i \in 0..NumQubits PROVE Digit(0, i) = 0 /\ 0 < 2^i
  OBVIOUS
<1> DEFINE m == 2^i
<1>1. i \in 0..(NumQubits + 1)
  BY SizesAssumption
<1>2. m \in Nat \ {0}
  BY <1>1, Powers
<1>3. Digit(0, i) = (0 \div m) % 2
  BY DEF Digit, BitAt
<1> HIDE DEF m
<1>4. 0 \div m = 0
  BY <1>2
<1> QED BY <1>2, <1>3, <1>4 DEF m

(* A number put together from its digits.                                  *)
LEMMA PutTogether ==
  ASSUME NEW n \in 0..NumQubits, NEW S, IsFiniteSet(S), NEW pos, Places(n, S, pos),
         NEW x, \A k \in S : x[k] \in {0, 1},
         NEW f, \A k \in S : f[k] = x[k] * 2^pos[k]
  PROVE  LET t == SumFunctionOnSet(f, S)
         IN /\ t \in Nat /\ t < 2^n
            /\ \A k \in S : Digit(t, pos[k]) = x[k]
            /\ \A i \in 0..(NumQubits - 1) : (\A k \in S : pos[k] # i) => Digit(t, i) = 0
<1> DEFINE t == SumFunctionOnSet(f, S)
<1>0. \A k \in S : pos[k] \in 0..NumQubits /\ pos[k] \in 0..(NumQubits + 1)
  BY SizesAssumption DEF Places
<1>1. Written(0, S, pos, x, f) /\ \A k \in S : f[k] \in Int
  <2> SUFFICES ASSUME NEW k \in S
               PROVE  x[k] \in {0, 1} /\ f[k] = (x[k] - Digit(0, pos[k])) * 2^pos[k] /\ f[k] \in Int
    BY DEF Written
  <2>1. Digit(0, pos[k]) = 0 /\ x[k] \in {0, 1} /\ f[k] = x[k] * 2^pos[k]
    BY <1>0, ZeroDigits
  <2>2. x[k] - Digit(0, pos[k]) = x[k] /\ x[k] \in Int
    BY <2>1
  <2>3. 2^pos[k] \in Int
    BY <1>0, Powers
  <2>4. x[k] * 2^pos[k] \in Int
    BY <2>2, <2>3
  <2> QED BY <2>1, <2>2, <2>4
<1>2. 0 < 2^n /\ 0 \in Nat
  BY ZeroDigits
<1>3. t = 0 + SumFunctionOnSet(f, S)
  BY <1>1, SumType
<1> HIDE DEF t
<1>4. /\ t \in Nat /\ t < 2^n
      /\ \A k \in S : Digit(t, pos[k]) = x[k]
      /\ \A i \in 0..(NumQubits - 1) : (\A k \in S : pos[k] # i) => Digit(t, i) = Digit(0, i)
  BY <1>1, <1>2, <1>3, WriteDigits
<1>5. \A i \in 0..(NumQubits - 1) : i \in 0..NumQubits
  BY SizesAssumption
<1> QED BY <1>4, <1>5, ZeroDigits DEF t

\* The digits of a row or a column, from the first listed qubit to the last.
RowDigit(k, row, i) == Digit(row, k - i)

LEMMA RowDigitType ==
  ASSUME NEW k \in 0..NumQubits, NEW row \in Rows(2^k), NEW i \in 1..k
  PROVE  row \in Nat /\ row < 2^k /\ k - i \in 0..(k - 1) /\ RowDigit(k, row, i) \in {0, 1}
<1>1. k \in Nat /\ NumQubits \in Nat /\ k \in 0..(NumQubits + 1)
  BY SizesAssumption
<1>2. 2^k \in Nat
  BY <1>1, Powers
<1> DEFINE p == 2^k
<1> HIDE DEF p
<1>3. row \in Nat /\ row < p
  BY <1>2 DEF Rows, p
<1>4. k - i \in 0..(k - 1) /\ k - i \in 0..NumQubits
  BY <1>1
<1>5. RowDigit(k, row, i) \in {0, 1}
  BY <1>3, <1>4, DigitType DEF RowDigit
<1> QED BY <1>3, <1>4, <1>5 DEF p

(* The states of a block: which digits they have.                          *)
LEMMA BlockDigits ==
  ASSUME NEW k \in 0..NumQubits, NEW qs \in QubitLists(k),
         NEW block \in 0..(2^(NumQubits - k) - 1), NEW row \in Rows(2^k)
  PROVE  LET s == BlockState(qs, NumQubits, block, row)
         IN /\ s \in Nat /\ s < 2^NumQubits
            /\ \A i \in 1..k : Digit(s, TargetPositions(qs, NumQubits)[i]) = RowDigit(k, row, i)
            /\ \A j \in 0..(NumQubits - k - 1) :
                 Digit(s, NonTargetPositions(qs, NumQubits)[j]) = Digit(block, j)
<1> DEFINE S == 0..(NumQubits - k - 1)  D == 1..k
           pos == NonTargetPositions(qs, NumQubits)  tp == TargetPositions(qs, NumQubits)
           x == [j \in S |-> Digit(block, j)]  y == [i \in D |-> RowDigit(k, row, i)]
           f == [j \in S |-> ((block \div 2^j) % 2) * 2^pos[j]]
           g == [i \in D |-> ((row \div 2^(k - i)) % 2) * 2^tp[i]]
           base == SumFunctionOnSet(f, S)
           s == base + SumFunctionOnSet(g, D)
<1>1. /\ DOMAIN pos = S /\ IsFiniteSet(S) /\ Places(NumQubits, S, pos)
      /\ \A j \in S : pos[j] \in OtherPlaces(qs)
  BY NonTargetPlaces
<1>2. /\ DOMAIN qs = D /\ Len(qs) = k /\ IsFiniteSet(D) /\ Places(NumQubits, D, tp)
      /\ NumQubits \in Nat /\ k \in Nat
  BY ListType, TargetPlaces
<1>3. \A j \in S : \A i \in D : pos[j] # tp[i]
  BY <1>1, <1>2 DEF OtherPlaces
<1>4. BlockState(qs, NumQubits, block, row) = s
  <2> DEFINE f0 == [j \in DOMAIN pos |-> ((block \div 2^j) % 2) * 2^pos[j]]
             g0 == [i \in DOMAIN qs |-> ((row \div 2^(Len(qs) - i)) % 2)
                                         * 2^TargetPositions(qs, NumQubits)[i]]
  <2>1. ComposeBaseStateFromBlock(block, pos) = SumFunctionOnSet(f0, DOMAIN pos)
    <3> HIDE DEF pos
    <3> QED BY DEF ComposeBaseStateFromBlock, MapThenSumSet, SumFunctionOnSet,
                   FoldFunctionOnSet, MapThenFoldSet
  <2>2. BlockOffset(qs, NumQubits, row) = SumFunctionOnSet(g0, DOMAIN qs)
    BY DEF BlockOffset, MapThenSumSet, SumFunctionOnSet, FoldFunctionOnSet, MapThenFoldSet
  <2>3. f0 = f /\ g0 = g
    BY <1>1, <1>2
  <2> HIDE DEF f0, g0
  <2> QED BY <1>1, <1>2, <2>1, <2>2, <2>3 DEF BlockState
<1>5. block \in Nat
  <2>1. NumQubits - k \in 0..(NumQubits + 1)
    BY <1>2
  <2>2. 2^(NumQubits - k) \in Nat
    BY <2>1, Powers
  <2> QED BY <2>2
<1>6. \A j \in S : x[j] \in {0, 1} /\ x[j] = Digit(block, j) /\ f[j] = x[j] * 2^pos[j]
  <2> SUFFICES ASSUME NEW j \in S
               PROVE  Digit(block, j) \in {0, 1} /\ f[j] = Digit(block, j) * 2^pos[j]
    OBVIOUS
  <2>1. j \in 0..NumQubits
    BY <1>2
  <2> QED BY <1>5, <2>1, DigitType DEF Digit, BitAt
<1>7. \A i \in D : y[i] \in {0, 1} /\ y[i] = RowDigit(k, row, i) /\ g[i] = y[i] * 2^tp[i]
  BY RowDigitType DEF RowDigit, Digit, BitAt
<1> HIDE DEF S, D, pos, tp, x, y, f, g
<1>8. /\ base \in Nat /\ base < 2^NumQubits
      /\ \A j \in S : Digit(base, pos[j]) = x[j]
      /\ \A i \in 0..(NumQubits - 1) : (\A j \in S : pos[j] # i) => Digit(base, i) = 0
  <2>1. NumQubits \in 0..NumQubits
    BY <1>2
  <2> QED BY <1>1, <1>6, <2>1, PutTogether
<1> HIDE DEF base
<1>9. \A i \in D : tp[i] \in 0..(NumQubits - 1) /\ Digit(base, tp[i]) = 0
  <2>1. \A i \in D : tp[i] \in 0..(NumQubits - 1)
    BY <1>2 DEF Places
  <2> QED BY <1>3, <1>8, <2>1
<1>10. Written(base, D, tp, y, g)
  <2> SUFFICES ASSUME NEW i \in D
               PROVE  y[i] \in {0, 1} /\ g[i] = (y[i] - Digit(base, tp[i])) * 2^tp[i]
    BY DEF Written
  <2>1. y[i] - Digit(base, tp[i]) = y[i]
    BY <1>7, <1>9
  <2> QED BY <1>7, <2>1
<1>11. /\ s \in Nat /\ s < 2^NumQubits
       /\ \A i \in D : Digit(s, tp[i]) = y[i]
       /\ \A i \in 0..(NumQubits - 1) : (\A j \in D : tp[j] # i) => Digit(s, i) = Digit(base, i)
  <2>1. NumQubits \in 0..NumQubits
    BY <1>2
  <2> HIDE DEF s
  <2>2. s = base + SumFunctionOnSet(g, D)
    BY DEF s
  <2> QED BY <1>2, <1>8, <1>10, <2>1, <2>2, WriteDigits
<1>12. \A j \in S : Digit(s, pos[j]) = x[j]
  <2> HIDE DEF s
  <2>1. \A j \in S : pos[j] \in 0..(NumQubits - 1)
    BY <1>1 DEF Places
  <2> QED BY <1>3, <1>8, <1>11, <2>1
<1> HIDE DEF s
<1> QED BY <1>4, <1>6, <1>7, <1>11, <1>12 DEF S, D, pos, tp

\* A state of the vector as a number.
LEMMA StateNumbers ==
  /\ NumQubits \in Nat /\ NumQubits \in 0..NumQubits /\ 2^NumQubits \in Nat \ {0}
  /\ \A s : s \in States <=> s \in Nat /\ s < 2^NumQubits
<1> DEFINE n == 2^NumQubits
<1>1. n \in Nat \ {0} /\ States = 0..(n - 1)
  BY SizesNow DEF States
<1> HIDE DEF n
<1>2. \A s : s \in States <=> s \in Nat /\ s < n
  BY <1>1
<1> QED BY <1>1, <1>2, SizesAssumption DEF n

(* The bit of a qubit is the digit in the qubit's place.                   *)
LEMMA BitIsDigit ==
  ASSUME NEW q \in Qubits, NEW s
  PROVE  /\ Promise!Bit(s, q) = Digit(s, NumQubits - q - 1)
         /\ Promise!Mask(q) = 2^(NumQubits - q - 1) /\ QubitMask(q) = Promise!Mask(q)
         /\ Promise!Mask(q) \in Nat \ {0}
<1>1. q \in 0..(NumQubits - 1) /\ NumQubits \in Nat
  BY SizesAssumption DEF Qubits
<1>2. NumQubits - 1 - q = NumQubits - q - 1 /\ NumQubits - q - 1 \in 0..(NumQubits + 1)
  BY <1>1
<1>3. Promise!Mask(q) = 2^(NumQubits - q - 1)
  BY <1>2 DEF Promise!Mask
<1> QED BY <1>2, <1>3, Powers DEF Promise!Bit, Digit, BitAt, QubitMask

LEMMA RowDigits ==
  ASSUME NEW k \in 0..NumQubits, NEW qs \in QubitLists(k), NEW s \in States
  PROVE  LET row == Promise!Row(s, qs)
         IN /\ row \in Rows(2^k) /\ row \in Nat /\ row < 2^k
            /\ \A i \in 1..k : RowDigit(k, row, i) = Digit(s, TargetPositions(qs, NumQubits)[i])
<1> DEFINE D == 1..k  pos == [i \in D |-> k - i]  tp == TargetPositions(qs, NumQubits)
           x == [i \in D |-> Digit(s, tp[i])]
           f == [i \in D |-> Promise!Bit(s, qs[i]) * 2^(k - i)]
           row == SumFunctionOnSet(f, D)
<1>1. /\ DOMAIN qs = D /\ Len(qs) = k /\ IsFiniteSet(D) /\ NumQubits \in Nat /\ k \in Nat
      /\ \A i \in D : qs[i] \in Qubits
  BY ListType
<1>2. \A i \in D : tp[i] = NumQubits - qs[i] - 1 /\ tp[i] \in 0..(NumQubits - 1)
  BY TargetPlaces DEF Places
<1>3. Promise!Row(s, qs) = row
  <2> DEFINE f0 == [i \in DOMAIN qs |-> Promise!Bit(s, qs[i]) * 2^(Len(qs) - i)]
  <2>1. Promise!Row(s, qs) = SumFunctionOnSet(f0, DOMAIN qs)
    BY DEF Promise!Row, Promise!MapThenSumSet, Promise!MapThenFoldSet, SumFunctionOnSet,
           FoldFunctionOnSet, MapThenFoldSet
  <2>2. f0 = f
    BY <1>1
  <2> HIDE DEF f0
  <2> QED BY <1>1, <2>1, <2>2
<1>4. \A i \in D : x[i] \in {0, 1} /\ f[i] = x[i] * 2^pos[i] /\ x[i] = Digit(s, tp[i])
  <2> SUFFICES ASSUME NEW i \in D
               PROVE  Digit(s, tp[i]) \in {0, 1} /\ Promise!Bit(s, qs[i]) = Digit(s, tp[i])
    OBVIOUS
  <2>1. s \in Nat /\ tp[i] \in 0..NumQubits
    BY <1>1, <1>2, StateNumbers
  <2> QED BY <1>1, <1>2, <2>1, BitIsDigit, DigitType
<1>5. Places(k, D, pos) /\ \A i \in D : pos[i] = k - i
  BY <1>1 DEF Places
<1> HIDE DEF D, pos, x, f, tp
<1>6. row \in Nat /\ row < 2^k /\ \A i \in D : Digit(row, pos[i]) = x[i]
  <2>1. \A i \in D : x[i] \in {0, 1}
    BY <1>4
  <2>2. \A i \in D : f[i] = x[i] * 2^pos[i]
    BY <1>4
  <2>3. IsFiniteSet(D) /\ Places(k, D, pos)
    BY <1>1, <1>5
  <2> HIDE DEF row
  <2>4. row = SumFunctionOnSet(f, D)
    BY DEF row
  <2>5. LET t == SumFunctionOnSet(f, D)
        IN /\ t \in Nat /\ t < 2^k
           /\ \A i \in D : Digit(t, pos[i]) = x[i]
    BY <2>1, <2>2, <2>3, PutTogether
  <2> QED BY <2>4, <2>5
<1>7. row \in Rows(2^k)
  <2>1. k \in 0..(NumQubits + 1)
    BY <1>1
  <2>2. 2^k \in Nat
    BY <2>1, Powers
  <2> HIDE DEF row
  <2> QED BY <1>6, <2>2 DEF Rows
<1> HIDE DEF row
<1> QED BY <1>3, <1>4, <1>5, <1>6, <1>7 DEF RowDigit, D, tp

LEMMA ColumnDigits ==
  ASSUME NEW k \in 0..NumQubits, NEW qs \in QubitLists(k), NEW s \in States,
         NEW col \in Rows(2^k)
  PROVE  LET t == Promise!WithColumn(s, qs, col)
         IN /\ t \in Nat /\ t < 2^NumQubits /\ t \in States
            /\ \A i \in 1..k : Digit(t, TargetPositions(qs, NumQubits)[i]) = RowDigit(k, col, i)
            /\ \A j \in OtherPlaces(qs) : Digit(t, j) = Digit(s, j)
<1> DEFINE D == 1..k  tp == TargetPositions(qs, NumQubits)
           x == [i \in D |-> RowDigit(k, col, i)]
           f == [i \in D |-> (((col \div 2^(k - i)) % 2) - Promise!Bit(s, qs[i]))
                               * Promise!Mask(qs[i])]
           t == s + SumFunctionOnSet(f, D)
<1>1. /\ DOMAIN qs = D /\ Len(qs) = k /\ IsFiniteSet(D) /\ Places(NumQubits, D, tp)
      /\ NumQubits \in Nat /\ k \in Nat /\ \A i \in D : qs[i] \in Qubits
  BY ListType, TargetPlaces
<1>2. \A i \in D : tp[i] = NumQubits - qs[i] - 1
  BY TargetPlaces
<1>3. Promise!WithColumn(s, qs, col) = t
  <2> DEFINE f0 == [i \in DOMAIN qs |->
                      (((col \div 2^(Len(qs) - i)) % 2) - Promise!Bit(s, qs[i]))
                        * Promise!Mask(qs[i])]
  <2>1. Promise!WithColumn(s, qs, col) = s + SumFunctionOnSet(f0, DOMAIN qs)
    BY DEF Promise!WithColumn, Promise!MapThenSumSet, Promise!MapThenFoldSet,
           SumFunctionOnSet, FoldFunctionOnSet, MapThenFoldSet
  <2>2. f0 = f
    BY <1>1
  <2> HIDE DEF f0
  <2> QED BY <1>1, <2>1, <2>2
<1>4. Written(s, D, tp, x, f) /\ \A i \in D : x[i] = RowDigit(k, col, i)
  <2> SUFFICES ASSUME NEW i \in D
               PROVE  /\ RowDigit(k, col, i) \in {0, 1}
                      /\ f[i] = (RowDigit(k, col, i) - Digit(s, tp[i])) * 2^tp[i]
    BY DEF Written
  <2>1. Promise!Bit(s, qs[i]) = Digit(s, tp[i]) /\ Promise!Mask(qs[i]) = 2^tp[i]
    BY <1>1, <1>2, BitIsDigit
  <2>2. (col \div 2^(k - i)) % 2 = RowDigit(k, col, i)
    BY DEF RowDigit, Digit, BitAt
  <2> QED BY <2>1, <2>2, RowDigitType
<1>5. \A j \in OtherPlaces(qs) : j \in 0..(NumQubits - 1) /\ \A i \in D : tp[i] # j
  BY <1>1 DEF OtherPlaces
<1>6. s \in Nat /\ s < 2^NumQubits /\ NumQubits \in 0..NumQubits
  BY StateNumbers
<1> HIDE DEF D, x, f, tp, t
<1>7. t = s + SumFunctionOnSet(f, D)
  BY DEF t
<1>8. /\ t \in Nat /\ t < 2^NumQubits
      /\ \A i \in D : Digit(t, tp[i]) = x[i]
      /\ \A j \in 0..(NumQubits - 1) : (\A i \in D : tp[i] # j) => Digit(t, j) = Digit(s, j)
  BY <1>1, <1>4, <1>6, <1>7, WriteDigits
<1>9. t \in States
  BY <1>8, StateNumbers
<1> QED BY <1>3, <1>4, <1>5, <1>8, <1>9 DEF D, tp

(* Rows are told apart by their digits.                                    *)
LEMMA SameRow ==
  ASSUME NEW k \in 0..NumQubits, NEW r \in Rows(2^k), NEW t \in Rows(2^k),
         \A i \in 1..k : RowDigit(k, r, i) = RowDigit(k, t, i)
  PROVE  r = t
<1>1. k \in Nat /\ k \in 0..(NumQubits + 1) /\ NumQubits \in Nat
  BY SizesAssumption
<1>2. r \in Nat /\ r < 2^k /\ t \in Nat /\ t < 2^k
  <2> DEFINE p == 2^k
  <2>1. p \in Nat
    BY <1>1, Powers
  <2>2. r \in 0..(p - 1) /\ t \in 0..(p - 1)
    BY DEF Rows
  <2> HIDE DEF p
  <2>3. r \in Nat /\ r < p /\ t \in Nat /\ t < p
    BY <2>1, <2>2
  <2> QED BY <2>3 DEF p
<1>3. ASSUME NEW j \in 0..(k - 1) PROVE Digit(r, j) = Digit(t, j)
  <2>1. k - j \in 1..k /\ k - (k - j) = j
    BY <1>1
  <2>2. RowDigit(k, r, k - j) = RowDigit(k, t, k - j)
    BY <2>1
  <2> QED BY <2>1, <2>2 DEF RowDigit
<1> QED BY <1>2, <1>3, SameDigits

(* States are told apart by the bits of the targets and the others.        *)
LEMMA SameState ==
  ASSUME NEW k \in 0..NumQubits, NEW qs \in QubitLists(k),
         NEW s \in States, NEW t \in States,
         \A i \in 1..k : Digit(s, TargetPositions(qs, NumQubits)[i])
                           = Digit(t, TargetPositions(qs, NumQubits)[i]),
         \A j \in OtherPlaces(qs) : Digit(s, j) = Digit(t, j)
  PROVE  s = t
<1>1. DOMAIN qs = 1..k
  BY ListType
<1>2. \A j \in 0..(NumQubits - 1) : Digit(s, j) = Digit(t, j)
  BY <1>1 DEF OtherPlaces
<1>3. s \in Nat /\ s < 2^NumQubits /\ t \in Nat /\ t < 2^NumQubits /\ NumQubits \in 0..NumQubits
  BY StateNumbers
<1> QED BY <1>2, <1>3, SameDigits

\* The blocks of a gate on k qubits.
Blocks(k) == 0..(2^(NumQubits - k) - 1)

(* A block's states are states.                                            *)
LEMMA BlockStates ==
  ASSUME NEW k \in 0..NumQubits, NEW qs \in QubitLists(k), NEW block \in Blocks(k),
         NEW row \in Rows(2^k)
  PROVE  BlockState(qs, NumQubits, block, row) \in States
BY BlockDigits, StateNumbers DEF Blocks

(* The row of a gate a block's state falls in.                             *)
LEMMA BlockRow ==
  ASSUME NEW k \in 0..NumQubits, NEW qs \in QubitLists(k), NEW block \in Blocks(k),
         NEW row \in Rows(2^k)
  PROVE  Promise!Row(BlockState(qs, NumQubits, block, row), qs) = row
<1> DEFINE s == BlockState(qs, NumQubits, block, row)  r == Promise!Row(s, qs)
<1>1. s \in States
  BY BlockStates
<1>2. \A i \in 1..k : Digit(s, TargetPositions(qs, NumQubits)[i]) = RowDigit(k, row, i)
  BY BlockDigits DEF Blocks
<1> HIDE DEF s
<1>3. /\ r \in Rows(2^k)
      /\ \A i \in 1..k : RowDigit(k, r, i) = Digit(s, TargetPositions(qs, NumQubits)[i])
  BY <1>1, RowDigits
<1> HIDE DEF r
<1>4. r = row
  BY <1>2, <1>3, SameRow
<1> QED BY <1>4 DEF r, s

(* Its amplitude mixes with those of the block's other states.             *)
LEMMA BlockColumn ==
  ASSUME NEW k \in 0..NumQubits, NEW qs \in QubitLists(k), NEW block \in Blocks(k),
         NEW row \in Rows(2^k), NEW col \in Rows(2^k)
  PROVE  Promise!WithColumn(BlockState(qs, NumQubits, block, row), qs, col)
           = BlockState(qs, NumQubits, block, col)
<1> DEFINE s == BlockState(qs, NumQubits, block, row)
           t == Promise!WithColumn(s, qs, col)
           u == BlockState(qs, NumQubits, block, col)
           S == 0..(NumQubits - k - 1)
           pos == NonTargetPositions(qs, NumQubits)
<1>1. s \in States /\ u \in States
  BY BlockStates
<1>2. \A j \in S : Digit(s, pos[j]) = Digit(block, j) /\ Digit(u, pos[j]) = Digit(block, j)
  BY BlockDigits DEF Blocks
<1>3. \A i \in 1..k : Digit(u, TargetPositions(qs, NumQubits)[i]) = RowDigit(k, col, i)
  BY BlockDigits DEF Blocks
<1>4. \A i \in OtherPlaces(qs) : \E j \in S : pos[j] = i
  BY NonTargetPlaces
<1> HIDE DEF s, u, pos
<1>5. /\ t \in States
      /\ \A i \in 1..k : Digit(t, TargetPositions(qs, NumQubits)[i]) = RowDigit(k, col, i)
      /\ \A j \in OtherPlaces(qs) : Digit(t, j) = Digit(s, j)
  BY <1>1, ColumnDigits
<1> HIDE DEF t, S
<1>6. \A i \in OtherPlaces(qs) : Digit(t, i) = Digit(u, i)
  BY <1>2, <1>4, <1>5
<1>7. t = u
  BY <1>1, <1>3, <1>5, <1>6, SameState
<1> QED BY <1>7 DEF t, u, s

(* Blocks have no state in common.                                         *)
LEMMA BlocksApart ==
  ASSUME NEW k \in 0..NumQubits, NEW qs \in QubitLists(k),
         NEW b1 \in Blocks(k), NEW b2 \in Blocks(k), NEW r1 \in Rows(2^k), NEW r2 \in Rows(2^k),
         BlockState(qs, NumQubits, b1, r1) = BlockState(qs, NumQubits, b2, r2)
  PROVE  b1 = b2 /\ r1 = r2
<1> DEFINE S == 0..(NumQubits - k - 1)
           pos == NonTargetPositions(qs, NumQubits)
           s == BlockState(qs, NumQubits, b1, r1)
<1>1. r1 = r2
  BY BlockRow
<1>2. \A j \in S : Digit(s, pos[j]) = Digit(b1, j) /\ Digit(s, pos[j]) = Digit(b2, j)
  BY BlockDigits DEF Blocks
<1> HIDE DEF s, pos
<1> DEFINE m == NumQubits - k
<1>3. m \in Nat /\ m \in 0..NumQubits /\ m \in 0..(NumQubits + 1) /\ S = 0..(m - 1)
  BY SizesAssumption
<1>4. b1 \in Nat /\ b1 < 2^m /\ b2 \in Nat /\ b2 < 2^m
  <2> DEFINE p == 2^m
  <2>1. p \in Nat
    BY <1>3, Powers
  <2>2. b1 \in 0..(p - 1) /\ b2 \in 0..(p - 1)
    BY DEF Blocks
  <2> HIDE DEF p, m
  <2>3. b1 \in Nat /\ b1 < p /\ b2 \in Nat /\ b2 < p
    BY <2>1, <2>2
  <2> QED BY <2>3 DEF p
<1> HIDE DEF m
<1>5. \A j \in 0..(m - 1) : Digit(b1, j) = Digit(b2, j)
  BY <1>2, <1>3
<1>6. b1 = b2
  BY <1>3, <1>4, <1>5, SameDigits
<1> QED BY <1>1, <1>6

(* Every state is in a block.                                              *)
LEMMA BlocksReach ==
  ASSUME NEW k \in 0..NumQubits, NEW qs \in QubitLists(k), NEW s \in States
  PROVE  \E block \in Blocks(k), row \in Rows(2^k) : BlockState(qs, NumQubits, block, row) = s
<1> DEFINE m == NumQubits - k
           S == 0..(NumQubits - k - 1)
           pos == NonTargetPositions(qs, NumQubits)
           place == [j \in S |-> j]
           x == [j \in S |-> Digit(s, pos[j])]
           f == [j \in S |-> x[j] * 2^place[j]]
           b == SumFunctionOnSet(f, S)
           row == Promise!Row(s, qs)
<1>1. m \in Nat /\ m \in 0..NumQubits /\ m \in 0..(NumQubits + 1) /\ S = 0..(m - 1)
      /\ NumQubits \in Nat
  BY SizesAssumption
<1>2. IsFiniteSet(S) /\ Places(NumQubits, S, pos) /\ \A i \in OtherPlaces(qs) : \E j \in S : pos[j] = i
  BY NonTargetPlaces
<1>3. Places(m, S, place) /\ \A j \in S : place[j] = j
  BY <1>1 DEF Places
<1>4. s \in Nat
  BY StateNumbers
<1>5. \A j \in S : x[j] \in {0, 1} /\ x[j] = Digit(s, pos[j])
  <2> SUFFICES ASSUME NEW j \in S PROVE Digit(s, pos[j]) \in {0, 1}
    OBVIOUS
  <2>1. pos[j] \in 0..NumQubits
    BY <1>1, <1>2 DEF Places
  <2> QED BY <1>4, <2>1, DigitType
<1>6. \A j \in S : f[j] = x[j] * 2^place[j]
  OBVIOUS
<1> HIDE DEF x, place, pos, m
<1>7. b \in Nat /\ b < 2^m /\ \A j \in S : Digit(b, j) = x[j]
  <2> HIDE DEF f, b, S
  <2>1. b = SumFunctionOnSet(f, S)
    BY DEF b
  <2>2. \A j \in S : x[j] \in {0, 1}
    BY <1>5
  <2>3. \A j \in S : f[j] = x[j] * 2^place[j]
    BY <1>6
  <2>4. LET t == SumFunctionOnSet(f, S)
        IN t \in Nat /\ t < 2^m /\ \A j \in S : Digit(t, place[j]) = x[j]
    <3>1. m \in 0..NumQubits /\ IsFiniteSet(S) /\ Places(m, S, place)
      BY <1>1, <1>2, <1>3
    <3> QED BY <2>2, <2>3, <3>1, PutTogether
  <2> QED BY <1>3, <2>1, <2>4
<1> HIDE DEF b
<1>8. b \in Blocks(k)
  <2> DEFINE p == 2^m
  <2>1. p \in Nat /\ b \in Nat /\ b < p
    BY <1>1, <1>7, Powers
  <2>2. Blocks(k) = 0..(p - 1)
    BY DEF Blocks, m
  <2> HIDE DEF p
  <2> QED BY <2>1, <2>2
<1>9. /\ row \in Rows(2^k)
      /\ \A i \in 1..k : RowDigit(k, row, i) = Digit(s, TargetPositions(qs, NumQubits)[i])
  BY RowDigits
<1> HIDE DEF row
<1> DEFINE t == BlockState(qs, NumQubits, b, row)
<1>10. t \in States
  BY <1>8, <1>9, BlockStates
<1>11. \A i \in 1..k : Digit(t, TargetPositions(qs, NumQubits)[i]) = RowDigit(k, row, i)
  BY <1>8, <1>9, BlockDigits DEF Blocks
<1>12. \A j \in S : Digit(t, pos[j]) = Digit(b, j)
  BY <1>8, <1>9, BlockDigits DEF Blocks, pos
<1> HIDE DEF t, S
<1>13. \A i \in OtherPlaces(qs) : Digit(t, i) = Digit(s, i)
  BY <1>2, <1>5, <1>7, <1>12
<1>14. t = s
  BY <1>9, <1>10, <1>11, <1>13, SameState
<1> QED BY <1>8, <1>9, <1>14 DEF t

-------------------------------------------------------------------------------
(* The operations the back end carries out, and the iterations of their    *)
(* loops.                                                                  *)

OpFits(o) == WellFormed(o) /\ (o.name = "Gate" => o \in Operations)

LEMMA OperationKinds ==
  ASSUME NEW o, WellFormed(o)
  PROVE  \/ o.name \in PairOperations \/ o.name \in StateOperations
         \/ o.name \in {"Inversion", "InversionMean", "Affine"}
         \/ o.name = "Gate" \/ o.name = "Load"
BY DEF WellFormed, PairOperations, StateOperations

(* A gate is recognised as a specialised operation that is well formed, or *)
(* stays what it is.                                                       *)
LEMMA DispatchedFits ==
  ASSUME NEW o \in Operations
  PROVE  OpFits(IF o.name = "Gate" THEN Dispatched(o) ELSE o)
<1>1. WellFormed(o)
  BY OperationsAssumption
<1>2. CASE o.name # "Gate"
  BY <1>1, <1>2 DEF OpFits
<1>3. CASE o.name = "Gate"
  <2>1. PICK k \in 0..NumQubits : o.qubits \in QubitLists(k)
    BY <1>1, <1>3 DEF WellFormed, GateFits, PairOperations
  <2>2. Len(o.qubits) = k
    BY <2>1, ListType
  <2>3. Dispatched(o) = o => OpFits(Dispatched(o))
    BY <1>1 DEF OpFits
  <2>4. \/ Dispatched(o) = o
        \/ k = 1 /\ Dispatched(o) \in {[name |-> n, qubits |-> o.qubits] : n \in {"H", "X"}}
        \/ /\ k = 2
           /\ \/ Dispatched(o) = [name |-> "CNOT", qubits |-> o.qubits]
              \/ \E p \in Phases : Dispatched(o) = [name |-> "CP", qubits |-> o.qubits, phase |-> p]
    BY <2>2 DEF Dispatched
  <2>5. CASE \/ k = 1 /\ Dispatched(o) \in {[name |-> n, qubits |-> o.qubits] : n \in {"H", "X"}}
             \/ k = 2 /\ Dispatched(o) = [name |-> "CNOT", qubits |-> o.qubits]
    <3> DEFINE p == Dispatched(o)
    <3>1. /\ p.qubits = o.qubits
          /\ (k = 1 /\ p.name \in {"H", "X"}) \/ (k = 2 /\ p.name = "CNOT")
      BY <2>5
    <3> HIDE DEF p
    <3>2. OpFits(p)
      BY <2>1, <3>1 DEF OpFits, WellFormed, PairOperations
    <3> QED BY <1>3, <3>2 DEF p
  <2>6. CASE /\ k = 2
             /\ \E p \in Phases : Dispatched(o) = [name |-> "CP", qubits |-> o.qubits, phase |-> p]
    <3> DEFINE p == Dispatched(o)
    <3>1. p.name = "CP" /\ p.qubits = o.qubits /\ p.phase \in Phases
      BY <2>6
    <3> HIDE DEF p
    <3>2. OpFits(p)
      BY <2>1, <2>6, <3>1 DEF OpFits, WellFormed, PairOperations, Phases
    <3> QED BY <1>3, <3>2 DEF p
  <2> QED BY <1>3, <2>3, <2>4, <2>5, <2>6
<1> QED BY <1>2, <1>3

(* The traversal of a pair operation fits the layout.                      *)
LEMMA TargetSized ==
  ASSUME NEW o, WellFormed(o), o.name \in PairOperations
  PROVE  Sized(Layout, TargetMask(o)) /\ Mode(o) \in Chosen(Layout, TargetMask(o))
<1> DEFINE q == o.qubits[Len(o.qubits)]
<1>1. q \in Qubits
  <2>1. PICK k \in 1..2 : o.qubits \in QubitLists(k)
    BY DEF WellFormed, PairOperations
  <2>2. o.qubits \in [1..k -> Qubits]
    BY <2>1 DEF QubitLists, Injection
  <2>3. Len(o.qubits) = k
    BY <2>2
  <2> QED BY <2>2, <2>3
<1>2. TargetMask(o) = QubitMask(q)
  BY DEF TargetMask
<1> HIDE DEF q
<1>3. Sized(Layout, QubitMask(q))
  BY <1>1, MasksAssumption, SizesNow DEF Sized
<1>4. Mode(o) \in Chosen(Layout, TargetMask(o))
  BY DEF Mode, Chosen
<1> QED BY <1>2, <1>3, <1>4

\* The size of a gate on k qubits.
SizedFor(o, k) ==
  /\ o.qubits \in QubitLists(k)
  /\ NumBlocks(o.qubits, NumQubits) = 2^(NumQubits - k)
  /\ BlockSize(o.qubits) = 2^k
  /\ o.matrix \in [Rows(2^k) -> [Rows(2^k) -> Amplitude]]

LEMMA GateSized ==
  ASSUME NEW o, GateFits(o)
  PROVE  \E k \in 0..NumQubits : SizedFor(o, k)
<1>1. PICK k \in 0..NumQubits :
        o.qubits \in QubitLists(k) /\ o.matrix \in [Rows(2^k) -> [Rows(2^k) -> Amplitude]]
  BY DEF GateFits
<1>2. Len(o.qubits) = k
  BY <1>1, ListType
<1> QED BY <1>1, <1>2 DEF SizedFor, NumBlocks, BlockSize

LEMMA GateBounds ==
  ASSUME NEW k \in 0..NumQubits
  PROVE  /\ 2^(NumQubits - k) \in Nat \ {0} /\ 2^k \in 1..2^NumQubits
         /\ \A row \in Rows(2^k) : row \in 0..(2^NumQubits - 1)
<1> DEFINE p == 2^k  n == 2^NumQubits
<1>1. /\ k \in 0..(NumQubits + 1) /\ NumQubits - k \in 0..(NumQubits + 1)
      /\ NumQubits \in 0..NumQubits /\ k <= NumQubits
  BY SizesAssumption
<1>2. p \in Nat \ {0} /\ n \in Nat \ {0} /\ 2^(NumQubits - k) \in Nat \ {0} /\ (n % p) = 0
  BY <1>1, SizesNow, Powers, PowersDivide
<1>3. Rows(2^k) = 0..(p - 1)
  BY DEF Rows
<1> HIDE DEF p, n
<1>4. p \in 1..n
  <2>1. n \div p \in Nat /\ n = p * (n \div p) + (n % p)
    BY <1>2, Division
  <2>2. n \div p # 0
    BY <1>2, <2>1
  <2> DEFINE q == n \div p
  <2>3. q \in Nat /\ q # 0 /\ n = p * q
    BY <1>2, <2>1, <2>2
  <2> HIDE DEF q
  <2> QED BY <1>2, <2>3
<1> QED BY <1>2, <1>3, <1>4 DEF p, n

(* Every operation but an import has iterations to do, and those left have *)
(* an earliest one.                                                        *)
LEMMA WorkEarliest ==
  ASSUME NEW o, WellFormed(o), NEW S \in SUBSET Work(o), S # {}
  PROVE  Earliest(S) \in S
<1>1. CASE o.name \in PairOperations
  <2>1. S \in SUBSET Iterations(Mode(o), Layout, TargetMask(o))
    BY <1>1 DEF Work, PairOperations, StateOperations
  <2> QED BY <1>1, <2>1, TargetSized, EarliestIteration
<1>2. CASE o.name \in StateOperations
  <2>1. S = {<<Write>>}
    BY <1>2 DEF Work, StateOperations, PairOperations
  <2> QED BY <2>1 DEF Earliest
<1>3. CASE o.name \in {"Inversion", "InversionMean", "Affine"}
  <2>1. Work(o) \subseteq {Read, Write} \X Chunks
    BY <1>3 DEF Work, StateOperations, PairOperations
  <2>2. {Read, Write} \X Chunks \subseteq Nat \X Nat
    BY SizesNow DEF Read, Write
  <2> QED BY <2>1, <2>2, EarliestPair
<1>4. CASE o.name = "Gate"
  <2>1. PICK k \in 0..NumQubits : SizedFor(o, k)
    BY <1>4, GateSized DEF WellFormed, PairOperations
  <2> DEFINE B == Blocks(k)  P == {Read, Write}  R == Rows(2^k)
  <2>2. Work(o) = B \X P \X R
    BY <1>4, <2>1 DEF Work, StateOperations, PairOperations, SizedFor, Blocks
  <2>3. B \subseteq Nat /\ P \subseteq Nat /\ R \subseteq Nat
    <3>1. 2^(NumQubits - k) \in Nat /\ 2^k \in Nat
      BY GateBounds, SizesNow
    <3> QED BY <3>1 DEF Blocks, Rows, Read, Write
  <2> HIDE DEF B, P, R
  <2>4. Work(o) \subseteq Nat \X Nat \X Nat
    BY <2>2, <2>3
  <2> QED BY <2>4, EarliestTriple
<1>5. CASE o.name = "Load"
  BY <1>5 DEF Work, StateOperations, PairOperations
<1> QED BY <1>1, <1>2, <1>3, <1>4, <1>5, OperationKinds

LEMMA WorkExists ==
  ASSUME NEW o, WellFormed(o)
  PROVE  Work(o) = {} <=> o.name = "Load"
<1>1. CASE o.name \in PairOperations
  BY <1>1, TargetSized, IterationsExist DEF Work, PairOperations
<1>2. CASE o.name \in StateOperations
  BY <1>2 DEF Work, StateOperations, PairOperations
<1>3. CASE o.name \in {"Inversion", "InversionMean", "Affine"}
  <2>1. 0 \in Chunks
    BY SizesNow
  <2>2. <<Write, 0>> \in Work(o)
    BY <1>3, <2>1 DEF Work, StateOperations, PairOperations
  <2> QED BY <1>3, <2>2
<1>4. CASE o.name = "Gate"
  <2>1. PICK k \in 0..NumQubits : SizedFor(o, k)
    BY <1>4, GateSized DEF WellFormed, PairOperations
  <2>2. 0 \in 0..(NumBlocks(o.qubits, NumQubits) - 1) /\ 0 \in Rows(BlockSize(o.qubits))
    BY <2>1, GateBounds DEF Rows, SizedFor
  <2>3. <<0, Read, 0>> \in Work(o)
    BY <1>4, <2>2 DEF Work, StateOperations, PairOperations
  <2> QED BY <1>4, <2>3
<1>5. CASE o.name = "Load"
  BY <1>5 DEF Work, StateOperations, PairOperations
<1> QED BY <1>1, <1>2, <1>3, <1>4, <1>5, OperationKinds

\* A reference to an amplitude of the layout.
InLayout(ref) == ref.chunk \in Chunks /\ ref.local \in 0..(ChunkStates - 1)

LEMMA StateInLayout == \A s \in States : InLayout(StateRef(Layout, s))
<1> SUFFICES ASSUME NEW s \in States PROVE InLayout(StateRef(Layout, s))
  OBVIOUS
<1>1. s \in 0..(Layout.states - 1)
  BY SizesNow DEF States
<1> QED BY <1>1, SizesNow, StateInChunk DEF InLayout, Chunks

(* Whatever an iteration refers to is in the layout.                       *)
LEMMA PairInLayout ==
  ASSUME NEW o, WellFormed(o), o.name \in PairOperations, NEW it \in Work(o)
  PROVE  /\ FirstRef(o, it) = PairCall(o, it).ref0
         /\ InLayout(PairCall(o, it).ref0)
         /\ InLayout(PairCall(o, it).ref1)
         /\ Mode(o) = "IntraChunk" => PairCall(o, it).ref0.chunk = PairCall(o, it).ref1.chunk
<1>1. it \in Iterations(Mode(o), Layout, TargetMask(o))
  BY DEF Work, PairOperations, StateOperations
<1>2. IsPair(Layout, TargetMask(o), PairCall(o, it))
  BY <1>1, TargetSized, CallIsPair DEF PairCall
<1>3. /\ PairCall(o, it).state0 \in States /\ PairCall(o, it).state1 \in States
      /\ PairCall(o, it).ref0 = StateRef(Layout, PairCall(o, it).state0)
      /\ PairCall(o, it).ref1 = StateRef(Layout, PairCall(o, it).state1)
  BY <1>2, SizesNow DEF IsPair, States
<1>4. InLayout(PairCall(o, it).ref0) /\ InLayout(PairCall(o, it).ref1)
  BY <1>3, StateInLayout
<1>5. Mode(o) = "IntraChunk" => PairCall(o, it).ref0.chunk = PairCall(o, it).ref1.chunk
  BY DEF PairCall, Call
<1>6. FirstRef(o, it) = PairCall(o, it).ref0
  BY DEF FirstRef, PairOperations, StateOperations
<1> QED BY <1>4, <1>5, <1>6

LEMMA RefInLayout ==
  ASSUME NEW o, OpFits(o), o.name = "InitBasis" => o.state \in States, NEW it \in Work(o)
  PROVE  InLayout(FirstRef(o, it))
<1>0. WellFormed(o)
  BY DEF OpFits
<1>1. CASE o.name \in PairOperations
  BY <1>0, <1>1, PairInLayout
<1>2. CASE o.name \in StateOperations
  <2>1. o.state \in States
    BY <1>0, <1>2 DEF StateOperations, WellFormed, PairOperations
  <2>2. FirstRef(o, it) = StateRef(Layout, o.state)
    BY <1>2 DEF FirstRef, StateOperations, PairOperations
  <2> QED BY <2>1, <2>2, StateInLayout
<1>3. CASE o.name \in {"Inversion", "InversionMean", "Affine"}
  <2>1. it \in {Read, Write} \X Chunks
    BY <1>3 DEF Work, StateOperations, PairOperations
  <2>2. FirstRef(o, it) = [chunk |-> it[2], local |-> 0]
    BY <1>3 DEF FirstRef, StateOperations, PairOperations
  <2>3. 0 \in 0..(ChunkStates - 1)
    BY SizesNow
  <2>4. it[2] \in Chunks
    BY <2>1
  <2> QED BY <2>2, <2>3, <2>4 DEF InLayout
<1>4. CASE o.name = "Gate"
  <2>1. PICK k \in 0..NumQubits : SizedFor(o, k)
    BY <1>0, <1>4, GateSized DEF WellFormed, PairOperations
  <2>2. BlockState(o.qubits, NumQubits, it[1], it[3]) \in States
    <3>1. it[1] \in Blocks(k) /\ it[3] \in Rows(2^k)
      BY <1>4, <2>1 DEF Work, StateOperations, PairOperations, SizedFor, Blocks
    <3> QED BY <2>1, <3>1, BlockStates DEF SizedFor
  <2>3. FirstRef(o, it) = StateRef(Layout, BlockState(o.qubits, NumQubits, it[1], it[3]))
    BY <1>4 DEF FirstRef, StateOperations, PairOperations
  <2> QED BY <2>2, <2>3, StateInLayout
<1>5. CASE o.name = "Load"
  BY <1>5 DEF Work, StateOperations, PairOperations
<1> QED BY <1>0, <1>1, <1>2, <1>3, <1>4, <1>5, OperationKinds

(* The chunks of a pair tell each other in an inter-chunk traversal.       *)
LEMMA SecondFollows ==
  ASSUME NEW o, Mode(o) = "InterChunk", NEW it, NEW jt,
         PairCall(o, it).ref0.chunk = PairCall(o, jt).ref0.chunk
  PROVE  PairCall(o, it).ref1.chunk = PairCall(o, jt).ref1.chunk
BY DEF PairCall, Call

-------------------------------------------------------------------------------
(* The amplitudes an operation reads, computes and writes.                 *)

LEMMA ArithmeticType ==
  \A a, b \in Int : Plus(a, b) \in Amplitude /\ Minus(a, b) \in Amplitude /\ Times(a, b) \in Amplitude
<1> SUFFICES ASSUME NEW a \in Int, NEW b \in Int
             PROVE  Plus(a, b) \in Amplitude /\ Minus(a, b) \in Amplitude /\ Times(a, b) \in Amplitude
  OBVIOUS
<1>1. a * b \in Int
  OBVIOUS
<1>2. \A c \in Int : (c % 17) \in 0..16
  OBVIOUS
<1> QED BY <1>1, <1>2 DEF Plus, Minus, Times, Amplitude

LEMMA AmplitudesAreNumbers == Amplitude \subseteq Int /\ 0 \in Amplitude
BY DEF Amplitude

LEMMA BufferExcept ==
  ASSUME NEW d \in Buffer, NEW k \in 0..(ChunkStates - 1), NEW a \in Amplitude
  PROVE  [d EXCEPT ![k] = a] \in Buffer
BY DEF Buffer

LEMMA BufferRead ==
  ASSUME NEW d \in Buffer, NEW k \in 0..(ChunkStates - 1)
  PROVE  d[k] \in Amplitude
BY DEF Buffer

\* The amplitudes an operation keeps.
Kept == [0..(2^NumQubits - 1) -> Amplitude]

LEMMA PairBodyType ==
  ASSUME NEW o, WellFormed(o), o.name \in PairOperations, NEW call,
         NEW a0 \in Amplitude, NEW a1 \in Amplitude
  PROVE  LET body == PairBody(o, call, a0, a1)
         IN body.amps[1] \in Amplitude /\ body.amps[2] \in Amplitude
<1> DEFINE body == PairBody(o, call, a0, a1)
<1>0. a0 \in Int /\ a1 \in Int /\ InvSqrt2 \in Int
  BY AmplitudesAreNumbers DEF InvSqrt2
<1>1. CASE o.name = "H"
  <2>1. Plus(a0, a1) \in Int /\ Minus(a0, a1) \in Int
    BY <1>0, ArithmeticType, AmplitudesAreNumbers
  <2>2. Times(Plus(a0, a1), InvSqrt2) \in Amplitude /\ Times(Minus(a0, a1), InvSqrt2) \in Amplitude
    BY <1>0, <2>1, ArithmeticType
  <2>3. body = IF a0 = 0 /\ a1 = 0
               THEN [first |-> FALSE, second |-> FALSE, amps |-> <<a0, a1>>]
               ELSE [first |-> TRUE, second |-> TRUE,
                     amps |-> <<Times(Plus(a0, a1), InvSqrt2), Times(Minus(a0, a1), InvSqrt2)>>]
    BY <1>1 DEF PairBody
  <2> HIDE DEF body
  <2>4. body.amps = <<a0, a1>> \/ body.amps = <<Times(Plus(a0, a1), InvSqrt2), Times(Minus(a0, a1), InvSqrt2)>>
    BY <2>3
  <2>5. body.amps[1] \in Amplitude /\ body.amps[2] \in Amplitude
    BY <2>2, <2>4
  <2> QED BY <2>5 DEF body
<1>2. CASE o.name = "CP"
  <2>1. o.phase \in Amplitude
    BY <1>2 DEF WellFormed, PairOperations
  <2>2. Times(o.phase, a1) \in Amplitude
    BY <1>0, <2>1, ArithmeticType, AmplitudesAreNumbers
  <2>3. body.amps \in {<<a0, a1>>, <<a0, Times(o.phase, a1)>>}
    BY <1>2 DEF PairBody
  <2> HIDE DEF body
  <2>4. body.amps[1] \in Amplitude /\ body.amps[2] \in Amplitude
    BY <2>2, <2>3
  <2> QED BY <2>4 DEF body
<1>3. CASE o.name \in {"X", "CNOT"}
  <2>1. body.amps \in {<<a0, a1>>, <<a1, a0>>}
    BY <1>3 DEF PairBody
  <2> HIDE DEF body
  <2>2. body.amps[1] \in Amplitude /\ body.amps[2] \in Amplitude
    BY <2>1
  <2> QED BY <2>2 DEF body
<1> QED BY <1>1, <1>2, <1>3 DEF PairOperations

LEMMA NewValueType ==
  ASSUME WellFormed(op), op.name \in {"Inversion", "InversionMean", "Affine"},
         local \in Kept, NEW a \in Amplitude
  PROVE  NewValue(a) \in Amplitude
<1>0. a \in Int
  BY AmplitudesAreNumbers
<1>1. CASE op.name = "Inversion"
  <2>1. 0 \in 0..(2^NumQubits - 1)
    BY SizesNow
  <2>2. local[0] \in Int /\ InversePower2(NumQubits) \in Int
    BY <2>1, SizesAssumption, AmplitudesAreNumbers DEF Kept
  <2>3. Times(local[0], InversePower2(NumQubits)) \in Int
    BY <2>2, ArithmeticType, AmplitudesAreNumbers
  <2>4. 2 * Times(local[0], InversePower2(NumQubits)) \in Int
    BY <2>3
  <2>5. NewValue(a) = Minus(2 * Times(local[0], InversePower2(NumQubits)), a)
    BY <1>1 DEF NewValue
  <2> QED BY <1>0, <2>4, <2>5, ArithmeticType
<1>2. CASE op.name = "InversionMean"
  <2>1. op.mean \in Int
    BY <1>2, AmplitudesAreNumbers DEF WellFormed, PairOperations
  <2>2. 2 * op.mean \in Int
    BY <2>1
  <2>3. NewValue(a) = Minus(2 * op.mean, a)
    BY <1>2 DEF NewValue
  <2> QED BY <1>0, <2>2, <2>3, ArithmeticType
<1>3. CASE op.name = "Affine"
  <2>1. op.scale \in Int /\ op.bias \in Int
    BY <1>3, AmplitudesAreNumbers DEF WellFormed, PairOperations
  <2>2. Times(op.scale, a) \in Int
    BY <1>0, <2>1, ArithmeticType, AmplitudesAreNumbers
  <2>3. NewValue(a) = Plus(Times(op.scale, a), op.bias)
    BY <1>3 DEF NewValue
  <2> QED BY <2>1, <2>2, <2>3, ArithmeticType
<1> QED BY <1>1, <1>2, <1>3

LEMMA NewAmplitudeType ==
  ASSUME NEW o, GateFits(o), NEW row \in Rows(BlockSize(o.qubits)), NEW amps \in Kept
  PROVE  NewAmplitude(o.matrix, row, amps) \in Amplitude
<1> DEFINE S == Rows(BlockSize(o.qubits))
           f == [col \in S |-> Times(o.matrix[row][col], amps[col])]
<1>1. /\ BlockSize(o.qubits) \in 1..2^NumQubits
      /\ o.matrix \in [S -> [S -> Amplitude]]
  BY GateSized, GateBounds DEF SizedFor
<1>2. IsFiniteSet(S)
  BY <1>1, SizesNow, FS_Interval DEF Rows
<1>3. \A col \in S : col \in 0..(2^NumQubits - 1)
  BY <1>1, SizesNow DEF Rows
<1>4. \A col \in S : f[col] \in Int
  <2> SUFFICES ASSUME NEW col \in S PROVE f[col] \in Int
    OBVIOUS
  <2>1. o.matrix[row][col] \in Int /\ amps[col] \in Int
    BY <1>1, <1>3, AmplitudesAreNumbers DEF Kept
  <2> QED BY <2>1, ArithmeticType, AmplitudesAreNumbers
<1>5. NewAmplitude(o.matrix, row, amps) = Total(f)
  BY <1>1 DEF NewAmplitude
<1>6. DOMAIN f = S
  OBVIOUS
<1> HIDE DEF S, f
<1>7. Total(f) \in Amplitude
  BY <1>2, <1>4, <1>6, TotalType
<1> QED BY <1>5, <1>7

\* How many states a chunk holds.
LEMMA ChunkStatesHeld ==
  ASSUME NEW c \in Chunks
  PROVE  /\ StatesInChunk(Layout, c) \in 0..ChunkStates
         /\ \A k \in 0..(ChunkStates - 1) :
              k < StatesInChunk(Layout, c) => ChunkStateBegin(Layout, c) + k \in States
<1> DEFINE n == 2^NumQubits  w == ChunkStates  count == (n + w - 1) \div w
<1>1. n \in Nat \ {0} /\ w \in Nat \ {0}
  BY SizesNow
<1>2. c \in 0..(count - 1)
  BY SizesNow DEF ChunkCount
<1>3. StatesInChunk(Layout, c) = IF w < n - c * w THEN w ELSE n - c * w
  BY SizesNow DEF StatesInChunk, ChunkStateBegin
<1>4. ChunkStateBegin(Layout, c) = c * w
  BY SizesNow DEF ChunkStateBegin
<1>5. States = 0..(n - 1)
  BY DEF States
<1> HIDE DEF n, w
<1>6. count \in Nat /\ w * count <= n + w - 1
  <2> DEFINE r == (n + w - 1) % w
  <2>1. n + w - 1 \in Nat
    BY <1>1
  <2>2. count \in Nat /\ n + w - 1 = w * count + r /\ r \in 0..(w - 1)
    <3> DEFINE m == n + w - 1
    <3>1. m \in Nat
      BY <2>1
    <3> HIDE DEF m
    <3>2. m \div w \in Nat /\ m = w * (m \div w) + (m % w) /\ (m % w) \in 0..(w - 1)
      BY <1>1, <3>1, Division
    <3> QED BY <3>2 DEF m
  <2> HIDE DEF count, r
  <2>3. w * count \in Nat /\ r \in Nat
    BY <1>1, <2>2
  <2> QED BY <1>1, <2>2, <2>3
<1> HIDE DEF count
<1>7. c \in Nat /\ c * w \in Nat /\ c * w < n
  <2>1. c \in Nat /\ c <= count - 1
    BY <1>2, <1>6
  <2>2. w * (count - 1 - c) \in Nat
    <3>1. count - 1 - c \in Nat
      BY <1>6, <2>1
    <3> QED BY <1>1, <3>1
  <2>3. w * count = w * c + w + w * (count - 1 - c)
    BY <1>1, <1>6, <2>1
  <2>4. c * w = w * c /\ c * w \in Nat
    BY <1>1, <2>1
  <2> QED BY <1>1, <1>6, <2>1, <2>2, <2>3, <2>4
<1>8. StatesInChunk(Layout, c) \in 0..w
  BY <1>1, <1>3, <1>7
<1>9. ASSUME NEW k \in 0..(w - 1), k < StatesInChunk(Layout, c) PROVE c * w + k \in 0..(n - 1)
  BY <1>1, <1>3, <1>7, <1>9
<1> QED BY <1>4, <1>5, <1>8, <1>9 DEF w

LEMMA ChunksOfType ==
  ASSUME NEW v \in [States -> Amplitude]
  PROVE  ChunksOf(v) \in [Chunks -> Buffer]
<1>1. ASSUME NEW c \in Chunks, NEW k \in 0..(ChunkStates - 1)
      PROVE (IF k < StatesInChunk(Layout, c) THEN v[ChunkStateBegin(Layout, c) + k] ELSE 0) \in Amplitude
  BY ChunkStatesHeld, AmplitudesAreNumbers
<1> QED BY <1>1 DEF ChunksOf, Buffer

(* The state vector.                                                       *)
LEMMA ContentType ==
  ASSUME CP!Coherent
  PROVE  Cache!Content \in [Chunks -> Buffer] /\ Vector \in [States -> Amplitude]
<1>1. /\ store \in [Chunks -> Buffer]
      /\ chunkToSlot \in [Chunks -> 1..EffectiveCacheSlots \cup {0}]
      /\ slots \in [1..EffectiveCacheSlots -> CP!Slot]
  BY CoherentParts DEF CP!TypeOK, CP!SlotIds, CP!NoSlot
<1>2. \A s \in 1..EffectiveCacheSlots : slots[s].buffer \in Buffer
  BY <1>1 DEF CP!Slot
<1>3. Cache!Content \in [Chunks -> Buffer]
  BY <1>1, <1>2 DEF Cache!Content, Cache!NoSlot
<1>4. ASSUME NEW s \in States
      PROVE Cache!Content[StateRef(Layout, s).chunk][StateRef(Layout, s).local] \in Amplitude
  BY <1>3, StateInLayout, BufferRead DEF InLayout
<1>5. Vector \in [States -> Amplitude]
  BY <1>4 DEF Vector
<1> QED BY <1>3, <1>5

-------------------------------------------------------------------------------
(* The inductive invariant of the loops.                                   *)

PhaseFits ==
  /\ op # Idle => OpFits(op)
  /\ phase = "configure" => op.name \in Initialisations
  /\ op.name = "Load" => phase = "configure"
  /\ op.name = "InitBasis" /\ phase # "configure" => op.state \in States
  /\ phase \in {"second", "write second"} => TwoHandles(op)
  /\ batchDepth <= open

\* The handles of the current iteration, from the moment they are acquired.
HandlesKept ==
  /\ phase \in {"second", "apply", "write second"} =>
       first # Cache!NoHandle /\ first.chunk = FirstRef(op, Earliest(todo)).chunk
  /\ phase \in {"apply", "write second"} /\ TwoHandles(op) =>
       second # Cache!NoHandle /\ second.chunk = PairCall(op, Earliest(todo)).ref1.chunk

Clean == \A s \in 1..size : ~slots[s].dirty
CleanBetween == phase = "idle" /\ batchDepth = 0 => Clean

LoopInv == TypeOK /\ CP!Coherent /\ PhaseFits /\ HandlesKept /\ CleanBetween

-------------------------------------------------------------------------------
(* What the calls of the cache leave clean.                                *)

LEMMA AcquireClean ==
  ASSUME CP!Coherent, Clean, NEW c \in Chunks, Cache!Acquire(1, c)
  PROVE  Clean'
<1>1. CP!Acquire(1, c)
  BY AcquireSame
<1>2. slots \in [1..EffectiveCacheSlots -> CP!Slot] /\ size \in 0..EffectiveCacheSlots
  BY CoherentParts
<1>3. CASE CP!AcquireHit(1, c) \/ CP!AcquireStoreFails(1, c)
  BY <1>3 DEF CP!AcquireHit, CP!AcquireStoreFails, Clean
<1>4. CASE CP!AcquireFill(1, c)
  <2>1. /\ size' = size + 1
        /\ slots' = [slots EXCEPT ![size + 1] =
                       [chunk |-> c, buffer |-> store'[c], dirty |-> FALSE]]
    BY <1>4 DEF CP!AcquireFill, CP!Load
  <2>2. size < EffectiveCacheSlots
    BY <1>4 DEF CP!AcquireFill
  <2>3. \A s \in 1..(size + 1) : s \in 1..EffectiveCacheSlots /\ (s = size + 1 \/ s \in 1..size)
    BY <1>2, <2>2, SlotsNow
  <2>4. ASSUME NEW s \in 1..(size + 1) PROVE ~slots'[s].dirty
    BY <1>2, <2>1, <2>3 DEF Clean
  <2> QED BY <2>1, <2>4 DEF Clean
<1>5. CASE CP!AcquireEvict(1, c)
  <2>1. /\ size' = size
        /\ slots' = [slots EXCEPT ![CP!EvictionSlot] =
                       [chunk |-> c, buffer |-> store'[c], dirty |-> FALSE]]
    BY <1>5 DEF CP!AcquireEvict, CP!Load
  <2>2. \A s \in 1..size : s \in 1..EffectiveCacheSlots
    BY <1>2, SlotsNow
  <2> QED BY <1>2, <2>1, <2>2 DEF Clean
<1> QED BY <1>1, <1>3, <1>4, <1>5 DEF CP!Acquire

(* A flush that reaches the last slot leaves nothing to store.             *)
LEMMA FlushClean ==
  ASSUME CP!Coherent, Cache!FlushUpTo(size)
  PROVE  Clean'
<1>1. CP!FlushUpTo(size)
  BY FlushSame
<1>2. slots \in [1..EffectiveCacheSlots -> CP!Slot] /\ size \in 0..EffectiveCacheSlots
  BY CoherentParts
<1>3. /\ size' = size
      /\ slots' = [s \in 1..EffectiveCacheSlots |->
                     IF s <= size /\ CP!NeedsStore(s) THEN [slots[s] EXCEPT !.dirty = FALSE]
                     ELSE slots[s]]
  BY <1>1 DEF CP!FlushUpTo, CP!SlotIds
<1>4. ASSUME NEW s \in 1..size PROVE ~slots'[s].dirty
  <2>1. s \in 1..EffectiveCacheSlots /\ s <= size
    BY <1>2, SlotsNow
  <2>2. slots[s].chunk # ChunkCount(Layout)
    BY SizesNow DEF CP!Coherent, CP!SlotsMatchTable, CP!Used
  <2>3. slots[s] \in CP!Slot
    BY <1>2, <2>1
  <2>4. CASE slots[s].dirty
    BY <1>3, <2>1, <2>2, <2>3, <2>4 DEF CP!NeedsStore, CP!Slot
  <2>5. CASE ~slots[s].dirty
    BY <1>3, <2>1, <2>5 DEF CP!NeedsStore
  <2> QED BY <2>4, <2>5
<1> QED BY <1>3, <1>4 DEF Clean

LEMMA ConfigureClean == \A data : Cache!Configure(data) => Clean'
BY DEF Cache!Configure, Clean

-------------------------------------------------------------------------------
(* Every state a behaviour starts from is good.                            *)

LEMMA InitCoherentNow == Init => CP!Coherent
<1> SUFFICES ASSUME Init PROVE CP!Coherent
  OBVIOUS
<1>1. PICK v \in Initial : store = ChunksOf(v)
  BY DEF Init
<1>2. store \in [Chunks -> Buffer]
  BY <1>1, InitialAssumption, ChunksOfType
<1>3. EffectiveCacheSlots \in Nat \ {0}
  BY SlotsNow
<1>4. size = 0 /\ \A s \in 1..size : FALSE
  BY DEF Init
<1>5. CP!TypeOK
  <2>1. Cache!EmptySlot \in CP!Slot
    BY CacheFits DEF Cache!EmptySlot, CP!Slot
  <2>2. Cache!NoHandle \in CP!Handle
    BY DEF Cache!NoHandle, CP!Handle, Cache!NoSlot, CP!NoSlot
  <2>3. slots \in [CP!SlotIds -> CP!Slot]
    BY <2>1 DEF Init, CP!SlotIds
  <2>4. age \in [CP!SlotIds -> 0..(EffectiveCacheSlots - 1)]
    BY <1>3 DEF Init, CP!SlotIds
  <2>5. chunkToSlot \in [Chunks -> CP!SlotIds \cup {CP!NoSlot}]
    BY DEF Init, Cache!NoSlot, CP!NoSlot
  <2>6. size \in 0..EffectiveCacheSlots /\ reserved \in Nat
    BY <1>3 DEF Init
  <2> QED BY <1>2, <2>2, <2>3, <2>4, <2>5, <2>6 DEF CP!TypeOK, Init
<1>6. CP!AgesCover
  <2> SUFFICES ASSUME NEW a \in 0..(EffectiveCacheSlots - 1)
               PROVE  \E s \in CP!SlotIds : age[s] = a
    BY DEF CP!AgesCover
  <2>1. a + 1 \in 1..EffectiveCacheSlots /\ (a + 1) - 1 = a
    BY <1>3
  <2> QED BY <2>1 DEF Init, CP!SlotIds
<1>7. CP!SlotsMatchTable /\ CP!CleanIsStored
  BY <1>4 DEF CP!SlotsMatchTable, CP!CleanIsStored, CP!Used, Init, Cache!NoSlot, CP!NoSlot
<1>8. CP!HeldStaysResident /\ CP!HandlesMark /\ CP!FirstIsNewest
  BY NoHandleSame DEF CP!HeldStaysResident, CP!HandlesMark, CP!FirstIsNewest, Init
<1>9. CP!RoomReserved
  BY <1>3 DEF CP!RoomReserved, Init
<1> QED BY <1>5, <1>6, <1>7, <1>8, <1>9 DEF CP!Coherent, CP!TypeInv

LEMMA InitLoop == Init => LoopInv
<1> SUFFICES ASSUME Init PROVE LoopInv
  OBVIOUS
<1>1. CP!Coherent
  BY InitCoherentNow
<1>2. Cache!TypeOK
  BY <1>1, CoherentParts
<1>3. NoAmplitudes \in Kept /\ Nothing \in [States -> Amplitude]
  BY AmplitudesAreNumbers DEF NoAmplitudes, Nothing, Kept
<1>4. TypeOK
  BY <1>2, <1>3, BoundsAssumption DEF Init, TypeOK, Kept, Idle, NoRequest
<1>5. PhaseFits /\ HandlesKept /\ CleanBetween
  BY DEF Init, PhaseFits, HandlesKept, CleanBetween, Clean, Idle, Initialisations
<1> QED BY <1>1, <1>4, <1>5 DEF LoopInv

-------------------------------------------------------------------------------
(* The steps of an operation.                                              *)

\* What holds while an operation is under way.
LEMMA Running ==
  ASSUME LoopInv, phase \in {"first", "second", "apply", "write second"}
  PROVE  /\ CP!Coherent
         /\ op # Idle /\ OpFits(op) /\ WellFormed(op) /\ op.name # "Load"
         /\ op.name = "InitBasis" => op.state \in States
         /\ todo \subseteq Work(op) /\ todo # {}
         /\ Earliest(todo) \in todo /\ Earliest(todo) \in Work(op)
         /\ InLayout(FirstRef(op, Earliest(todo)))
         /\ local \in Kept
<1>1. /\ op # Idle /\ OpFits(op) /\ WellFormed(op) /\ op.name # "Load"
      /\ op.name = "InitBasis" => op.state \in States
  BY DEF LoopInv, TypeOK, PhaseFits, OpFits
<1>2. todo \subseteq Work(op) /\ todo # {}
  BY <1>1 DEF LoopInv, TypeOK
<1>3. Earliest(todo) \in todo /\ Earliest(todo) \in Work(op)
  BY <1>1, <1>2, WorkEarliest
<1>4. InLayout(FirstRef(op, Earliest(todo)))
  BY <1>1, <1>3, RefInLayout
<1>5. CP!Coherent /\ local \in Kept
  BY DEF LoopInv, TypeOK, Kept
<1> QED BY <1>1, <1>2, <1>3, <1>4, <1>5

(* The end of an operation, or of a call that only touches the cache.      *)
LEMMA Ends ==
  ASSUME LoopInv, NEW how \in {"idle", "failed"}, Quit(how), CP!Coherent',
         open' = open, left' = left, batchDepth' \in {0, batchDepth},
         how = "idle" /\ batchDepth' = 0 => Clean'
  PROVE  LoopInv'
<1>1. Cache!TypeOK'
  BY CoherentParts, PTL
<1>2. NoAmplitudes \in Kept /\ Nothing \in [States -> Amplitude]
  BY AmplitudesAreNumbers DEF NoAmplitudes, Nothing, Kept
<1>3. /\ batchDepth' \in 0..MaxBatches /\ open' \in 0..MaxBatches /\ left' \in 0..MaxOperations
      /\ batchDepth' <= open'
  <2>1. /\ batchDepth \in 0..MaxBatches /\ open \in 0..MaxBatches /\ left \in 0..MaxOperations
        /\ batchDepth <= open /\ MaxBatches \in Nat
    BY BoundsAssumption DEF LoopInv, TypeOK, PhaseFits
  <2>2. 0 \in 0..MaxBatches /\ 0 <= open
    BY <2>1
  <2> QED BY <2>1, <2>2
<1>4. TypeOK'
  BY <1>1, <1>2, <1>3 DEF TypeOK, Quit, Kept, Idle, NoRequest
<1>5. PhaseFits'
  BY <1>3 DEF PhaseFits, Quit, Idle
<1>6. HandlesKept'
  BY DEF HandlesKept, Quit
<1>7. CleanBetween'
  BY DEF CleanBetween, Quit
<1> QED BY <1>4, <1>5, <1>6, <1>7 DEF LoopInv

(* The end of an iteration: the handles a chunk-aware traversal keeps are  *)
(* those of the chunks its next pair lives in.                             *)
LEMMA IterationOver ==
  ASSUME LoopInv, phase \in {"apply", "write second"}, NEW skipped, EndIteration(skipped),
         CP!Coherent', local' \in Kept, first' = first, second' = second
  PROVE  LoopInv'
<1>1. Cache!TypeOK'
  BY CoherentParts, PTL
<1>2. /\ OpFits(op) /\ WellFormed(op) /\ op # Idle /\ op.name # "Load"
      /\ op.name = "InitBasis" => op.state \in States
      /\ todo \subseteq Work(op) /\ Earliest(todo) \in Work(op)
  BY Running
<1>3. /\ todo' \subseteq todo
      /\ phase' = NextPhase(op, todo', first)
      /\ UNCHANGED <<request, op, before, batchDepth, open, left>>
  BY DEF EndIteration, clientVars
<1>4. /\ phase' \in {"finish", "apply", "first"}
      /\ phase' = "finish" <=> todo' = {}
      /\ phase' = "apply" => /\ todo' # {} /\ op.name \in PairOperations /\ Mode(op) # "Fallback"
                             /\ first.chunk = FirstRef(op, Earliest(todo')).chunk
  BY <1>3 DEF NextPhase
<1>5. TypeOK'
  BY <1>1, <1>2, <1>3, <1>4 DEF LoopInv, TypeOK, Kept
<1>6. PhaseFits'
  BY <1>2, <1>3, <1>4 DEF LoopInv, PhaseFits
<1>7. CASE phase' # "apply"
  <2>1. HandlesKept'
    BY <1>4, <1>7 DEF HandlesKept
  <2>2. CleanBetween'
    BY <1>4 DEF CleanBetween
  <2> QED BY <1>5, <1>6, <2>1, <2>2 DEF LoopInv
<1>8. CASE phase' = "apply"
  <2>1. first # Cache!NoHandle /\ first.chunk = FirstRef(op, Earliest(todo)).chunk
    BY DEF LoopInv, HandlesKept
  <2>2. ASSUME TwoHandles(op)
        PROVE  /\ second # Cache!NoHandle
               /\ second.chunk = PairCall(op, Earliest(todo')).ref1.chunk
    <3>1. second # Cache!NoHandle /\ second.chunk = PairCall(op, Earliest(todo)).ref1.chunk
      BY <2>2 DEF LoopInv, HandlesKept
    <3>2. Mode(op) = "InterChunk"
      BY <1>2, <1>4, <1>8, <2>2, TargetSized, ChosenModes DEF TwoHandles, Modes
    <3>3. Earliest(todo') \in Work(op)
      BY <1>2, <1>3, <1>4, <1>8, WorkEarliest
    <3>4. PairCall(op, Earliest(todo)).ref0.chunk = PairCall(op, Earliest(todo')).ref0.chunk
      BY <1>2, <1>4, <1>8, <2>1, <3>3, PairInLayout
    <3> QED BY <3>1, <3>2, <3>4, SecondFollows
  <2>3. HandlesKept'
    BY <1>3, <1>4, <1>8, <2>1, <2>2 DEF HandlesKept
  <2>4. CleanBetween'
    BY <1>8 DEF CleanBetween
  <2> QED BY <1>5, <1>6, <2>3, <2>4 DEF LoopInv
<1> QED BY <1>7, <1>8

(* Handles are the right ones.                                             *)
LEMMA KeptHandles ==
  ASSUME LoopInv, phase \in {"apply", "write second"}
  PROVE  /\ first # Cache!NoHandle /\ first.chunk = FirstRef(op, Earliest(todo)).chunk
         /\ Held(first) \in Buffer
         /\ TwoHandles(op) => /\ second # Cache!NoHandle
                              /\ second.chunk = PairCall(op, Earliest(todo)).ref1.chunk
                              /\ Held(second) \in Buffer
BY CoherentParts DEF LoopInv, HandlesKept

LEMMA AcquireFirstLoop == LoopInv /\ AcquireFirst => LoopInv'
<1> SUFFICES ASSUME LoopInv, AcquireFirst PROVE LoopInv'
  OBVIOUS
<1> DEFINE c == FirstRef(op, Earliest(todo)).chunk
<1>1. phase = "first" /\ Cache!Acquire(1, c)
  BY DEF AcquireFirst
<1>2. c \in Chunks /\ CP!Coherent /\ op # Idle
  BY <1>1, Running DEF InLayout
<1>3. CP!Coherent' /\ (first' = Cache!NoHandle \/ first'.chunk = c)
  BY <1>1, <1>2, AcquireCoherent, AcquireHolds
<1>4. CASE first' = Cache!NoHandle
  <2>1. Quit("failed") /\ UNCHANGED clientVars
    BY <1>4 DEF AcquireFirst, Leave
  <2> QED BY <1>3, <2>1, Ends DEF clientVars
<1>5. CASE first' # Cache!NoHandle
  <2>1. /\ phase' = IF TwoHandles(op) THEN "second" ELSE "apply"
        /\ UNCHANGED <<request, op, todo, local, before, batchDepth, open, left>>
    BY <1>5 DEF AcquireFirst, clientVars
  <2>2. Cache!TypeOK'
    BY <1>3, CoherentParts, PTL
  <2>3. TypeOK'
    BY <1>1, <1>2, <2>1, <2>2 DEF LoopInv, TypeOK
  <2>4. PhaseFits'
    BY <1>1, <1>2, <2>1 DEF LoopInv, PhaseFits
  <2>5. HandlesKept'
    BY <1>3, <1>5, <2>1 DEF HandlesKept
  <2>6. CleanBetween'
    BY <2>1 DEF CleanBetween
  <2> QED BY <1>3, <2>3, <2>4, <2>5, <2>6 DEF LoopInv
<1> QED BY <1>4, <1>5

LEMMA AcquireSecondLoop == LoopInv /\ AcquireSecond => LoopInv'
<1> SUFFICES ASSUME LoopInv, AcquireSecond PROVE LoopInv'
  OBVIOUS
<1> DEFINE c == PairCall(op, Earliest(todo)).ref1.chunk
<1>1. phase = "second" /\ Cache!Acquire(2, c)
  BY DEF AcquireSecond
<1>2. /\ CP!Coherent /\ op # Idle /\ TwoHandles(op) /\ op.name \in PairOperations
      /\ first # Cache!NoHandle /\ first.chunk = FirstRef(op, Earliest(todo)).chunk
  BY <1>1, Running DEF LoopInv, PhaseFits, HandlesKept, TwoHandles
<1>3. c \in Chunks
  BY <1>1, <1>2, Running, PairInLayout DEF InLayout
<1>4. /\ CP!Coherent'
      /\ \/ first' = Cache!NoHandle /\ second' = Cache!NoHandle
         \/ /\ first' # Cache!NoHandle /\ first'.chunk = first.chunk
            /\ second' # Cache!NoHandle /\ second'.chunk = c
  BY <1>1, <1>2, <1>3, AcquireCoherent, AcquireHolds
<1>5. CASE second' = Cache!NoHandle
  <2>1. Quit("failed") /\ UNCHANGED clientVars
    BY <1>5 DEF AcquireSecond, Leave
  <2> QED BY <1>4, <2>1, Ends DEF clientVars
<1>6. CASE second' # Cache!NoHandle
  <2>1. /\ phase' = "apply"
        /\ UNCHANGED <<request, op, todo, local, before, batchDepth, open, left>>
    BY <1>6 DEF AcquireSecond, clientVars
  <2>2. Cache!TypeOK'
    BY <1>4, CoherentParts, PTL
  <2>3. TypeOK'
    BY <1>1, <1>2, <2>1, <2>2 DEF LoopInv, TypeOK
  <2>4. PhaseFits'
    BY <1>1, <1>2, <2>1 DEF LoopInv, PhaseFits
  <2>5. HandlesKept'
    BY <1>2, <1>4, <1>6, <2>1 DEF HandlesKept
  <2>6. CleanBetween'
    BY <2>1 DEF CleanBetween
  <2> QED BY <1>4, <2>3, <2>4, <2>5, <2>6 DEF LoopInv
<1> QED BY <1>5, <1>6

LEMMA CacheStays == CP!Coherent /\ UNCHANGED cacheVars => CP!Coherent'
BY CacheNext DEF cacheVars, CP!vars

\* An iteration that writes through one of its handles, or through none.
LEMMA IterationWrites ==
  ASSUME LoopInv, phase \in {"apply", "write second"}, NEW skipped, EndIteration(skipped),
         local' \in Kept,
         \/ UNCHANGED cacheVars
         \/ \E h \in {first, second}, d \in Buffer : Cache!WriteThrough(h, d)
  PROVE  LoopInv'
<1>1. CP!Coherent
  BY DEF LoopInv
<1>2. CASE UNCHANGED cacheVars
  BY <1>1, <1>2, CacheStays, IterationOver DEF cacheVars
<1>3. CASE \E h \in {first, second}, d \in Buffer : Cache!WriteThrough(h, d)
  <2>1. CP!Coherent' /\ first' = first /\ second' = second
    BY <1>1, <1>3, WriteCoherent
  <2> QED BY <2>1, IterationOver
<1> QED BY <1>2, <1>3

\* A pair's first half is written, and its second kept for the next step.
LEMMA HalfWritten ==
  ASSUME LoopInv, phase = "apply", TwoHandles(op), phase' = "write second",
         UNCHANGED <<request, op, todo, before, clientVars>>, local' \in Kept,
         \/ UNCHANGED cacheVars
         \/ \E d \in Buffer : Cache!WriteThrough(first, d)
  PROVE  LoopInv'
<1>0. op # Idle /\ CP!Coherent
  BY Running
<1>1. CP!Coherent' /\ first' = first /\ second' = second
  BY <1>0, CacheStays, WriteCoherent DEF cacheVars
<1>2. Cache!TypeOK'
  BY <1>1, CoherentParts, PTL
<1>3. TypeOK'
  BY <1>0, <1>2 DEF LoopInv, TypeOK, Kept, clientVars
<1>4. PhaseFits'
  BY DEF LoopInv, PhaseFits, clientVars
<1>5. HandlesKept'
  BY <1>1 DEF LoopInv, HandlesKept
<1>6. CleanBetween'
  BY DEF CleanBetween
<1> QED BY <1>1, <1>3, <1>4, <1>5, <1>6 DEF LoopInv

LEMMA ApplyPairLoop == LoopInv /\ ApplyPair => LoopInv'
<1> SUFFICES ASSUME LoopInv, ApplyPair PROVE LoopInv'
  OBVIOUS
<1> DEFINE it == Earliest(todo)
           call == PairCall(op, it)
           one == call.ref0.chunk = call.ref1.chunk
           h1 == IF one THEN first ELSE second
           body == PairBody(op, call, Held(first)[call.ref0.local], Held(h1)[call.ref1.local])
           d1 == [Held(first) EXCEPT ![call.ref0.local] = body.amps[1]]
           d2 == [Held(first) EXCEPT ![call.ref0.local] = body.amps[1],
                                     ![call.ref1.local] = body.amps[2]]
<1>1. phase = "apply" /\ op.name \in PairOperations
  BY DEF ApplyPair
<1>2. WellFormed(op) /\ it \in Work(op) /\ local \in Kept
  BY <1>1, Running
<1>3. /\ InLayout(call.ref0) /\ InLayout(call.ref1)
      /\ Mode(op) = "IntraChunk" => one
  BY <1>1, <1>2, PairInLayout
<1>4. ~one => TwoHandles(op)
  BY <1>1, <1>3 DEF TwoHandles
<1>5. Held(first) \in Buffer /\ Held(h1) \in Buffer
  BY <1>1, <1>4, KeptHandles
<1>6. body.amps[1] \in Amplitude /\ body.amps[2] \in Amplitude
  <2>1. Held(first)[call.ref0.local] \in Amplitude /\ Held(h1)[call.ref1.local] \in Amplitude
    BY <1>3, <1>5, BufferRead DEF InLayout
  <2> QED BY <1>1, <1>2, <2>1, PairBodyType
<1>7. d1 \in Buffer
  BY <1>3, <1>5, <1>6, BufferExcept DEF InLayout
<1>8. d2 \in Buffer
  <2>1. d2 = [d1 EXCEPT ![call.ref1.local] = body.amps[2]]
    OBVIOUS
  <2> HIDE DEF d1, d2, body, call
  <2> QED BY <1>3, <1>6, <1>7, <2>1, BufferExcept DEF InLayout
<1>9. [local EXCEPT ![0] = body.amps[2]] \in Kept
  <2> HIDE DEF body
  <2> QED BY <1>2, <1>6 DEF Kept
<1>10. \/ UNCHANGED <<cacheVars, local>> /\ EndIteration({})
       \/ Cache!WriteThrough(first, d2) /\ local' = local /\ EndIteration({})
       \/ /\ ~one
          /\ Cache!WriteThrough(first, d1)
          /\ local' = [local EXCEPT ![0] = body.amps[2]]
          /\ phase' = "write second"
          /\ UNCHANGED <<request, op, todo, before, clientVars>>
       \/ /\ ~one
          /\ local' = [local EXCEPT ![0] = body.amps[2]]
          /\ phase' = "write second"
          /\ UNCHANGED <<cacheVars, request, op, todo, before, clientVars>>
  BY DEF ApplyPair
<1> HIDE DEF it, call, one, h1, body, d1, d2
<1> QED BY <1>1, <1>2, <1>4, <1>7, <1>8, <1>9, <1>10, IterationWrites, HalfWritten

LEMMA WriteSecondLoop == LoopInv /\ WriteSecond => LoopInv'
<1> SUFFICES ASSUME LoopInv, WriteSecond PROVE LoopInv'
  OBVIOUS
<1> DEFINE ref == PairCall(op, Earliest(todo)).ref1
           d == [Held(second) EXCEPT ![ref.local] = local[0]]
<1>1. phase = "write second" /\ local' = local /\ EndIteration({}) /\ Cache!WriteThrough(second, d)
  BY DEF WriteSecond
<1>2. TwoHandles(op) /\ op.name \in PairOperations
  BY <1>1 DEF LoopInv, PhaseFits, TwoHandles
<1>3. WellFormed(op) /\ Earliest(todo) \in Work(op) /\ local \in Kept
  BY <1>1, Running
<1>4. InLayout(ref) /\ Held(second) \in Buffer
  BY <1>1, <1>2, <1>3, PairInLayout, KeptHandles
<1>5. local[0] \in Amplitude
  <2>1. 0 \in 0..(2^NumQubits - 1)
    BY SizesNow
  <2> QED BY <1>3, <2>1 DEF Kept
<1>6. d \in Buffer
  BY <1>4, <1>5, BufferExcept DEF InLayout
<1> HIDE DEF d
<1> QED BY <1>1, <1>3, <1>6, IterationWrites

LEMMA ApplyToStateLoop == LoopInv /\ ApplyToState => LoopInv'
<1> SUFFICES ASSUME LoopInv, ApplyToState PROVE LoopInv'
  OBVIOUS
<1> DEFINE k == FirstRef(op, Earliest(todo)).local
           a == IF op.name = "PhaseFlip" THEN Minus(0, Held(first)[k]) ELSE op.value
           d == [Held(first) EXCEPT ![k] = IF op.name = "PhaseFlip" THEN Minus(0, @) ELSE op.value]
<1>1. /\ phase = "apply" /\ op.name \in StateOperations
      /\ Cache!WriteThrough(first, d) /\ local' = local /\ EndIteration({})
  BY DEF ApplyToState
<1>2. WellFormed(op) /\ k \in 0..(ChunkStates - 1) /\ local \in Kept
  BY <1>1, Running DEF InLayout
<1>3. Held(first) \in Buffer
  BY <1>1, KeptHandles
<1>4. a \in Amplitude
  <2>1. Held(first)[k] \in Int
    BY <1>2, <1>3, BufferRead, AmplitudesAreNumbers
  <2>2. Minus(0, Held(first)[k]) \in Amplitude
    BY <2>1, ArithmeticType
  <2>3. op.name # "PhaseFlip" => op.value \in Amplitude
    BY <1>1, <1>2 DEF WellFormed, StateOperations, PairOperations
  <2> QED BY <2>2, <2>3
<1>5. d = [Held(first) EXCEPT ![k] = a]
  OBVIOUS
<1> HIDE DEF a, k, d
<1>6. d \in Buffer
  BY <1>2, <1>3, <1>4, <1>5, BufferExcept
<1> QED BY <1>1, <1>2, <1>6, IterationWrites

LEMMA SumChunkLoop == LoopInv /\ SumChunk => LoopInv'
<1> SUFFICES ASSUME LoopInv, SumChunk PROVE LoopInv'
  OBVIOUS
<1> DEFINE c == Earliest(todo)[2]
           S == 0..(StatesInChunk(Layout, c) - 1)
           f == [k \in S |-> Held(first)[k]]
<1>1. /\ phase = "apply" /\ op.name = "Inversion" /\ UNCHANGED cacheVars /\ EndIteration({})
      /\ local' = [local EXCEPT ![0] = Plus(@, Total(f))]
  BY DEF SumChunk
<1>2. Earliest(todo) \in Work(op) /\ local \in Kept
  BY <1>1, Running
<1>3. c \in Chunks
  BY <1>1, <1>2 DEF Work, StateOperations, PairOperations
<1>4. Held(first) \in Buffer
  BY <1>1, KeptHandles
<1>5. IsFiniteSet(S) /\ S \subseteq 0..(ChunkStates - 1)
  <2>1. StatesInChunk(Layout, c) \in 0..ChunkStates
    BY <1>3, ChunkStatesHeld
  <2> HIDE DEF c
  <2>2. StatesInChunk(Layout, c) - 1 \in Int /\ S \subseteq 0..(ChunkStates - 1)
    BY <2>1, SizesNow
  <2> QED BY <2>2, FS_Interval
<1>6. DOMAIN f = S /\ \A x \in S : f[x] \in Int
  BY <1>4, <1>5, BufferRead, AmplitudesAreNumbers
<1> HIDE DEF c, S, f
<1>7. Total(f) \in Int
  BY <1>5, <1>6, TotalType, AmplitudesAreNumbers
<1>8. 0 \in 0..(2^NumQubits - 1) /\ local[0] \in Int
  <2>1. 0 \in 0..(2^NumQubits - 1)
    BY SizesNow
  <2> QED BY <1>2, <2>1, AmplitudesAreNumbers DEF Kept
<1>9. Plus(local[0], Total(f)) \in Amplitude
  BY <1>7, <1>8, ArithmeticType
<1>10. local' \in Kept
  BY <1>1, <1>2, <1>9 DEF Kept
<1> QED BY <1>1, <1>10, IterationWrites

LEMMA ApplyToChunkLoop == LoopInv /\ ApplyToChunk => LoopInv'
<1> SUFFICES ASSUME LoopInv, ApplyToChunk PROVE LoopInv'
  OBVIOUS
<1> DEFINE count == StatesInChunk(Layout, Earliest(todo)[2])
           d == [k \in DOMAIN Held(first) |->
                   IF k < count THEN NewValue(Held(first)[k]) ELSE Held(first)[k]]
<1>1. /\ phase = "apply" /\ op.name \in {"Inversion", "InversionMean", "Affine"}
      /\ Cache!WriteThrough(first, d) /\ local' = local /\ EndIteration({})
  BY DEF ApplyToChunk
<1>2. WellFormed(op) /\ local \in Kept /\ Held(first) \in Buffer
  BY <1>1, Running, KeptHandles
<1>3. d \in Buffer
  <2>1. DOMAIN Held(first) = 0..(ChunkStates - 1)
    BY <1>2 DEF Buffer
  <2>2. ASSUME NEW k \in 0..(ChunkStates - 1)
        PROVE  Held(first)[k] \in Amplitude /\ NewValue(Held(first)[k]) \in Amplitude
    BY <1>1, <1>2, BufferRead, NewValueType
  <2> QED BY <2>1, <2>2 DEF Buffer
<1> HIDE DEF d
<1> QED BY <1>1, <1>2, <1>3, IterationWrites

LEMMA LoadAmplitudeLoop == LoopInv /\ LoadAmplitude => LoopInv'
<1> SUFFICES ASSUME LoopInv, LoadAmplitude PROVE LoopInv'
  OBVIOUS
<1> DEFINE it == Earliest(todo)
           a == Held(first)[FirstRef(op, it).local]
<1>1. PICK skipped : EndIteration(skipped)
  BY DEF LoadAmplitude
<1>2. phase = "apply" /\ local' = [local EXCEPT ![it[3]] = a] /\ UNCHANGED cacheVars
  BY DEF LoadAmplitude
<1>3. local \in Kept /\ Held(first) \in Buffer /\ FirstRef(op, it).local \in 0..(ChunkStates - 1)
  BY <1>2, Running, KeptHandles DEF InLayout
<1>4. a \in Amplitude
  BY <1>3, BufferRead
<1> HIDE DEF a
<1>5. local' \in Kept
  BY <1>2, <1>3, <1>4 DEF Kept
<1> QED BY <1>1, <1>2, <1>5, IterationWrites

LEMMA StoreAmplitudeLoop == LoopInv /\ StoreAmplitude => LoopInv'
<1> SUFFICES ASSUME LoopInv, StoreAmplitude PROVE LoopInv'
  OBVIOUS
<1> DEFINE it == Earliest(todo)
           a == NewAmplitude(op.matrix, it[3], local)
           d == [Held(first) EXCEPT ![FirstRef(op, it).local] = a]
<1>1. /\ phase = "apply" /\ op.name = "Gate"
      /\ Cache!WriteThrough(first, d) /\ local' = local /\ EndIteration({})
  BY DEF StoreAmplitude
<1>2. /\ WellFormed(op) /\ it \in Work(op) /\ local \in Kept /\ Held(first) \in Buffer
      /\ FirstRef(op, it).local \in 0..(ChunkStates - 1)
  BY <1>1, Running, KeptHandles DEF InLayout
<1>3. GateFits(op) /\ it[3] \in Rows(BlockSize(op.qubits))
  BY <1>1, <1>2 DEF WellFormed, Work, StateOperations, PairOperations
<1>4. a \in Amplitude
  BY <1>2, <1>3, NewAmplitudeType
<1> HIDE DEF a
<1>5. d \in Buffer
  BY <1>2, <1>4, BufferExcept
<1> HIDE DEF d
<1> QED BY <1>1, <1>2, <1>5, IterationWrites

\* The counters of the client, within their bounds.
LEMMA Counters ==
  ASSUME LoopInv
  PROVE  /\ MaxOperations \in Nat /\ MaxBatches \in Nat
         /\ left \in 0..MaxOperations /\ open \in 0..MaxBatches
         /\ batchDepth \in 0..MaxBatches /\ batchDepth <= open
         /\ CP!Coherent
         /\ op = Idle => phase \in {"idle", "failed"}
BY BoundsAssumption DEF LoopInv, TypeOK, PhaseFits

LEMMA FinishLoop == LoopInv /\ Finish => LoopInv'
<1> SUFFICES ASSUME LoopInv, Finish PROVE LoopInv'
  OBVIOUS
<1>1. CP!Coherent /\ phase = "finish"
  BY DEF LoopInv, Finish
<1>2. CASE /\ batchDepth > 0
           /\ Cache!DropHandles
           /\ Leave("idle")
           /\ UNCHANGED <<slots, size, reserved, age, chunkToSlot, store>>
  <2>1. CP!Coherent'
    BY <1>1, <1>2, DropCoherent
  <2>2. Quit("idle") /\ open' = open /\ left' = left /\ batchDepth' = batchDepth
    BY <1>2 DEF Leave, clientVars
  <2>3. batchDepth' # 0
    BY <1>2, <2>2
  <2> QED BY <2>1, <2>2, <2>3, Ends
<1>3. CASE \E n \in 0..size : Cache!FlushUpTo(n) /\ Leave(HowFlushed(n))
  <2>1. PICK n \in 0..size : Cache!FlushUpTo(n) /\ Leave(HowFlushed(n))
    BY <1>3
  <2>2. CP!Coherent'
    BY <1>1, <2>1, FlushCoherent
  <2>3. HowFlushed(n) \in {"idle", "failed"} /\ (HowFlushed(n) = "idle" => Clean')
    BY <1>1, <2>1, FlushClean DEF HowFlushed
  <2>4. Quit(HowFlushed(n)) /\ open' = open /\ left' = left /\ batchDepth' = batchDepth
    BY <2>1 DEF Leave, clientVars
  <2> QED BY <2>2, <2>3, <2>4, Ends
<1> QED BY <1>2, <1>3 DEF Finish

LEMMA LoadLoop == LoopInv /\ Load => LoopInv'
<1> SUFFICES ASSUME LoopInv, Load PROVE LoopInv'
  OBVIOUS
<1>1. /\ op.name = "Load" /\ op # Idle /\ Cache!Configure(ChunksOf(op.vector))
      /\ Quit("idle") /\ batchDepth' = 0 /\ open' = open /\ left' = left
  BY DEF Load, Idle
<1>2. ChunksOf(op.vector) \in [Chunks -> Buffer]
  <2>1. op.vector \in [States -> Amplitude]
    BY <1>1 DEF LoopInv, PhaseFits, OpFits, WellFormed, PairOperations
  <2> QED BY <2>1, ChunksOfType
<1>3. CP!Coherent' /\ Clean'
  BY <1>1, <1>2, ConfigureCoherent, ConfigureClean DEF LoopInv
<1> QED BY <1>1, <1>3, Ends

LEMMA InitBasisLoop == LoopInv /\ InitBasis => LoopInv'
<1> SUFFICES ASSUME LoopInv, InitBasis PROVE LoopInv'
  OBVIOUS
<1>1. /\ phase = "configure" /\ op.name = "InitBasis" /\ op # Idle
      /\ Cache!Configure([c \in Chunks |-> ZeroBuffer])
      /\ batchDepth' = 0 /\ open' = open /\ left' = left
  BY DEF InitBasis, Idle
<1>2. CP!Coherent' /\ Clean'
  <2>1. [c \in Chunks |-> ZeroBuffer] \in [Chunks -> Buffer]
    BY BuffersNow
  <2> QED BY <1>1, <2>1, ConfigureCoherent, ConfigureClean DEF LoopInv
<1>3. CASE op.state \notin States
  BY <1>1, <1>2, <1>3, Ends DEF InitBasis
<1>4. CASE op.state \in States
  <2>1. phase' = "first" /\ UNCHANGED <<request, op, todo, local, before>>
    BY <1>4 DEF InitBasis
  <2>2. Cache!TypeOK'
    BY <1>2, CoherentParts, PTL
  <2>3. 0 \in 0..MaxBatches /\ 0 <= open
    BY Counters
  <2>4. TypeOK'
    BY <1>1, <2>1, <2>2, <2>3 DEF LoopInv, TypeOK
  <2>5. PhaseFits'
    BY <1>1, <1>4, <2>1, <2>3 DEF LoopInv, PhaseFits
  <2>6. HandlesKept' /\ CleanBetween'
    BY <2>1 DEF HandlesKept, CleanBetween
  <2> QED BY <1>2, <2>4, <2>5, <2>6 DEF LoopInv
<1> QED BY <1>3, <1>4

LEMMA StepLoop == LoopInv /\ Step => LoopInv'
BY AcquireFirstLoop, AcquireSecondLoop, ApplyPairLoop, WriteSecondLoop, ApplyToStateLoop,
   SumChunkLoop, ApplyToChunkLoop, LoadAmplitudeLoop, StoreAmplitudeLoop, FinishLoop,
   LoadLoop, InitBasisLoop DEF Step

-------------------------------------------------------------------------------
(* The calls of the client.                                                *)

LEMMA StartLoop ==
  ASSUME LoopInv, NEW o \in Operations, Start(o)
  PROVE  LoopInv'
<1> DEFINE p == IF o.name = "Gate" THEN Dispatched(o) ELSE o
<1>1. /\ request' = o /\ op' = p /\ todo' = Work(op') /\ before' = Vector
      /\ phase' = IF o.name \in Initialisations THEN "configure" ELSE "first"
      /\ left > 0 /\ left' = left - 1
      /\ UNCHANGED <<cacheVars, local, batchDepth, open>>
  BY DEF Start
<1>2. OpFits(p) /\ WellFormed(p) /\ WellFormed(o)
  BY DispatchedFits, OperationsAssumption DEF OpFits
<1>3. p # Idle /\ o # NoRequest
  <2>1. p.name # "Idle" /\ o.name # "None"
    BY <1>2 DEF WellFormed, PairOperations
  <2> QED BY <2>1 DEF Idle, NoRequest
<1>4. p.name \in Initialisations => o.name = p.name
  BY DispatchedName
<1>5. Work(p) = {} <=> p.name = "Load"
  BY <1>2, WorkExists
<1> HIDE DEF p
<1>6. CP!Coherent'
  BY <1>1, CacheStays DEF LoopInv
<1>7. Cache!TypeOK'
  BY <1>6, CoherentParts, PTL
<1>8. before' \in [States -> Amplitude]
  BY <1>1, ContentType DEF LoopInv
<1>9. left' \in 0..MaxOperations
  <2>1. left \in 0..MaxOperations /\ MaxOperations \in Nat
    BY BoundsAssumption DEF LoopInv, TypeOK
  <2> QED BY <1>1, <2>1
<1>10. op' = CASE request' = NoRequest -> Idle
               [] request'.name = "Gate" -> Dispatched(request')
               [] OTHER -> request'
  BY <1>1, <1>3 DEF p
<1>11. phase' \in {"configure", "first"} /\ (op'.name = "Load" => phase' = "configure")
  BY <1>1, <1>4 DEF Initialisations
<1>12. TypeOK'
  BY <1>1, <1>3, <1>5, <1>7, <1>8, <1>9, <1>10, <1>11 DEF LoopInv, TypeOK
<1>13. phase' = "configure" => op'.name \in Initialisations
  <2>1. o.name \in Initialisations => p = o
    BY DEF p, Initialisations
  <2> QED BY <1>1, <2>1
<1>14. PhaseFits'
  BY <1>1, <1>2, <1>4, <1>11, <1>13 DEF LoopInv, PhaseFits, Initialisations
<1>15. HandlesKept' /\ CleanBetween'
  BY <1>11 DEF HandlesKept, CleanBetween
<1> QED BY <1>6, <1>12, <1>14, <1>15 DEF LoopInv

\* A call between operations that leaves the operation variables alone.
LEMMA CallBetween ==
  ASSUME LoopInv, op = Idle, CP!Coherent', phase' \in {"idle", "failed"},
         UNCHANGED <<request, op, todo, local, before>>,
         left' \in 0..MaxOperations, open' \in 0..MaxBatches, batchDepth' \in 0..MaxBatches,
         batchDepth' <= open',
         phase' = "idle" /\ batchDepth' = 0 => Clean'
  PROVE  LoopInv'
<1>1. Cache!TypeOK'
  BY CoherentParts, PTL
<1>2. phase \in {"idle", "failed"}
  BY DEF LoopInv, TypeOK
<1>3. TypeOK'
  BY <1>1, <1>2 DEF LoopInv, TypeOK
<1>4. PhaseFits'
  BY <1>2 DEF LoopInv, PhaseFits, Idle
<1>5. HandlesKept' /\ CleanBetween'
  BY <1>2 DEF HandlesKept, CleanBetween
<1> QED BY <1>3, <1>4, <1>5 DEF LoopInv

LEMMA QueryLoop ==
  ASSUME LoopInv, NEW s \in States, Query(s)
  PROVE  LoopInv'
<1> DEFINE c == StateRef(Layout, s).chunk
<1>1. /\ op = Idle /\ left > 0 /\ left' = left - 1 /\ Cache!Acquire(1, c)
      /\ phase' = IF first' = Cache!NoHandle THEN "failed" ELSE phase
      /\ UNCHANGED <<request, op, todo, local, before, batchDepth, open>>
  BY DEF Query
<1>2. c \in Chunks
  BY StateInLayout DEF InLayout
<1>3. CP!Coherent'
  BY <1>1, <1>2, Counters, AcquireCoherent
<1>4. phase' = "idle" /\ batchDepth' = 0 => Clean'
  BY <1>1, <1>2, AcquireClean DEF LoopInv, CleanBetween
<1>5. left' \in 0..MaxOperations
  BY <1>1, Counters
<1> HIDE DEF c
<1> QED BY <1>1, <1>3, <1>4, <1>5, Counters, CallBetween

LEMMA BeginBatchLoop == LoopInv /\ BeginBatch => LoopInv'
<1> SUFFICES ASSUME LoopInv, BeginBatch PROVE LoopInv'
  OBVIOUS
<1>1. /\ op = Idle /\ open < MaxBatches /\ open' = open + 1 /\ batchDepth' = batchDepth + 1
      /\ UNCHANGED <<cacheVars, opVars, left>>
  BY DEF BeginBatch
<1>2. /\ open' \in 0..MaxBatches /\ batchDepth' \in 0..MaxBatches
      /\ batchDepth' <= open' /\ batchDepth' # 0
  BY <1>1, Counters
<1>3. CP!Coherent'
  BY <1>1, Counters, CacheStays
<1> QED BY <1>1, <1>2, <1>3, Counters, CallBetween DEF opVars

LEMMA EndBatchLoop == LoopInv /\ EndBatch => LoopInv'
<1> SUFFICES ASSUME LoopInv, EndBatch PROVE LoopInv'
  OBVIOUS
<1>1. /\ op = Idle /\ open > 0 /\ open' = open - 1
      /\ UNCHANGED <<request, op, todo, local, before, left>>
  BY DEF EndBatch
<1>2. open' \in 0..MaxBatches /\ open' \in Nat
  BY <1>1, Counters
<1>3. CASE batchDepth = 0 /\ phase' = "failed" /\ UNCHANGED <<cacheVars, batchDepth>>
  <2>1. CP!Coherent'
    BY <1>3, Counters, CacheStays
  <2>2. batchDepth' <= open' /\ batchDepth' \in 0..MaxBatches
    BY <1>2, <1>3, Counters
  <2> QED BY <1>1, <1>2, <1>3, <2>1, <2>2, Counters, CallBetween
<1>4. CASE batchDepth > 1 /\ batchDepth' = batchDepth - 1 /\ UNCHANGED <<cacheVars, phase>>
  <2>1. CP!Coherent'
    BY <1>4, Counters, CacheStays
  <2>2. batchDepth' <= open' /\ batchDepth' \in 0..MaxBatches /\ batchDepth' # 0
    BY <1>1, <1>2, <1>4, Counters
  <2> QED BY <1>1, <1>2, <1>4, <2>1, <2>2, Counters, CallBetween
<1>5. CASE /\ batchDepth = 1 /\ batchDepth' = 0
           /\ \E n \in 0..size : Cache!FlushUpTo(n) /\ phase' = HowFlushed(n)
  <2>1. PICK n \in 0..size : Cache!FlushUpTo(n) /\ phase' = HowFlushed(n)
    BY <1>5
  <2>2. CP!Coherent'
    BY <2>1, Counters, FlushCoherent
  <2>3. phase' \in {"idle", "failed"} /\ (phase' = "idle" => Clean')
    BY <2>1, Counters, FlushClean DEF HowFlushed
  <2>4. batchDepth' <= open' /\ batchDepth' \in 0..MaxBatches
    BY <1>2, <1>5, Counters
  <2> QED BY <1>1, <1>2, <1>5, <2>2, <2>3, <2>4, Counters, CallBetween
<1> QED BY <1>3, <1>4, <1>5 DEF EndBatch

LEMMA NextLoop == LoopInv /\ [Next]_vars => LoopInv'
<1> SUFFICES ASSUME LoopInv, [Next]_vars PROVE LoopInv'
  OBVIOUS
<1>1. CASE UNCHANGED vars
  <2>1. CP!Coherent'
    BY <1>1, CacheStays DEF LoopInv, vars
  <2>2. Cache!TypeOK'
    BY <2>1, CoherentParts, PTL
  <2> QED BY <1>1, <2>1, <2>2 DEF LoopInv, TypeOK, PhaseFits, HandlesKept, CleanBetween, Clean,
                                  vars, cacheVars, opVars, clientVars
<1> QED BY <1>1, StepLoop, StartLoop, QueryLoop, BeginBatchLoop, EndBatchLoop DEF Next

-------------------------------------------------------------------------------
(* What follows.                                                           *)

LEMMA LoopFits == LoopInv => HandlesFit
<1> SUFFICES ASSUME LoopInv, phase \in {"apply", "write second"} PROVE HandlesFit
  BY DEF HandlesFit
<1>1. /\ first # Cache!NoHandle /\ first.chunk = FirstRef(op, Earliest(todo)).chunk
      /\ TwoHandles(op) => /\ second # Cache!NoHandle
                           /\ second.chunk = PairCall(op, Earliest(todo)).ref1.chunk
  BY KeptHandles
<1>2. \A h \in {first, second} : h # Cache!NoHandle =>
        slots[h.slot].chunk = h.chunk /\ chunkToSlot[h.chunk] = h.slot
  BY Counters, CoherentParts
<1> QED BY <1>1, <1>2 DEF HandlesFit

LEMMA LoopFlushed == LoopInv => FlushedBetweenOperations
<1> SUFFICES ASSUME LoopInv, phase = "idle", batchDepth = 0 PROVE FlushedBetweenOperations
  BY DEF FlushedBetweenOperations
<1>1. Clean
  BY DEF LoopInv, CleanBetween
<1>2. ASSUME NEW c \in Chunks PROVE Cache!Content[c] = store[c]
  <2> DEFINE s == chunkToSlot[c]
  <2>1. Cache!Content[c] = IF s = 0 THEN store[c] ELSE slots[s].buffer
    BY DEF Cache!Content, Cache!NoSlot
  <2>2. CASE s # 0
    <3>1. s \in 1..size /\ slots[s].chunk = c
      BY <2>2 DEF LoopInv, CP!Coherent, CP!SlotsMatchTable, CP!Used, CP!NoSlot
    <3>2. s \in 1..EffectiveCacheSlots
      BY <3>1, SlotsNow, Counters, CoherentParts
    <3>3. slots[s].buffer \in Buffer
      BY <3>2, Counters, CoherentParts DEF CP!Slot
    <3>4. store[c] \in {slots[s].buffer, [d \in Buffer |-> d][slots[s].buffer]}
      BY <1>1, <3>1 DEF LoopInv, CP!Coherent, CP!CleanIsStored, CP!Used, Clean
    <3> QED BY <2>1, <2>2, <3>3, <3>4
  <2> QED BY <2>1, <2>2
<1> QED BY <1>1, <1>2 DEF FlushedBetweenOperations, Clean

(* Every variable of the back end keeps its type, whatever layout, cache,  *)
(* gates and client: an operation only ever writes amplitudes to its       *)
(* chunks, and its loop is over exactly when it says so.                   *)
THEOREM BackendTypeCorrect == Spec => []TypeOK
<1>1. LoopInv => TypeOK
  BY DEF LoopInv
<1> QED BY <1>1, InitLoop, NextLoop, PTL DEF Spec

(* No operation reads or writes an amplitude through a stale handle: those *)
(* a chunk-aware traversal keeps from one pair to the next are for the     *)
(* chunks of the pair, which are still in the slots the handles name.      *)
THEOREM HandlesAlwaysFit == Spec => []HandlesFit
<1> QED BY InitLoop, NextLoop, LoopFits, PTL DEF Spec

(* A back end at rest outside a batch has its state in the compressed      *)
(* chunks, whatever was called before and whatever threw since.            *)
THEOREM AlwaysFlushed == Spec => []FlushedBetweenOperations
<1> QED BY InitLoop, NextLoop, LoopFlushed, PTL DEF Spec

-------------------------------------------------------------------------------
(* Sampling.                                                               *)

\* No state below n brings the sum of v to rnd.
Unreached(v, n, rnd) == \A t \in 0..(n - 1) : ~(rnd <= Prefix(v, t + 1))

\* State s is the first to do so, or NoState if none does.
FirstReaching(v, n, rnd, s) ==
  \/ s = NoState /\ Unreached(v, n, rnd)
  \/ s \in 0..(n - 1) /\ rnd <= Prefix(v, s + 1) /\ Unreached(v, s, rnd)

LEMMA SampledIsFirst ==
  ASSUME NEW n \in Nat, NEW v, DOMAIN v = 0..(n - 1), NEW rnd \in Int
  PROVE  FirstReaching(v, n, rnd, Sampled(v, rnd))
<1> DEFINE reached == {s \in DOMAIN v : rnd <= Cumulative(v, s)}
<1>1. ASSUME NEW s \in 0..(n - 1) PROVE Cumulative(v, s) = Prefix(v, s + 1)
  <2>1. {t \in DOMAIN v : t <= s} = 0..((s + 1) - 1)
    OBVIOUS
  <2> QED BY <2>1 DEF Cumulative, Prefix
<1>2. reached = {s \in 0..(n - 1) : rnd <= Prefix(v, s + 1)}
  BY <1>1
<1>3. Sampled(v, rnd) = IF reached = {} THEN NoState ELSE Min(reached)
  BY DEF Sampled
<1> HIDE DEF reached
<1>4. CASE reached = {}
  BY <1>2, <1>3, <1>4 DEF FirstReaching, Unreached
<1>5. CASE reached # {}
  <2>1. reached \in SUBSET Nat
    BY <1>2
  <2>2. \E s \in reached : \A t \in reached : s <= t
    BY <1>5, <2>1, LeastNumber
  <2>3. Min(reached) \in reached /\ \A t \in reached : Min(reached) <= t
    BY <2>2 DEF Min
  <2> DEFINE s == Min(reached)
  <2>4. s \in 0..(n - 1) /\ rnd <= Prefix(v, s + 1)
    BY <1>2, <2>3
  <2>5. ASSUME NEW t \in 0..(s - 1) PROVE ~(rnd <= Prefix(v, t + 1))
    <3> SUFFICES ASSUME rnd <= Prefix(v, t + 1) PROVE FALSE
      OBVIOUS
    <3>1. t \in reached
      BY <1>2, <2>4
    <3> QED BY <2>3, <2>4, <3>1
  <2> HIDE DEF s
  <2>6. Sampled(v, rnd) = s
    BY <1>3, <1>5 DEF s
  <2> QED BY <2>4, <2>5, <2>6 DEF FirstReaching, Unreached
<1> QED BY <1>4, <1>5

LEMMA FirstIsOne ==
  ASSUME NEW n \in Nat, NEW v, NEW rnd, NEW s, NEW t,
         FirstReaching(v, n, rnd, s), FirstReaching(v, n, rnd, t)
  PROVE  s = t
<1>1. ASSUME NEW x \in 0..(n - 1), NEW y \in 0..(n - 1), x < y, rnd <= Prefix(v, x + 1)
      PROVE  ~Unreached(v, y, rnd)
  <2>1. x \in 0..(y - 1)
    BY <1>1
  <2> QED BY <1>1, <2>1 DEF Unreached
<1>2. CASE s \in 0..(n - 1) /\ t \in 0..(n - 1)
  <2>1. \/ s < t \/ t < s \/ s = t
    BY <1>2
  <2>2. /\ rnd <= Prefix(v, s + 1) /\ Unreached(v, s, rnd)
        /\ rnd <= Prefix(v, t + 1) /\ Unreached(v, t, rnd)
    BY <1>2 DEF FirstReaching, NoState
  <2> QED BY <1>1, <1>2, <2>1, <2>2
<1>3. CASE s \notin 0..(n - 1) /\ t \notin 0..(n - 1)
  BY <1>3 DEF FirstReaching
<1>4. CASE (s \in 0..(n - 1)) # (t \in 0..(n - 1))
  BY <1>4 DEF FirstReaching, Unreached
<1> QED BY <1>2, <1>3, <1>4

(* The chunks one after the other hold the vector.                         *)
LEMMA ChunkParts ==
  ASSUME CP!Coherent, NEW c \in Chunks
  PROVE  LET b == c * ChunkStates  l == StatesInChunk(Layout, c)  n == 2^NumQubits
         IN /\ b \in Nat /\ l \in Nat \ {0} /\ b + l <= n
            /\ b + l = IF (c + 1) * ChunkStates < n THEN (c + 1) * ChunkStates ELSE n
            /\ b < n
            /\ DOMAIN ChunkData(c) = 0..(l - 1)
            /\ \A k \in 0..(l - 1) : ChunkData(c)[k] = Vector[b + k]
<1> DEFINE n == 2^NumQubits  w == ChunkStates  count == (n + w - 1) \div w
           l == StatesInChunk(Layout, c)
<1>1. n \in Nat \ {0} /\ w \in Nat \ {0} /\ States = 0..(n - 1)
  BY SizesNow DEF States
<1>2. c \in 0..(count - 1)
  BY SizesNow DEF ChunkCount
<1>3. l = IF w < n - c * w THEN w ELSE n - c * w
  BY SizesNow DEF StatesInChunk, ChunkStateBegin
<1>4. l \in 0..w
  BY ChunkStatesHeld
<1>5. DOMAIN ChunkData(c) = 0..(l - 1) /\ \A k \in 0..(l - 1) : ChunkData(c)[k] = Cache!Content[c][k]
  BY DEF ChunkData
<1>6. \A s \in States : Vector[s] = Cache!Content[s \div w][s % w]
  BY SizesNow DEF Vector, StateRef
<1> HIDE DEF n, w, l
<1>7. c \in Nat /\ c * w \in Nat /\ c * w < n
  <2>1. n + w - 1 \in Nat
    BY <1>1
  <2> DEFINE r == (n + w - 1) % w
  <2>2. count \in Nat /\ n + w - 1 = w * count + r /\ r \in 0..(w - 1)
    <3> DEFINE m == n + w - 1
    <3>1. m \in Nat
      BY <2>1
    <3> HIDE DEF m
    <3>2. m \div w \in Nat /\ m = w * (m \div w) + (m % w) /\ (m % w) \in 0..(w - 1)
      BY <1>1, <3>1, Division
    <3> QED BY <3>2 DEF m
  <2> HIDE DEF count, r
  <2>3. c \in Nat /\ count - 1 - c \in Nat
    BY <1>2, <2>2
  <2>4. w * (count - 1 - c) \in Nat /\ c * w \in Nat
    BY <1>1, <2>3
  <2>5. w * count = c * w + w + w * (count - 1 - c)
    BY <1>1, <2>2, <2>3
  <2> QED BY <1>1, <2>2, <2>3, <2>4, <2>5
<1>8. /\ l \in Nat \ {0} /\ c * w + l <= n
      /\ c * w + l = IF (c + 1) * w < n THEN (c + 1) * w ELSE n
  <2>1. (c + 1) * w = c * w + w
    BY <1>1, <1>7
  <2> QED BY <1>1, <1>3, <1>7, <2>1
<1>9. ASSUME NEW k \in 0..(l - 1) PROVE ChunkData(c)[k] = Vector[c * w + k]
  <2>1. c * w + k \in States /\ k \in Nat /\ k < w
    BY <1>1, <1>4, <1>7, <1>8
  <2>2. (w * c + k) \div w = c /\ ((w * c + k) % w) = k
    BY <1>1, <1>7, <2>1, DivisionUnique
  <2>3. c * w = w * c
    BY <1>1, <1>7
  <2> QED BY <1>5, <1>6, <2>1, <2>2, <2>3
<1> QED BY <1>5, <1>7, <1>8, <1>9 DEF n, w, l

SampleType == [state : Int, base : Int, cumulative : Int]

\* Where the first m chunks end.
ChunksEnd(m) == IF m * ChunkStates < 2^NumQubits THEN m * ChunkStates ELSE 2^NumQubits

\* What x says of the first m chunks: the state found, or that there is none
\* in them and what they add up to.
Sampling(rnd, m, x) ==
  /\ x \in SampleType
  /\ x.state # NoState => FirstReaching(Vector, 2^NumQubits, rnd, x.state)
  /\ x.state = NoState =>
       /\ x.base = ChunksEnd(m) /\ x.cumulative = Prefix(Vector, ChunksEnd(m))
       /\ Unreached(Vector, ChunksEnd(m), rnd)

LEMMA VectorSums ==
  ASSUME CP!Coherent
  PROVE  /\ \A s \in 0..(2^NumQubits - 1) : Vector[s] \in Amplitude /\ Vector[s] \in Int
         /\ DOMAIN Vector = 0..(2^NumQubits - 1)
         /\ \A m \in 0..2^NumQubits : Prefix(Vector, m) \in Int
<1> DEFINE n == 2^NumQubits
<1>1. n \in Nat /\ States = 0..(n - 1)
  BY SizesNow DEF States
<1>2. Vector \in [States -> Amplitude]
  BY ContentType
<1> HIDE DEF n
<1>3. \A s \in 0..(n - 1) : Vector[s] \in Amplitude /\ Vector[s] \in Int
  BY <1>1, <1>2, AmplitudesAreNumbers
<1>4. \A m \in 0..n : Prefix(Vector, m) \in Int
  BY <1>1, <1>3, PrefixStep
<1> QED BY <1>1, <1>2, <1>3, <1>4 DEF n

(* A chunk is sampled as the part of the vector that it is.                *)
LEMMA ChunkSampled ==
  ASSUME CP!Coherent, NEW c \in Chunks, NEW rnd \in Int, NEW x \in SampleType
  PROVE  LET b == c * ChunkStates  l == StatesInChunk(Layout, c)
             found == Sampled(ChunkData(c), rnd - x.cumulative)
         IN /\ FirstReaching(ChunkData(c), l, rnd - x.cumulative, found)
            /\ found \in Int
            /\ \A j \in 0..l :
                 /\ Prefix(ChunkData(c), j) = Prefix(Vector, b + j) - Prefix(Vector, b)
                 /\ Prefix(ChunkData(c), j) \in Int
            /\ TotalProbability(ChunkData(c)) = Prefix(ChunkData(c), l)
<1> DEFINE b == c * ChunkStates  l == StatesInChunk(Layout, c)  n == 2^NumQubits
           d == ChunkData(c)
<1>1. /\ b \in Nat /\ l \in Nat \ {0} /\ b + l <= n /\ DOMAIN d = 0..(l - 1)
      /\ \A k \in 0..(l - 1) : d[k] = Vector[b + k]
  BY ChunkParts
<1>2. /\ n \in Nat /\ \A s \in 0..(n - 1) : Vector[s] \in Int
      /\ \A m \in 0..n : Prefix(Vector, m) \in Int
  BY VectorSums, SizesNow
<1>3. TotalProbability(d) = SumFunctionOnSet(d, DOMAIN d)
  BY DEF TotalProbability, SumFunction, SumFunctionOnSet, FoldFunction
<1> HIDE DEF b, l, n, d
<1>4. \A j \in 0..l : Prefix(d, j) = Prefix(Vector, b + j) - Prefix(Vector, b)
  <2>1. l \in Nat /\ b \in Nat /\ b + l <= n /\ n \in Nat
    BY <1>1, <1>2
  <2>2. Summable(Vector, n) /\ PartOf(d, l, Vector, b)
    BY <1>1, <1>2 DEF Summable, PartOf
  <2> QED BY <2>1, <2>2, PrefixOfPart
<1>5. \A j \in 0..l : Prefix(d, j) \in Int
  BY <1>1, <1>2, <1>4
<1>6. TotalProbability(d) = Prefix(d, l)
  BY <1>1, <1>3 DEF Prefix
<1> DEFINE r == rnd - x.cumulative
<1>7. r \in Int
  BY DEF SampleType
<1> HIDE DEF r
<1>8. FirstReaching(d, l, r, Sampled(d, r))
  BY <1>1, <1>7, SampledIsFirst
<1>9. Sampled(d, r) \in Int
  BY <1>1, <1>8 DEF FirstReaching, NoState
<1> QED BY <1>4, <1>5, <1>6, <1>8, <1>9 DEF b, l, d, r

LEMMA SampleChunkType ==
  ASSUME CP!Coherent, NEW c \in Chunks, NEW rnd \in Int, NEW x \in SampleType
  PROVE  SampleChunk(rnd, x, c) \in SampleType
<1> DEFINE found == Sampled(ChunkData(c), rnd - x.cumulative)
           sum == TotalProbability(ChunkData(c))
           l == StatesInChunk(Layout, c)
<1>1. l \in Nat \ {0}
  BY ChunkParts
<1>2. found \in Int
  BY ChunkSampled
<1>3. sum \in Int
  <2>1. l \in 0..l
    BY <1>1
  <2> QED BY <2>1, ChunkSampled
<1>4. SampleChunk(rnd, x, c)
        = IF x.state # NoState THEN x
          ELSE [state |-> IF found = NoState THEN NoState ELSE x.base + found,
                base |-> x.base + l, cumulative |-> x.cumulative + sum]
  BY DEF SampleChunk
<1> HIDE DEF found, sum, l
<1> QED BY <1>1, <1>2, <1>3, <1>4 DEF SampleType, NoState

(* A chunk more.                                                           *)
LEMMA SampleChunkSampling ==
  ASSUME CP!Coherent, NEW c \in Chunks, NEW rnd \in Int, NEW x, Sampling(rnd, c, x)
  PROVE  Sampling(rnd, c + 1, SampleChunk(rnd, x, c))
<1> DEFINE found == Sampled(ChunkData(c), rnd - x.cumulative)
           sum == TotalProbability(ChunkData(c))
           l == StatesInChunk(Layout, c)
           b == c * ChunkStates
           n == 2^NumQubits
           d == ChunkData(c)
           y == SampleChunk(rnd, x, c)
<1>1. x \in SampleType /\ y \in SampleType
  BY SampleChunkType DEF Sampling
<1>2. /\ b \in Nat /\ l \in Nat \ {0} /\ b + l <= n /\ b < n /\ n \in Nat
      /\ ChunksEnd(c) = b /\ ChunksEnd(c + 1) = b + l
  BY ChunkParts, SizesNow DEF ChunksEnd
<1>3. /\ FirstReaching(d, l, rnd - x.cumulative, found)
      /\ \A j \in 0..l : Prefix(d, j) = Prefix(Vector, b + j) - Prefix(Vector, b)
      /\ sum = Prefix(d, l)
  BY <1>1, ChunkSampled
<1>4. \A m \in 0..n : Prefix(Vector, m) \in Int
  BY VectorSums
<1>5. y = IF x.state # NoState THEN x
          ELSE [state |-> IF found = NoState THEN NoState ELSE x.base + found,
                base |-> x.base + l, cumulative |-> x.cumulative + sum]
  BY DEF SampleChunk
<1> HIDE DEF found, sum, l, b, n, d, y
<1>6. CASE x.state # NoState
  BY <1>1, <1>5, <1>6 DEF Sampling, n, y
<1>7. CASE x.state = NoState
  <2>1. x.base = b /\ x.cumulative = Prefix(Vector, b) /\ Unreached(Vector, b, rnd)
    BY <1>2, <1>7 DEF Sampling
  <2>2. y.state = IF found = NoState THEN NoState ELSE b + found
    BY <1>5, <1>7, <2>1
  <2>3. y.base = b + l /\ y.cumulative = Prefix(Vector, b) + Prefix(d, l)
    BY <1>3, <1>5, <1>7, <2>1
  <2>4. Prefix(Vector, b) \in Int /\ \A j \in 0..l : Prefix(Vector, b + j) \in Int
    BY <1>2, <1>4
  <2>5. y.cumulative = Prefix(Vector, b + l)
    <3>1. l \in 0..l
      BY <1>2
    <3> QED BY <1>3, <2>3, <2>4, <3>1
  \* A state of the chunk is reached when it is reached in the chunk.
  <2>6. \A k \in 0..(l - 1) :
          rnd <= Prefix(Vector, (b + k) + 1) <=> rnd - x.cumulative <= Prefix(d, k + 1)
    <3> SUFFICES ASSUME NEW k \in 0..(l - 1)
                 PROVE  rnd <= Prefix(Vector, (b + k) + 1) <=> rnd - x.cumulative <= Prefix(d, k + 1)
      OBVIOUS
    <3>1. k + 1 \in 0..l /\ (b + k) + 1 = b + (k + 1)
      BY <1>2
    <3>2. Prefix(d, k + 1) = Prefix(Vector, b + (k + 1)) - Prefix(Vector, b)
      BY <1>3, <3>1
    <3>3. Prefix(Vector, b + (k + 1)) \in Int
      BY <2>4, <3>1
    <3> QED BY <2>1, <2>4, <3>1, <3>2, <3>3
  <2>7. ASSUME NEW m \in 0..l, Unreached(d, m, rnd - x.cumulative)
        PROVE  Unreached(Vector, b + m, rnd)
    <3> SUFFICES ASSUME NEW t \in 0..((b + m) - 1) PROVE ~(rnd <= Prefix(Vector, t + 1))
      BY DEF Unreached
    <3>1. CASE t < b
      <4>1. t \in 0..(b - 1)
        BY <3>1, <1>2
      <4> QED BY <2>1, <4>1 DEF Unreached
    <3>2. CASE ~(t < b)
      <4> DEFINE k == t - b
      <4>1. k \in 0..(m - 1) /\ k \in 0..(l - 1) /\ b + k = t
        BY <3>2, <1>2
      <4>2. ~(rnd - x.cumulative <= Prefix(d, k + 1))
        BY <2>7, <4>1 DEF Unreached
      <4> HIDE DEF k
      <4> QED BY <2>6, <4>1, <4>2
    <3> QED BY <3>1, <3>2
  <2>8. CASE found = NoState
    <3>1. Unreached(d, l, rnd - x.cumulative)
      BY <1>3, <2>8 DEF FirstReaching, NoState
    <3>2. Unreached(Vector, b + l, rnd)
      <4>1. l \in 0..l
        BY <1>2
      <4> QED BY <2>7, <3>1, <4>1
    <3> QED BY <1>1, <1>2, <2>2, <2>3, <2>5, <2>8, <3>2 DEF Sampling, y, NoState
  <2>9. CASE found # NoState
    <3>1. /\ found \in 0..(l - 1) /\ rnd - x.cumulative <= Prefix(d, found + 1)
          /\ Unreached(d, found, rnd - x.cumulative)
      BY <1>3, <2>9 DEF FirstReaching
    <3>2. y.state = b + found /\ b + found \in 0..(n - 1)
      BY <1>2, <2>2, <2>9, <3>1
    <3>3. rnd <= Prefix(Vector, (b + found) + 1)
      BY <2>6, <3>1
    <3>4. Unreached(Vector, b + found, rnd)
      <4>1. found \in 0..l
        BY <1>2, <3>1
      <4> QED BY <2>7, <3>1, <4>1
    <3>5. FirstReaching(Vector, n, rnd, y.state)
      BY <3>2, <3>3, <3>4 DEF FirstReaching
    <3>6. y.state # NoState
      BY <3>2, <1>2 DEF NoState
    <3> QED BY <1>1, <3>5, <3>6 DEF Sampling, n, y
  <2> QED BY <2>8, <2>9
<1> QED BY <1>6, <1>7 DEF y

LEMMA SampleMeasured ==
  ASSUME CP!Coherent, NEW rnd \in Int
  PROVE  FirstReaching(Vector, 2^NumQubits, rnd, SampleMeasurement(rnd))
<1> DEFINE n == ChunkCount(Layout)
           chunks == [i \in 1..n |-> i - 1]
           F == [i \in 1..n |-> [x \in SampleType |-> SampleChunk(rnd, x, i - 1)]]
           Body(h) == [s \in SUBSET (1..n) |->
                         IF s = {} THEN SampleBegin
                         ELSE SampleChunk(rnd, h[s \ {Max(s)}], chunks[Max(s)])]
           chosen == CHOOSE h : h = Body(h)
<1>1. n \in Nat \ {0} /\ \A i \in 1..n : i - 1 \in Chunks
  BY SizesNow
<1>2. SampleMeasurement(rnd) = chosen[1..n].state
  <2>1. DOMAIN chunks = 1..n
    OBVIOUS
  <2>2. SampleMeasurement(rnd) = (CHOOSE h : h =
          [s \in SUBSET DOMAIN chunks |->
             IF s = {} THEN SampleBegin
             ELSE SampleChunk(rnd, h[s \ {Max(s)}], chunks[Max(s)])])[DOMAIN chunks].state
    BY DEF SampleMeasurement, FoldLeft, MapThenFoldSet
  <2> QED BY <2>1, <2>2
<1> HIDE DEF n
<1>3. F \in [1..n -> [SampleType -> SampleType]]
  BY <1>1, SampleChunkType
<1>4. \A i \in 1..n, x \in SampleType : F[i][x] = SampleChunk(rnd, x, chunks[i])
  OBVIOUS
<1>5. SampleBegin \in SampleType
  BY DEF SampleBegin, SampleType, NoState
<1> HIDE DEF F, chunks
<1>6. PICK g \in [SUBSET (1..n) -> SampleType] : LeftFolding(n, SampleBegin, F, g)
  BY <1>1, <1>3, <1>5, LeftFold
<1>7. g = Body(g)
  <2>1. ASSUME NEW s \in SUBSET (1..n) PROVE g[s] = Body(g)[s]
    <3>1. g[s] = IF s = {} THEN SampleBegin ELSE F[Max(s)][g[s \ {Max(s)}]]
      BY <1>6 DEF LeftFolding
    <3>2. s # {} => Max(s) \in 1..n /\ g[s \ {Max(s)}] \in SampleType
      BY <1>1, <1>6, MaxIn
    <3>3. Body(g)[s] = IF s = {} THEN SampleBegin
                       ELSE SampleChunk(rnd, g[s \ {Max(s)}], chunks[Max(s)])
      OBVIOUS
    <3> HIDE DEF Body
    <3> QED BY <1>4, <3>1, <3>2, <3>3
  <2>2. Body(g) = [s \in SUBSET (1..n) |-> Body(g)[s]]
    OBVIOUS
  <2> HIDE DEF Body
  <2> QED BY <2>1, <2>2
<1>8. chosen = Body(chosen)
  <2> HIDE DEF Body
  <2> QED BY <1>7
<1>9. \A s \in SUBSET (1..n) :
        chosen[s] = IF s = {} THEN SampleBegin
                    ELSE SampleChunk(rnd, chosen[s \ {Max(s)}], chunks[Max(s)])
  <2>1. \A h : \A s \in SUBSET (1..n) :
          Body(h)[s] = IF s = {} THEN SampleBegin
                       ELSE SampleChunk(rnd, h[s \ {Max(s)}], chunks[Max(s)])
    OBVIOUS
  <2> HIDE DEF chosen, Body
  <2> QED BY <1>8, <2>1
<1> HIDE DEF chosen, Body
<1>10. chosen[1..0] = SampleBegin
  BY <1>9, IndexPrefixes
<1>11. ASSUME NEW m \in 1..n
       PROVE  chosen[1..m] = SampleChunk(rnd, chosen[1..(m - 1)], m - 1)
  <2>1. m \in Nat /\ m # 0 /\ 1..m \in SUBSET (1..n) /\ m \in 1..m /\ 1..m # {}
    BY <1>1
  <2>2. Max(1..m) = m /\ (1..m) \ {m} = 1..(m - 1)
    BY <2>1, IndexPrefixes
  <2>3. chunks[m] = m - 1
    BY DEF chunks
  <2> QED BY <1>9, <2>1, <2>2, <2>3
<1> DEFINE G == {m \in Nat : m <= n => Sampling(rnd, m, chosen[1..m])}
<1>12. 0 \in G
  <2>1. ChunksEnd(0) = 0
    BY SizesNow DEF ChunksEnd
  <2>2. Prefix(Vector, 0) = 0
    BY VectorSums, SizesNow, PrefixStep
  <2>3. Unreached(Vector, 0, rnd)
    BY DEF Unreached
  <2>4. Sampling(rnd, 0, SampleBegin)
    BY <1>5, <2>1, <2>2, <2>3 DEF Sampling, SampleBegin
  <2> QED BY <1>10, <2>4
<1>13. ASSUME NEW m \in G PROVE m + 1 \in G
  <2> SUFFICES ASSUME m + 1 <= n PROVE Sampling(rnd, m + 1, chosen[1..(m + 1)])
    OBVIOUS
  <2>1. m \in Nat /\ m <= n /\ m + 1 \in 1..n /\ (m + 1) - 1 = m
    BY <1>1
  <2>2. Sampling(rnd, m, chosen[1..m]) /\ m \in Chunks
    BY <1>1, <2>1
  <2>3. chosen[1..(m + 1)] = SampleChunk(rnd, chosen[1..m], m)
    BY <1>11, <2>1
  <2> HIDE DEF G
  <2> QED BY <2>2, <2>3, SampleChunkSampling
<1>14. G = Nat
  <2>1. G \in SUBSET Nat
    OBVIOUS
  <2> HIDE DEF G
  <2> QED BY <1>12, <1>13, <2>1, NumberInduction
<1>15. Sampling(rnd, n, chosen[1..n])
  BY <1>1, <1>14
<1>16. ChunksEnd(n) = 2^NumQubits
  <2>1. n - 1 \in Chunks /\ (n - 1) + 1 = n
    BY <1>1
  <2> DEFINE w == ChunkStates  t == 2^NumQubits  m == t + w - 1
  <2>2. t \in Nat \ {0} /\ w \in Nat \ {0} /\ m \in Nat /\ n = m \div w
    BY SizesNow DEF n, ChunkCount
  <2>3. ChunksEnd(n) = IF n * w < t THEN n * w ELSE t
    BY DEF ChunksEnd
  <2> HIDE DEF w, t, m
  <2>4. m \div w \in Nat /\ m = w * (m \div w) + (m % w) /\ (m % w) \in 0..(w - 1)
    BY <2>2, Division
  <2>5. m = t + w - 1
    BY DEF m
  <2>6. n * w = w * n /\ w * n \in Nat
    BY <1>1, <2>2
  <2>7. ~(n * w < t)
    <3> DEFINE p == w * n  r == m % w
    <3>1. m = p + r /\ r \in 0..(w - 1) /\ p \in Nat
      BY <2>2, <2>4, <2>6
    <3> HIDE DEF p, r
    <3>2. ~(p < t)
      BY <2>2, <2>5, <3>1
    <3> QED BY <2>6, <3>2 DEF p
  <2> QED BY <2>3, <2>7 DEF t
<1>17. FirstReaching(Vector, 2^NumQubits, rnd, chosen[1..n].state)
  BY <1>15, <1>16 DEF Sampling, FirstReaching
<1> QED BY <1>2, <1>17

LEMMA LoopSamples == LoopInv => SamplesAgree
<1> SUFFICES ASSUME LoopInv, NEW rnd \in Samples(Vector)
             PROVE  LET state == SampleMeasurement(rnd)
                    IN /\ state = Sampled(Vector, rnd)
                       /\ state \in States /\ Vector[state] = 0 => rnd = 0 /\ state = 0
  BY DEF SamplesAgree
<1> DEFINE n == 2^NumQubits  s == SampleMeasurement(rnd)
<1>0. CP!Coherent
  BY DEF LoopInv
<1>1. /\ n \in Nat \ {0} /\ States = 0..(n - 1)
      /\ \A t \in 0..(n - 1) : Vector[t] \in Nat
      /\ DOMAIN Vector = 0..(n - 1)
      /\ \A m \in 0..n : Prefix(Vector, m) \in Int
  <2>1. Amplitude \subseteq Nat
    BY DEF Amplitude
  <2>2. n \in Nat \ {0} /\ States = 0..(n - 1)
    BY SizesNow DEF States
  <2> QED BY <1>0, <2>1, <2>2, VectorSums
<1> HIDE DEF n
<1>2. /\ Prefix(Vector, 0) = 0
      /\ \A m \in 0..(n - 1) : Prefix(Vector, m + 1) = Vector[m] + Prefix(Vector, m)
  <2>1. n \in Nat /\ \A x \in 0..(n - 1) : Vector[x] \in Int
    BY <1>1
  <2> QED BY <2>1, PrefixStep
<1>3. \A t \in 0..(n - 1) : Cumulative(Vector, t) = Prefix(Vector, t + 1)
  <2> SUFFICES ASSUME NEW t \in 0..(n - 1) PROVE Cumulative(Vector, t) = Prefix(Vector, t + 1)
    OBVIOUS
  <2>1. {u \in DOMAIN Vector : u <= t} = 0..((t + 1) - 1)
    BY <1>1
  <2> QED BY <2>1 DEF Cumulative, Prefix
<1> DEFINE G == {m \in Nat : m <= n => Prefix(Vector, m) \in Nat}
<1>4. \A m \in 0..n : Prefix(Vector, m) \in Nat
  <2>1. 0 \in G
    BY <1>2
  <2>2. ASSUME NEW m \in G PROVE m + 1 \in G
    <3> SUFFICES ASSUME m + 1 <= n PROVE Prefix(Vector, m + 1) \in Nat
      OBVIOUS
    <3>1. m \in 0..(n - 1) /\ m <= n
      BY <1>1
    <3>2. Prefix(Vector, m) \in Nat /\ Vector[m] \in Nat
      BY <1>1, <3>1
    <3>3. Prefix(Vector, m + 1) = Vector[m] + Prefix(Vector, m)
      BY <1>2, <3>1
    <3> QED BY <3>2, <3>3
  <2>3. G \in SUBSET Nat
    OBVIOUS
  <2> HIDE DEF G
  <2>4. G = Nat
    BY <2>1, <2>2, <2>3, NumberInduction
  <2>5. SUFFICES ASSUME NEW m \in 0..n PROVE Prefix(Vector, m) \in Nat
    OBVIOUS
  <2>6. m \in Nat /\ m <= n
    BY <1>1
  <2>7. m \in G
    BY <2>4, <2>6
  <2> QED BY <2>6, <2>7 DEF G
<1>5. rnd \in Nat
  <2>1. \A t \in DOMAIN Vector : Cumulative(Vector, t) \in Nat /\ Cumulative(Vector, t) + 1 \in Nat
    <3> SUFFICES ASSUME NEW t \in 0..(n - 1) PROVE Cumulative(Vector, t) \in Nat
      BY <1>1
    <3>1. t + 1 \in 0..n
      BY <1>1
    <3> QED BY <1>3, <1>4, <3>1
  <2> QED BY <2>1 DEF Samples
<1>6. FirstReaching(Vector, n, rnd, s)
  BY <1>0, <1>5, SampleMeasured DEF n
<1>7. FirstReaching(Vector, n, rnd, Sampled(Vector, rnd))
  BY <1>1, <1>5, SampledIsFirst
<1>8. s = Sampled(Vector, rnd)
  <2>1. n \in Nat
    BY <1>1
  <2> HIDE DEF s
  <2> QED BY <1>6, <1>7, <2>1, FirstIsOne
<1>9. ASSUME s \in States, Vector[s] = 0 PROVE rnd = 0 /\ s = 0
  <2> HIDE DEF s
  <2>1. /\ s \in 0..(n - 1) /\ rnd <= Prefix(Vector, s + 1) /\ Unreached(Vector, s, rnd)
    BY <1>1, <1>6, <1>9 DEF FirstReaching, NoState
  <2>2. Prefix(Vector, s + 1) = Prefix(Vector, s)
    <3>1. s \in 0..n
      BY <1>1, <2>1
    <3> QED BY <1>1, <1>2, <1>9, <2>1, <3>1
  <2>3. s = 0
    <3> SUFFICES ASSUME s # 0 PROVE FALSE
      OBVIOUS
    <3>1. s - 1 \in 0..(s - 1) /\ (s - 1) + 1 = s
      BY <1>1, <2>1
    <3> QED BY <2>1, <2>2, <3>1 DEF Unreached
  <2> QED BY <1>2, <1>5, <2>1, <2>2, <2>3
<1> QED BY <1>8, <1>9

(* Sampling chunk by chunk finds the state that a loop over the whole      *)
(* vector finds, whatever the chunks, the cache and the batches.           *)
THEOREM SamplesAlwaysAgree == Spec => []SamplesAgree
BY InitLoop, NextLoop, LoopSamples, PTL DEF Spec

-------------------------------------------------------------------------------
(* What an operation promises.                                             *)

Vectors == [States -> Amplitude]
SquareMatrices(k) == [Rows(2^k) -> [Rows(2^k) -> Amplitude]]

(* Operators the back end and its promise define alike.                    *)
LEMMA PromisedNames ==
  /\ Promise!States = States
  /\ \A f : Promise!Total(f) = Total(f)
  /\ \A a, b : /\ Promise!Plus(a, b) = Plus(a, b) /\ Promise!Minus(a, b) = Minus(a, b)
               /\ Promise!Times(a, b) = Times(a, b)
  /\ Promise!InversePower2(NumQubits) = InversePower2(NumQubits)
  /\ Promise!Hadamard = Hadamard /\ Promise!PauliX = PauliX
  /\ Promise!ControlledNot = ControlledNot
  /\ \A angle : Promise!ControlledPhaseShift(angle) = ControlledPhaseShift(angle)
<1>1. Promise!States = States
  BY DEF Promise!States, States
<1>2. ASSUME NEW f PROVE Promise!Total(f) = Total(f)
  <2>1. Promise!SumFunction(f) = SumFunction(f)
    BY DEF SumFunction, Promise!SumFunction, SumFunctionOnSet, Promise!SumFunctionOnSet,
           FoldFunctionOnSet, Promise!FoldFunctionOnSet, MapThenFoldSet, Promise!MapThenFoldSet
  <2> QED BY <2>1 DEF Total, Promise!Total
<1>3. \A a, b : /\ Promise!Plus(a, b) = Plus(a, b) /\ Promise!Minus(a, b) = Minus(a, b)
                /\ Promise!Times(a, b) = Times(a, b)
  BY DEF Plus, Promise!Plus, Minus, Promise!Minus, Times, Promise!Times
<1>4. Promise!InversePower2(NumQubits) = InversePower2(NumQubits)
  BY DEF InversePower2, Promise!InversePower2, Half, Promise!Half
<1>5. Promise!Hadamard = Hadamard /\ Promise!PauliX = PauliX
  BY DEF Hadamard, Promise!Hadamard, PauliX, Promise!PauliX, Matrix, Promise!Matrix,
         Rows, Promise!Rows, InvSqrt2, Promise!InvSqrt2, Minus, Promise!Minus
<1>6. Promise!ControlledNot = ControlledNot
  BY DEF ControlledNot, Promise!ControlledNot, Matrix, Promise!Matrix, Rows, Promise!Rows
<1>7. \A angle : Promise!ControlledPhaseShift(angle) = ControlledPhaseShift(angle)
  BY DEF ControlledPhaseShift, Promise!ControlledPhaseShift, Matrix, Promise!Matrix,
         Rows, Promise!Rows
<1> QED BY <1>1, <1>2, <1>3, <1>4, <1>5, <1>6, <1>7

(* The gates, and the operations that are not gates.                       *)
LEMMA GateOutcomes ==
  ASSUME NEW o, NEW v
  PROVE  /\ o.name = "H" => Promise!Result(o, v) = Promise!Applied(Hadamard, o.qubits, v)
         /\ o.name = "X" => Promise!Result(o, v) = Promise!Applied(PauliX, o.qubits, v)
         /\ o.name = "CNOT" => Promise!Result(o, v) = Promise!Applied(ControlledNot, o.qubits, v)
         /\ o.name = "CP" => Promise!Result(o, v)
              = Promise!Applied(ControlledPhaseShift(o.phase), o.qubits, v)
         /\ o.name = "Gate" => Promise!Result(o, v) = Promise!Applied(o.matrix, o.qubits, v)
BY PromisedNames DEF Promise!Result

(* What the operations on whole vectors yield.                             *)
LEMMA VectorOutcomes ==
  ASSUME NEW o, NEW v
  PROVE  /\ o.name = "PhaseFlip" =>
              Promise!Result(o, v) = [v EXCEPT ![o.state] = Minus(0, v[o.state])]
         /\ o.name = "SetAmplitude" => Promise!Result(o, v) = [v EXCEPT ![o.state] = o.value]
         /\ o.name = "Inversion" => Promise!Result(o, v)
              = [s \in States |-> Minus(2 * Times(Total(v), InversePower2(NumQubits)), v[s])]
         /\ o.name = "InversionMean" =>
              Promise!Result(o, v) = [s \in States |-> Minus(2 * o.mean, v[s])]
         /\ o.name = "Affine" =>
              Promise!Result(o, v) = [s \in States |-> Plus(Times(o.scale, v[s]), o.bias)]
         /\ o.name = "InitBasis" =>
              Promise!Result(o, v) = [s \in States |-> IF s = o.state THEN o.value ELSE 0]
         /\ o.name = "Load" => Promise!Result(o, v) = o.vector
BY PromisedNames DEF Promise!Result, Promise!Mean, Promise!BasisVector

(* A recognised gate does what the gate it is recognised as does.          *)
LEMMA DispatchedOutcome ==
  ASSUME NEW o, o.name = "Gate", NEW v
  PROVE  Promise!Result(Dispatched(o), v) = Promise!Result(o, v)
<1> DEFINE p == Dispatched(o)
<1>1. \/ p = o
      \/ o.matrix = Hadamard /\ p = [name |-> "H", qubits |-> o.qubits]
      \/ o.matrix = PauliX /\ p = [name |-> "X", qubits |-> o.qubits]
      \/ o.matrix = ControlledNot /\ p = [name |-> "CNOT", qubits |-> o.qubits]
      \/ /\ o.matrix = ControlledPhaseShift(o.matrix[3][3])
         /\ p = [name |-> "CP", qubits |-> o.qubits, phase |-> o.matrix[3][3]]
  BY DEF Dispatched
<1>2. Promise!Result(o, v) = Promise!Applied(o.matrix, o.qubits, v)
  BY GateOutcomes
<1> HIDE DEF p
<1>3. CASE p = o
  BY <1>3 DEF p
<1>4. CASE o.matrix = Hadamard /\ p = [name |-> "H", qubits |-> o.qubits]
  <2>1. p.name = "H" /\ p.qubits = o.qubits
    BY <1>4
  <2> QED BY <1>2, <1>4, <2>1, GateOutcomes DEF p
<1>5. CASE o.matrix = PauliX /\ p = [name |-> "X", qubits |-> o.qubits]
  <2>1. p.name = "X" /\ p.qubits = o.qubits
    BY <1>5
  <2> QED BY <1>2, <1>5, <2>1, GateOutcomes DEF p
<1>6. CASE o.matrix = ControlledNot /\ p = [name |-> "CNOT", qubits |-> o.qubits]
  <2>1. p.name = "CNOT" /\ p.qubits = o.qubits
    BY <1>6
  <2> QED BY <1>2, <1>6, <2>1, GateOutcomes DEF p
<1>7. CASE /\ o.matrix = ControlledPhaseShift(o.matrix[3][3])
           /\ p = [name |-> "CP", qubits |-> o.qubits, phase |-> o.matrix[3][3]]
  <2>1. p.name = "CP" /\ p.qubits = o.qubits /\ p.phase = o.matrix[3][3]
    BY <1>7
  <2> QED BY <1>2, <1>7, <2>1, GateOutcomes DEF p
<1> QED BY <1>1, <1>3, <1>4, <1>5, <1>6, <1>7

(* The outcome is a vector of the same states.                             *)
LEMMA OutcomeStates ==
  ASSUME NEW o, WellFormed(o), NEW v \in Vectors
  PROVE  Promise!Result(o, v) = [s \in States |-> Promise!Result(o, v)[s]]
<1>1. CASE o.name \in {"H", "X", "CNOT", "CP", "Gate"}
  BY <1>1, GateOutcomes, PromisedNames DEF Promise!Applied
<1>2. CASE o.name \in {"PhaseFlip", "SetAmplitude"}
  BY <1>2, VectorOutcomes DEF Vectors
<1>3. CASE o.name \in {"Inversion", "InversionMean", "Affine", "InitBasis"}
  BY <1>3, VectorOutcomes
<1>4. CASE o.name = "Load"
  <2>1. o.vector \in [States -> Amplitude]
    BY <1>4 DEF WellFormed
  <2> QED BY <1>4, <2>1, VectorOutcomes
<1> QED BY <1>1, <1>2, <1>3, <1>4, OperationKinds DEF PairOperations, StateOperations

-------------------------------------------------------------------------------
(* The amplitude a gate gives a state.                                     *)

GateTerms(gate, qs, v, s) ==
  [col \in DOMAIN gate |-> gate[Promise!Row(s, qs)][col] * v[Promise!WithColumn(s, qs, col)]]

(* An amplitude of a gate's outcome is a finite sum over the columns.      *)
LEMMA AppliedAt ==
  ASSUME NEW k \in 0..NumQubits, NEW qs \in QubitLists(k), NEW gate \in SquareMatrices(k),
         NEW v \in Vectors, NEW s \in States
  PROVE  /\ Promise!Applied(gate, qs, v)[s]
              = (SumFunctionOnSet(GateTerms(gate, qs, v, s), Rows(2^k)) % 17)
         /\ IsFiniteSet(Rows(2^k)) /\ Promise!Row(s, qs) \in Rows(2^k)
         /\ \A col \in Rows(2^k) :
              /\ gate[Promise!Row(s, qs)][col] \in Amplitude
              /\ Promise!WithColumn(s, qs, col) \in States
              /\ v[Promise!WithColumn(s, qs, col)] \in Amplitude
              /\ GateTerms(gate, qs, v, s)[col]
                   = gate[Promise!Row(s, qs)][col] * v[Promise!WithColumn(s, qs, col)]
              /\ GateTerms(gate, qs, v, s)[col] \in Int
<1> DEFINE R == Rows(2^k)  row == Promise!Row(s, qs)  f == GateTerms(gate, qs, v, s)
<1>1. row \in R
  BY RowDigits
<1>2. DOMAIN gate = R /\ gate \in [R -> [R -> Amplitude]]
  BY DEF SquareMatrices
<1>3. IsFiniteSet(R)
  <2>1. 2^k \in Int
    BY GateBounds
  <2>2. \A a, b \in Int : IsFiniteSet(a..b)
    BY FS_Interval
  <2> QED BY <2>1, <2>2 DEF Rows
<1>4. Promise!Applied(gate, qs, v)[s] = (SumFunctionOnSet(f, R) % 17)
  <2>1. Promise!Applied(gate, qs, v)[s] = Total(f)
    BY PromisedNames DEF Promise!Applied, GateTerms
  <2>2. DOMAIN f = R
    BY <1>2 DEF GateTerms
  <2> HIDE DEF f, R
  <2> QED BY <2>1, <2>2 DEF Total, SumFunction
<1>5. ASSUME NEW col \in R
      PROVE  /\ gate[row][col] \in Amplitude
             /\ Promise!WithColumn(s, qs, col) \in States
             /\ v[Promise!WithColumn(s, qs, col)] \in Amplitude
             /\ f[col] = gate[row][col] * v[Promise!WithColumn(s, qs, col)]
             /\ f[col] \in Int
  <2>1. gate[row][col] \in Amplitude
    <3> HIDE DEF R, row
    <3> QED BY <1>1, <1>2
  <2>2. Promise!WithColumn(s, qs, col) \in States
    BY ColumnDigits
  <2>3. v[Promise!WithColumn(s, qs, col)] \in Amplitude
    BY <2>2 DEF Vectors
  <2>4. f[col] = gate[row][col] * v[Promise!WithColumn(s, qs, col)]
    BY <1>2 DEF GateTerms
  <2>5. \A a, b \in Amplitude : a * b \in Int
    BY DEF Amplitude
  <2> HIDE DEF f, row
  <2> QED BY <2>1, <2>2, <2>3, <2>4, <2>5
<1> QED BY <1>1, <1>3, <1>4, <1>5

(* A row with one entry that is not 0.                                     *)
LEMMA OneEntry ==
  ASSUME NEW k \in 0..NumQubits, NEW qs \in QubitLists(k), NEW gate \in SquareMatrices(k),
         NEW v \in Vectors, NEW s \in States, NEW col \in Rows(2^k),
         \A c \in Rows(2^k) : c # col => gate[Promise!Row(s, qs)][c] = 0
  PROVE  Promise!Applied(gate, qs, v)[s]
           = Times(gate[Promise!Row(s, qs)][col], v[Promise!WithColumn(s, qs, col)])
<1> DEFINE f == GateTerms(gate, qs, v, s)  R == Rows(2^k)
<1>1. /\ Promise!Applied(gate, qs, v)[s] = (SumFunctionOnSet(f, R) % 17)
      /\ IsFiniteSet(R)
      /\ \A c \in R : /\ v[Promise!WithColumn(s, qs, c)] \in Amplitude
                      /\ f[c] = gate[Promise!Row(s, qs)][c] * v[Promise!WithColumn(s, qs, c)]
                      /\ f[c] \in Int
  BY AppliedAt
<1> HIDE DEF f
<1>2. \A c \in R : c # col => f[c] = 0
  <2> SUFFICES ASSUME NEW c \in R, c # col PROVE f[c] = 0
    OBVIOUS
  <2> DEFINE w == v[Promise!WithColumn(s, qs, c)]
  <2>1. f[c] = 0 * w /\ w \in Amplitude
    BY <1>1
  <2> HIDE DEF w
  <2> QED BY <2>1 DEF Amplitude
<1> HIDE DEF R
<1>3. col \in R
  BY DEF R
<1>4. SumFunctionOnSet(f, R) = f[col]
  BY <1>1, <1>2, <1>3, OneTerm
<1> QED BY <1>1, <1>3, <1>4 DEF Times

-------------------------------------------------------------------------------
(* A pair of states that differ in one qubit, and what the gates make of   *)
(* their amplitudes.                                                       *)

Place(q) == NumQubits - q - 1

IsPairOf(q, s, t) ==
  /\ s \in States /\ t \in States /\ t = s + Promise!Mask(q)
  /\ Digit(s, Place(q)) = 0 /\ Digit(t, Place(q)) = 1
  /\ \A j \in 0..(NumQubits - 1) : j # Place(q) => Digit(t, j) = Digit(s, j)

(* Two states that differ by the mask of a clear bit are a pair.           *)
LEMMA PairsDiffer ==
  ASSUME NEW q \in Qubits, NEW s \in States, Promise!Bit(s, q) = 0,
         NEW t \in States, t = s + Promise!Mask(q)
  PROVE  IsPairOf(q, s, t)
<1> DEFINE i == Place(q)
<1>1. i \in 0..(NumQubits - 1) /\ s \in Nat /\ s < 2^NumQubits /\ NumQubits \in 0..NumQubits
  BY StateNumbers DEF Qubits, Place
<1>2. Digit(s, i) = 0 /\ Promise!Mask(q) = 2^i /\ 2^i \in Nat
  BY BitIsDigit DEF Place
<1> HIDE DEF i
<1>3. t = s + (1 - Digit(s, i)) * 2^i /\ t \in Int
  BY <1>1, <1>2
<1>4. /\ Digit(t, i) = 1
      /\ \A j \in 0..(NumQubits - 1) : j # i => Digit(t, j) = Digit(s, j)
  <2>1. 1 \in {0, 1}
    OBVIOUS
  <2> QED BY <1>1, <1>3, <2>1, WriteDigit
<1> QED BY <1>2, <1>4 DEF IsPairOf, i

(* Rows and columns by their digits.                                       *)
LEMMA RowIs ==
  ASSUME NEW k \in 0..NumQubits, NEW qs \in QubitLists(k), NEW s \in States,
         NEW row \in Rows(2^k), \A i \in 1..k : RowDigit(k, row, i) = Digit(s, Place(qs[i]))
  PROVE  Promise!Row(s, qs) = row
<1> DEFINE r == Promise!Row(s, qs)
<1>1. \A i \in 1..k : TargetPositions(qs, NumQubits)[i] = Place(qs[i])
  BY TargetPlaces DEF Place
<1>2. r \in Rows(2^k) /\ \A i \in 1..k : RowDigit(k, r, i) = Digit(s, Place(qs[i]))
  BY <1>1, RowDigits
<1> HIDE DEF r
<1>3. \A i \in 1..k : RowDigit(k, r, i) = RowDigit(k, row, i)
  BY <1>2
<1>4. r = row
  BY <1>2, <1>3, SameRow
<1> QED BY <1>4 DEF r

(* A state is the one in the column that has its digits.                   *)
LEMMA ColumnIs ==
  ASSUME NEW k \in 0..NumQubits, NEW qs \in QubitLists(k), NEW s \in States, NEW t \in States,
         NEW col \in Rows(2^k), \A i \in 1..k : RowDigit(k, col, i) = Digit(t, Place(qs[i])),
         \A j \in OtherPlaces(qs) : Digit(t, j) = Digit(s, j)
  PROVE  Promise!WithColumn(s, qs, col) = t
<1> DEFINE u == Promise!WithColumn(s, qs, col)
<1>1. \A i \in 1..k : TargetPositions(qs, NumQubits)[i] = Place(qs[i])
  BY TargetPlaces DEF Place
<1>2. /\ u \in States
      /\ \A i \in 1..k : Digit(u, TargetPositions(qs, NumQubits)[i]) = RowDigit(k, col, i)
      /\ \A j \in OtherPlaces(qs) : Digit(u, j) = Digit(s, j)
  BY ColumnDigits
<1> HIDE DEF u
<1>3. \A i \in 1..k : Digit(u, TargetPositions(qs, NumQubits)[i])
                        = Digit(t, TargetPositions(qs, NumQubits)[i])
  BY <1>1, <1>2
<1>4. \A j \in OtherPlaces(qs) : Digit(u, j) = Digit(t, j)
  BY <1>2
<1>5. u = t
  BY <1>2, <1>3, <1>4, SameState
<1> QED BY <1>5 DEF u

(* The digits of the rows of gates on one and on two qubits.               *)
LEMMA SmallPowers == 1 \in 0..NumQubits => 2^0 = 1 /\ 2^1 = 2
<1> SUFFICES ASSUME 1 \in 0..NumQubits PROVE 2^0 = 1 /\ 2^1 = 2
  OBVIOUS
<1>1. 2^0 = 1 /\ 0 \in 0..NumQubits /\ \A n \in 0..NumQubits : 2^(n + 1) = 2 * 2^n
  BY SizesAssumption
<1>2. 2^(0 + 1) = 2 * 2^0
  BY <1>1
<1> QED BY <1>1, <1>2

(* Rows and columns of a gate on one qubit.                                *)
LEMMA OneQubit ==
  ASSUME NEW qs \in QubitLists(1)
  PROVE  /\ 1 \in 0..NumQubits /\ Len(qs) = 1 /\ qs[1] \in Qubits /\ Rows(2^1) = 0..1
         /\ \A row \in 0..1 : RowDigit(1, row, 1) = row
         /\ \A j \in OtherPlaces(qs) : j \in 0..(NumQubits - 1) /\ j # Place(qs[1])
<1>1. qs \in [1..1 -> Qubits] /\ NumQubits \in Nat
  BY SizesAssumption DEF QubitLists, Injection
<1>2. qs[1] \in Qubits /\ Len(qs) = 1 /\ DOMAIN qs = 1..1
  BY <1>1
<1>3. 1 \in 0..NumQubits
  BY <1>1, <1>2 DEF Qubits
<1>4. Rows(2^1) = 0..1
  BY <1>3, SmallPowers DEF Rows
<1>5. \A row \in 0..1 : RowDigit(1, row, 1) = row
  <2> SUFFICES ASSUME NEW row \in 0..1 PROVE RowDigit(1, row, 1) = row
    OBVIOUS
  <2>1. RowDigit(1, row, 1) = BitAt(row, 2^0)
    BY DEF RowDigit, Digit
  <2>2. BitAt(row, 1) = row
    BY DEF BitAt
  <2> QED BY <1>3, <2>1, <2>2, SmallPowers
<1>6. TargetPositions(qs, NumQubits)[1] = Place(qs[1])
  BY <1>2 DEF TargetPositions, Place
<1>7. \A j \in OtherPlaces(qs) : j \in 0..(NumQubits - 1) /\ j # Place(qs[1])
  BY <1>2, <1>6 DEF OtherPlaces
<1> QED BY <1>2, <1>3, <1>4, <1>5, <1>7

(* Rows and columns of a gate on two qubits.                               *)
LEMMA TwoQubits ==
  ASSUME NEW qs \in QubitLists(2)
  PROVE  /\ 2 \in 0..NumQubits /\ Len(qs) = 2 /\ Rows(2^2) = 0..3
         /\ qs[1] \in Qubits /\ qs[2] \in Qubits /\ Place(qs[1]) # Place(qs[2])
         /\ Place(qs[1]) \in 0..(NumQubits - 1) /\ Place(qs[2]) \in 0..(NumQubits - 1)
         /\ \A x, y \in {0, 1} :
              /\ 2 * x + y \in 0..3
              /\ RowDigit(2, 2 * x + y, 1) = x /\ RowDigit(2, 2 * x + y, 2) = y
         /\ \A j \in OtherPlaces(qs) :
              j \in 0..(NumQubits - 1) /\ j # Place(qs[1]) /\ j # Place(qs[2])
<1>1. qs \in [1..2 -> Qubits] /\ NumQubits \in Nat /\ \A i, j \in 1..2 : qs[i] = qs[j] => i = j
  <2>1. qs \in [1..2 -> Qubits] /\ \A i, j \in DOMAIN qs : qs[i] = qs[j] => i = j
    BY DEF QubitLists, Injection, IsInjective
  <2> QED BY <2>1, SizesAssumption
<1>2. qs[1] \in Qubits /\ qs[2] \in Qubits /\ qs[1] # qs[2] /\ Len(qs) = 2 /\ DOMAIN qs = 1..2
  BY <1>1
<1>3. 2 \in 0..NumQubits /\ 1 \in 0..NumQubits
  BY <1>1, <1>2 DEF Qubits
<1>4. 2^0 = 1 /\ 2^1 = 2 /\ Rows(2^2) = 0..3
  <2>1. 2^(1 + 1) = 2 * 2^1
    BY <1>3, SizesAssumption
  <2>2. 2^2 = 4
    BY <1>3, <2>1, SmallPowers
  <2> QED BY <1>3, <2>2, SmallPowers DEF Rows
<1>5. ASSUME NEW x \in {0, 1}, NEW y \in {0, 1}
      PROVE  /\ 2 * x + y \in 0..3
             /\ RowDigit(2, 2 * x + y, 1) = x /\ RowDigit(2, 2 * x + y, 2) = y
  <2> DEFINE r == 2 * x + y
  <2>1. RowDigit(2, r, 1) = BitAt(r, 2^1) /\ RowDigit(2, r, 2) = BitAt(r, 2^0)
    BY DEF RowDigit, Digit
  <2>2. BitAt(r, 2) = x /\ BitAt(r, 1) = y /\ r \in 0..3
    BY DEF BitAt
  <2> QED BY <1>4, <2>1, <2>2
<1>6. /\ Place(qs[1]) # Place(qs[2])
      /\ Place(qs[1]) \in 0..(NumQubits - 1) /\ Place(qs[2]) \in 0..(NumQubits - 1)
  BY <1>1, <1>2 DEF Place, Qubits
<1>7. /\ TargetPositions(qs, NumQubits)[1] = Place(qs[1])
      /\ TargetPositions(qs, NumQubits)[2] = Place(qs[2])
  BY <1>2 DEF TargetPositions, Place
<1>8. \A j \in OtherPlaces(qs) :
        j \in 0..(NumQubits - 1) /\ j # Place(qs[1]) /\ j # Place(qs[2])
  BY <1>2, <1>7 DEF OtherPlaces
<1> QED BY <1>2, <1>3, <1>4, <1>5, <1>6, <1>8

(* Gates on one qubit see the pair as rows and columns 0 and 1.            *)
LEMMA PairOfOne ==
  ASSUME NEW qs \in QubitLists(1), NEW s, NEW t, IsPairOf(qs[1], s, t)
  PROVE  /\ Promise!Row(s, qs) = 0 /\ Promise!Row(t, qs) = 1
         /\ Promise!WithColumn(s, qs, 0) = s /\ Promise!WithColumn(s, qs, 1) = t
         /\ Promise!WithColumn(t, qs, 0) = s /\ Promise!WithColumn(t, qs, 1) = t
<1>1. s \in States /\ t \in States /\ Digit(s, Place(qs[1])) = 0 /\ Digit(t, Place(qs[1])) = 1
  BY DEF IsPairOf
<1>2. \A j \in OtherPlaces(qs) : Digit(t, j) = Digit(s, j)
  BY OneQubit DEF IsPairOf
<1>3. /\ 1 \in 0..NumQubits /\ 0 \in Rows(2^1) /\ 1 \in Rows(2^1)
      /\ \A i \in 1..1 : RowDigit(1, 0, i) = 0 /\ RowDigit(1, 1, i) = 1
  BY OneQubit
<1>4. /\ \A i \in 1..1 : RowDigit(1, 0, i) = Digit(s, Place(qs[i]))
      /\ \A i \in 1..1 : RowDigit(1, 1, i) = Digit(t, Place(qs[i]))
  BY <1>1, <1>3
<1>5. Promise!Row(s, qs) = 0 /\ Promise!Row(t, qs) = 1
  BY <1>1, <1>3, <1>4, RowIs
<1>6. Promise!WithColumn(s, qs, 0) = s /\ Promise!WithColumn(s, qs, 1) = t
  BY <1>1, <1>2, <1>3, <1>4, ColumnIs
<1>7. Promise!WithColumn(t, qs, 0) = s /\ Promise!WithColumn(t, qs, 1) = t
  BY Zenon, <1>1, <1>2, <1>3, <1>4, ColumnIs
<1> QED BY <1>5, <1>6, <1>7

(* Gates on two qubits, by the first qubit's bit, which the pair shares.   *)
LEMMA PairOfTwo ==
  ASSUME NEW qs \in QubitLists(2), NEW s, NEW t, IsPairOf(qs[2], s, t)
  PROVE  LET x == Digit(s, Place(qs[1]))
         IN /\ x \in {0, 1} /\ Digit(t, Place(qs[1])) = x
            /\ Promise!Row(s, qs) = 2 * x /\ Promise!Row(t, qs) = 2 * x + 1
            /\ Promise!WithColumn(s, qs, 2 * x) = s /\ Promise!WithColumn(s, qs, 2 * x + 1) = t
            /\ Promise!WithColumn(t, qs, 2 * x) = s /\ Promise!WithColumn(t, qs, 2 * x + 1) = t
<1> DEFINE x == Digit(s, Place(qs[1]))
<1>1. s \in States /\ t \in States /\ Digit(s, Place(qs[2])) = 0 /\ Digit(t, Place(qs[2])) = 1
  BY DEF IsPairOf
<1>2. /\ \A j \in OtherPlaces(qs) : Digit(t, j) = Digit(s, j)
      /\ Digit(t, Place(qs[1])) = x
  BY TwoQubits DEF IsPairOf
<1>3. x \in {0, 1}
  <2>1. Place(qs[1]) \in 0..NumQubits /\ s \in Nat
    BY <1>1, TwoQubits, StateNumbers
  <2> QED BY <2>1, DigitType
<1> HIDE DEF x
<1>4. /\ 2 \in 0..NumQubits /\ 2 * x \in Rows(2^2) /\ 2 * x + 1 \in Rows(2^2)
      /\ RowDigit(2, 2 * x, 1) = x /\ RowDigit(2, 2 * x, 2) = 0
      /\ RowDigit(2, 2 * x + 1, 1) = x /\ RowDigit(2, 2 * x + 1, 2) = 1
  <2>1. 2 * x + 0 = 2 * x /\ 0 \in {0, 1} /\ 1 \in {0, 1}
    BY <1>3
  <2> QED BY <1>3, <2>1, TwoQubits
<1>5. /\ \A i \in 1..2 : RowDigit(2, 2 * x, i) = Digit(s, Place(qs[i]))
      /\ \A i \in 1..2 : RowDigit(2, 2 * x + 1, i) = Digit(t, Place(qs[i]))
  <2>1. \A i \in 1..2 : i = 1 \/ i = 2
    OBVIOUS
  <2> QED BY <1>1, <1>2, <1>4, <2>1 DEF x
<1>6. Promise!Row(s, qs) = 2 * x /\ Promise!Row(t, qs) = 2 * x + 1
  BY <1>1, <1>4, <1>5, RowIs
<1>7. Promise!WithColumn(s, qs, 2 * x) = s /\ Promise!WithColumn(s, qs, 2 * x + 1) = t
  BY <1>1, <1>2, <1>4, <1>5, ColumnIs
<1>8. Promise!WithColumn(t, qs, 2 * x) = s /\ Promise!WithColumn(t, qs, 2 * x + 1) = t
  BY <1>1, <1>2, <1>4, <1>5, ColumnIs
<1> QED BY <1>2, <1>3, <1>6, <1>7, <1>8 DEF x

Target(o) == o.qubits[Len(o.qubits)]

(* The calls of a pair operation are for pairs that differ in its target.  *)
LEMMA CallOfPair ==
  ASSUME NEW o, WellFormed(o), o.name \in PairOperations, NEW it \in Work(o)
  PROVE  /\ Target(o) \in Qubits
         /\ IsPairOf(Target(o), PairCall(o, it).state0, PairCall(o, it).state1)
         /\ PairCall(o, it).ref0 = StateRef(Layout, PairCall(o, it).state0)
         /\ PairCall(o, it).ref1 = StateRef(Layout, PairCall(o, it).state1)
<1> DEFINE q == Target(o)  call == PairCall(o, it)
<1>1. q \in Qubits
  <2>1. PICK k \in 1..2 : o.qubits \in QubitLists(k)
    BY DEF WellFormed, PairOperations
  <2>2. o.qubits \in [1..k -> Qubits]
    BY <2>1 DEF QubitLists, Injection
  <2>3. Len(o.qubits) = k
    BY <2>2
  <2> QED BY <2>2, <2>3 DEF Target
<1>2. TargetMask(o) = Promise!Mask(q) /\ Promise!Mask(q) \in Nat \ {0}
  BY <1>1, BitIsDigit DEF TargetMask, Target
<1>3. it \in Iterations(Mode(o), Layout, TargetMask(o))
  BY DEF Work, PairOperations, StateOperations
<1>4. IsPair(Layout, TargetMask(o), call)
  BY <1>3, TargetSized, CallIsPair DEF PairCall
<1> HIDE DEF call, q
<1>5. /\ call.state0 \in States /\ call.state1 \in States
      /\ call.state1 = call.state0 + Promise!Mask(q)
      /\ Promise!Bit(call.state0, q) = 0
      /\ call.ref0 = StateRef(Layout, call.state0)
      /\ call.ref1 = StateRef(Layout, call.state1)
  BY <1>2, <1>4, SizesNow DEF IsPair, States, Promise!Bit
<1>6. IsPairOf(q, call.state0, call.state1)
  BY <1>1, <1>5, PairsDiffer
<1> QED BY <1>1, <1>5, <1>6 DEF call, q

(* The bit the code tests is the digit at the qubit's place.               *)
LEMMA BitHad ==
  ASSUME NEW q \in Qubits, NEW s
  PROVE  HasBit(s, q) <=> Digit(s, Place(q)) = 1
BY BitIsDigit DEF HasBit, Promise!Bit, Place

(* The matrices recognised are square, of the size of their kernels.       *)
LEMMA GateTypes ==
  /\ 1 \in 0..NumQubits => Hadamard \in SquareMatrices(1) /\ PauliX \in SquareMatrices(1)
  /\ 2 \in 0..NumQubits =>
       /\ ControlledNot \in SquareMatrices(2)
       /\ \A angle \in Amplitude : ControlledPhaseShift(angle) \in SquareMatrices(2)
<1>1. ASSUME 1 \in 0..NumQubits
      PROVE  Hadamard \in SquareMatrices(1) /\ PauliX \in SquareMatrices(1)
  <2>1. Rows(2^1) = 0..1
    BY <1>1, SmallPowers DEF Rows
  <2>2. Minus(0, InvSqrt2) \in Amplitude /\ InvSqrt2 \in Amplitude /\ 0 \in Amplitude /\ 1 \in Amplitude
    BY ArithmeticType DEF InvSqrt2, Amplitude
  <2>3. Hadamard \in SquareMatrices(1)
    BY <2>1, <2>2 DEF Hadamard, Matrix, Rows, SquareMatrices
  <2>4. PauliX \in SquareMatrices(1)
    BY <2>1, <2>2 DEF PauliX, Matrix, Rows, SquareMatrices
  <2> QED BY <2>3, <2>4
<1>2. ASSUME 2 \in 0..NumQubits
      PROVE  /\ ControlledNot \in SquareMatrices(2)
             /\ \A angle \in Amplitude : ControlledPhaseShift(angle) \in SquareMatrices(2)
  <2>1. Rows(2^2) = 0..3
    <3>1. 1 \in 0..NumQubits /\ 2^(1 + 1) = 2 * 2^1
      BY <1>2, SizesAssumption
    <3>2. 2^2 = 4
      BY <3>1, SmallPowers
    <3> QED BY <3>2 DEF Rows
  <2>2. 0 \in Amplitude /\ 1 \in Amplitude
    BY DEF Amplitude
  <2>3. ControlledNot \in SquareMatrices(2)
    BY <2>1, <2>2 DEF ControlledNot, Matrix, Rows, SquareMatrices
  <2>4. ASSUME NEW angle \in Amplitude PROVE ControlledPhaseShift(angle) \in SquareMatrices(2)
    BY <2>1, <2>2 DEF ControlledPhaseShift, Matrix, Rows, SquareMatrices
  <2> QED BY <2>3, <2>4
<1> QED BY <1>1, <1>2

(* What a Hadamard gate makes of a pair: two terms for each state.         *)
LEMMA HadamardPair ==
  ASSUME NEW qs \in QubitLists(1), NEW s, NEW t, IsPairOf(qs[1], s, t), NEW v \in Vectors
  PROVE  /\ v[s] \in Amplitude /\ v[t] \in Amplitude
         /\ Promise!Applied(Hadamard, qs, v)[s] = Times(Plus(v[s], v[t]), InvSqrt2)
         /\ Promise!Applied(Hadamard, qs, v)[t] = Times(Minus(v[s], v[t]), InvSqrt2)
<1>1. s \in States /\ t \in States
  BY DEF IsPairOf
<1>2. 1 \in 0..NumQubits /\ Rows(2^1) = 0..1 /\ Hadamard \in SquareMatrices(1)
  BY OneQubit, GateTypes
<1>3. /\ Hadamard[0][0] = 3 /\ Hadamard[0][1] = 3 /\ Hadamard[1][0] = 3 /\ Hadamard[1][1] = 14
  <2>1. Minus(0, InvSqrt2) = 14
    <3>1. ASSUME NEW a \in 1..16 PROVE Minus(0, a) = 17 - a
      BY DEF Minus
    <3> QED BY <3>1 DEF InvSqrt2
  <2> QED BY <2>1 DEF Hadamard, Matrix, Rows, InvSqrt2
<1>4. v[s] \in Amplitude /\ v[t] \in Amplitude
  BY <1>1 DEF Vectors
<1>5. ASSUME NEW f, f[0] \in Int, f[1] \in Int PROVE SumFunctionOnSet(f, 0..1) = f[0] + f[1]
  <2>1. \A x \in 0..(2 - 1) : f[x] \in Int
    BY <1>5
  <2>2. /\ Prefix(f, 0) = 0
        /\ \A m \in 0..2 : Prefix(f, m) \in Int
        /\ \A m \in 0..(2 - 1) : Prefix(f, m + 1) = f[m] + Prefix(f, m)
    BY <2>1, PrefixStep
  <2>3. Prefix(f, 0 + 1) = f[0] + Prefix(f, 0) /\ Prefix(f, 1 + 1) = f[1] + Prefix(f, 1)
    BY <2>2
  <2>4. Prefix(f, 2) = f[0] + f[1]
    BY <1>5, <2>2, <2>3
  <2> QED BY <2>4 DEF Prefix
<1>6. ASSUME NEW u \in {s, t}
      PROVE  Promise!Applied(Hadamard, qs, v)[u]
               = ((Hadamard[Promise!Row(u, qs)][0] * v[s] + Hadamard[Promise!Row(u, qs)][1] * v[t]) % 17)
  <2> DEFINE f == GateTerms(Hadamard, qs, v, u)
  <2>1. /\ Promise!Applied(Hadamard, qs, v)[u] = (SumFunctionOnSet(f, 0..1) % 17)
        /\ \A col \in 0..1 :
             /\ f[col] = Hadamard[Promise!Row(u, qs)][col] * v[Promise!WithColumn(u, qs, col)]
             /\ f[col] \in Int
    <3> DEFINE R == Rows(2^1)
    <3>1. u \in States
      BY <1>1
    <3>2. Promise!Applied(Hadamard, qs, v)[u] = (SumFunctionOnSet(f, R) % 17)
      <4>1. 1 \in 0..NumQubits /\ Hadamard \in SquareMatrices(1)
        BY <1>2
      <4> QED BY ONLY <3>1, <4>1, AppliedAt, qs \in QubitLists(1), v \in Vectors
    <3>3. ASSUME NEW col \in R
          PROVE  /\ f[col] = Hadamard[Promise!Row(u, qs)][col] * v[Promise!WithColumn(u, qs, col)]
                 /\ f[col] \in Int
      BY <1>2, <3>1, AppliedAt
    <3> HIDE DEF f
    <3> QED BY <1>2, <3>2, <3>3
  <2> HIDE DEF f
  <2>2. Promise!WithColumn(u, qs, 0) = s /\ Promise!WithColumn(u, qs, 1) = t
    BY PairOfOne
  <2>3. f[0] = Hadamard[Promise!Row(u, qs)][0] * v[s] /\ f[1] = Hadamard[Promise!Row(u, qs)][1] * v[t]
    BY <2>1, <2>2
  <2>4. SumFunctionOnSet(f, 0..1) = f[0] + f[1]
    BY <1>5, <2>1
  <2> QED BY <2>1, <2>3, <2>4
<1>7. /\ Promise!Applied(Hadamard, qs, v)[s] = ((3 * v[s] + 3 * v[t]) % 17)
      /\ Promise!Applied(Hadamard, qs, v)[t] = ((3 * v[s] + 14 * v[t]) % 17)
  BY <1>3, <1>6, PairOfOne
<1>8. ASSUME NEW a \in Amplitude, NEW b \in Amplitude
      PROVE  /\ ((3 * a + 3 * b) % 17) = Times(Plus(a, b), InvSqrt2)
             /\ ((3 * a + 14 * b) % 17) = Times(Minus(a, b), InvSqrt2)
  <2>1. (((a + b) % 17) * 3) % 17 = ((3 * a + 3 * b) % 17)
    BY DEF Amplitude
  <2>2. (((a - b) % 17) * 3) % 17 = ((3 * a + 14 * b) % 17)
    BY DEF Amplitude
  <2> QED BY <2>1, <2>2 DEF Times, Plus, Minus, InvSqrt2
<1> QED BY <1>4, <1>7, <1>8

(* One is neutral in the field.                                            *)
LEMMA TimesOne == \A a \in Amplitude : Times(1, a) = a
BY DEF Times, Amplitude

(* The kernels of the recognised gates do to a pair what the matrices do.  *)
LEMMA PauliPair ==
  ASSUME NEW qs \in QubitLists(1), NEW s, NEW t, IsPairOf(qs[1], s, t), NEW v \in Vectors
  PROVE  Promise!Applied(PauliX, qs, v)[s] = v[t] /\ Promise!Applied(PauliX, qs, v)[t] = v[s]
<1>1. s \in States /\ t \in States /\ v[s] \in Amplitude /\ v[t] \in Amplitude
  BY DEF IsPairOf, Vectors
<1>2. 1 \in 0..NumQubits /\ Rows(2^1) = 0..1 /\ PauliX \in SquareMatrices(1)
  BY OneQubit, GateTypes
<1>3. PauliX[0][0] = 0 /\ PauliX[0][1] = 1 /\ PauliX[1][0] = 1 /\ PauliX[1][1] = 0
  BY DEF PauliX, Matrix, Rows
<1>4. /\ Promise!Row(s, qs) = 0 /\ Promise!Row(t, qs) = 1
      /\ Promise!WithColumn(s, qs, 1) = t /\ Promise!WithColumn(t, qs, 0) = s
  BY PairOfOne
<1>5. 0 \in Rows(2^1) /\ 1 \in Rows(2^1) /\ \A c \in Rows(2^1) : c = 0 \/ c = 1
  BY <1>2
<1>6. ASSUME NEW u \in {s, t}, NEW r \in 0..1, Promise!Row(u, qs) = r, NEW col \in 0..1, col = 1 - r
      PROVE  Promise!Applied(PauliX, qs, v)[u] = Times(1, v[Promise!WithColumn(u, qs, col)])
  <2>1. \A c \in Rows(2^1) : c # col => PauliX[Promise!Row(u, qs)][c] = 0
    BY <1>3, <1>5, <1>6
  <2>2. PauliX[Promise!Row(u, qs)][col] = 1 /\ u \in States /\ col \in Rows(2^1)
    BY <1>1, <1>2, <1>3, <1>6
  <2>3. Promise!Applied(PauliX, qs, v)[u]
          = Times(PauliX[Promise!Row(u, qs)][col], v[Promise!WithColumn(u, qs, col)])
    BY <1>2, <2>1, <2>2, OneEntry
  <2> QED BY <2>2, <2>3
<1>7. /\ Promise!Applied(PauliX, qs, v)[s] = Times(1, v[Promise!WithColumn(s, qs, 1)])
      /\ Promise!Applied(PauliX, qs, v)[t] = Times(1, v[Promise!WithColumn(t, qs, 0)])
  BY <1>4, <1>6
<1> QED BY <1>1, <1>4, <1>7, TimesOne

(* A phase shift multiplies the amplitude of the states with both bits.    *)
LEMMA PhasePair ==
  ASSUME NEW qs \in QubitLists(2), NEW s, NEW t, IsPairOf(qs[2], s, t), NEW v \in Vectors,
         NEW angle \in Amplitude
  PROVE  /\ Promise!Applied(ControlledPhaseShift(angle), qs, v)[s] = v[s]
         /\ Promise!Applied(ControlledPhaseShift(angle), qs, v)[t]
              = IF Digit(t, Place(qs[1])) = 1 THEN Times(angle, v[t]) ELSE v[t]
<1> DEFINE x == Digit(s, Place(qs[1]))  gate == ControlledPhaseShift(angle)
<1>1. s \in States /\ t \in States /\ v[s] \in Amplitude /\ v[t] \in Amplitude
  BY DEF IsPairOf, Vectors
<1>2. 2 \in 0..NumQubits /\ Rows(2^2) = 0..3 /\ gate \in SquareMatrices(2)
  BY TwoQubits, GateTypes
<1>3. \A r, c \in 0..3 : gate[r][c] = IF r = c THEN (IF r = 3 THEN angle ELSE 1) ELSE 0
  <2> SUFFICES ASSUME NEW r \in 0..3, NEW c \in 0..3
               PROVE  gate[r][c] = IF r = c THEN (IF r = 3 THEN angle ELSE 1) ELSE 0
    OBVIOUS
  <2>1. gate[r][c] = << <<1, 0, 0, 0>>, <<0, 1, 0, 0>>, <<0, 0, 1, 0>>, <<0, 0, 0, angle>> >>[r + 1][c + 1]
    BY DEF ControlledPhaseShift, Matrix, Rows
  <2>2. (r = 0 \/ r = 1 \/ r = 2 \/ r = 3) /\ (c = 0 \/ c = 1 \/ c = 2 \/ c = 3)
    OBVIOUS
  <2> HIDE DEF gate
  <2> QED BY <2>1, <2>2
<1>4. /\ x \in {0, 1} /\ Digit(t, Place(qs[1])) = x
      /\ Promise!Row(s, qs) = 2 * x /\ Promise!Row(t, qs) = 2 * x + 1
      /\ Promise!WithColumn(s, qs, 2 * x) = s /\ Promise!WithColumn(t, qs, 2 * x + 1) = t
  BY PairOfTwo
<1> HIDE DEF x, gate
<1>5. 2 * x \in 0..3 /\ 2 * x + 1 \in 0..3 /\ 2 * x # 3 /\ (2 * x + 1 = 3 <=> x = 1)
  BY <1>4
<1>6. \A c \in Rows(2^2) : c # 2 * x => gate[Promise!Row(s, qs)][c] = 0
  BY <1>2, <1>3, <1>4, <1>5
<1>7. Promise!Applied(gate, qs, v)[s]
        = Times(gate[Promise!Row(s, qs)][2 * x], v[Promise!WithColumn(s, qs, 2 * x)])
  <2>1. 2 * x \in Rows(2^2)
    BY <1>2, <1>5
  <2> QED BY <1>1, <1>2, <1>6, <2>1, OneEntry
<1>8. \A c \in Rows(2^2) : c # 2 * x + 1 => gate[Promise!Row(t, qs)][c] = 0
  BY <1>2, <1>3, <1>4, <1>5
<1>9. Promise!Applied(gate, qs, v)[t]
        = Times(gate[Promise!Row(t, qs)][2 * x + 1], v[Promise!WithColumn(t, qs, 2 * x + 1)])
  <2>1. 2 * x + 1 \in Rows(2^2)
    BY <1>2, <1>5
  <2> QED BY <1>1, <1>2, <1>8, <2>1, OneEntry
<1>10. /\ gate[Promise!Row(s, qs)][2 * x] = 1
       /\ gate[Promise!Row(t, qs)][2 * x + 1] = IF x = 1 THEN angle ELSE 1
  BY <1>3, <1>4, <1>5
<1> QED BY <1>1, <1>4, <1>7, <1>9, <1>10, TimesOne DEF gate

(* A controlled not swaps the amplitudes of the states with the control.   *)
LEMMA ControlledPair ==
  ASSUME NEW qs \in QubitLists(2), NEW s, NEW t, IsPairOf(qs[2], s, t), NEW v \in Vectors
  PROVE  LET swapped == Digit(s, Place(qs[1])) = 1
         IN /\ Promise!Applied(ControlledNot, qs, v)[s] = IF swapped THEN v[t] ELSE v[s]
            /\ Promise!Applied(ControlledNot, qs, v)[t] = IF swapped THEN v[s] ELSE v[t]
<1> DEFINE x == Digit(s, Place(qs[1]))  gate == ControlledNot
<1>1. s \in States /\ t \in States /\ v[s] \in Amplitude /\ v[t] \in Amplitude
  BY DEF IsPairOf, Vectors
<1>2. 2 \in 0..NumQubits /\ Rows(2^2) = 0..3 /\ gate \in SquareMatrices(2)
  BY TwoQubits, GateTypes
<1>3. \A r, c \in 0..3 : gate[r][c] = IF \/ r < 2 /\ c = r
                                         \/ r >= 2 /\ c = 5 - r THEN 1 ELSE 0
  <2> SUFFICES ASSUME NEW r \in 0..3, NEW c \in 0..3
               PROVE  gate[r][c] = IF \/ r < 2 /\ c = r
                                      \/ r >= 2 /\ c = 5 - r THEN 1 ELSE 0
    OBVIOUS
  <2>1. gate[r][c] = << <<1, 0, 0, 0>>, <<0, 1, 0, 0>>, <<0, 0, 0, 1>>, <<0, 0, 1, 0>> >>[r + 1][c + 1]
    BY DEF ControlledNot, Matrix, Rows
  <2>2. (r = 0 \/ r = 1 \/ r = 2 \/ r = 3) /\ (c = 0 \/ c = 1 \/ c = 2 \/ c = 3)
    OBVIOUS
  <2> HIDE DEF gate
  <2> QED BY <2>1, <2>2
<1>4. /\ x \in {0, 1}
      /\ Promise!Row(s, qs) = 2 * x /\ Promise!Row(t, qs) = 2 * x + 1
      /\ Promise!WithColumn(s, qs, 2 * x) = s /\ Promise!WithColumn(s, qs, 2 * x + 1) = t
      /\ Promise!WithColumn(t, qs, 2 * x) = s /\ Promise!WithColumn(t, qs, 2 * x + 1) = t
  BY PairOfTwo
<1> HIDE DEF x, gate
<1>5. ASSUME NEW u \in {s, t}, NEW r \in 0..3, Promise!Row(u, qs) = r, NEW col \in 0..3,
             col = IF r < 2 THEN r ELSE 5 - r
      PROVE  Promise!Applied(gate, qs, v)[u] = Times(1, v[Promise!WithColumn(u, qs, col)])
  <2>1. \A c \in Rows(2^2) : c # col => gate[Promise!Row(u, qs)][c] = 0
    BY <1>2, <1>3, <1>5
  <2>2. gate[Promise!Row(u, qs)][col] = 1 /\ u \in States /\ col \in Rows(2^2)
    BY <1>1, <1>2, <1>3, <1>5
  <2>3. Promise!Applied(gate, qs, v)[u]
          = Times(gate[Promise!Row(u, qs)][col], v[Promise!WithColumn(u, qs, col)])
    BY <1>2, <2>1, <2>2, OneEntry
  <2> QED BY <2>2, <2>3
<1>6. CASE x = 0
  <2>1. 2 * x = 0 /\ 2 * x + 1 = 1
    BY <1>6
  <2>2. /\ Promise!Applied(gate, qs, v)[s] = Times(1, v[Promise!WithColumn(s, qs, 0)])
        /\ Promise!Applied(gate, qs, v)[t] = Times(1, v[Promise!WithColumn(t, qs, 1)])
    BY <1>4, <1>5, <2>1
  <2> QED BY <1>1, <1>4, <1>6, <2>1, <2>2, TimesOne DEF gate, x
<1>7. CASE x = 1
  <2>1. 2 * x = 2 /\ 2 * x + 1 = 3
    BY <1>7
  <2>2. /\ Promise!Applied(gate, qs, v)[s] = Times(1, v[Promise!WithColumn(s, qs, 3)])
        /\ Promise!Applied(gate, qs, v)[t] = Times(1, v[Promise!WithColumn(t, qs, 2)])
    BY <1>4, <1>5, <2>1
  <2> QED BY <1>1, <1>4, <1>7, <2>1, <2>2, TimesOne DEF gate, x
<1> QED BY <1>4, <1>6, <1>7

(* The body of a pair kernel makes of a pair what the operation promises,  *)
(* and an amplitude it does not report as mutated is one it left alone.    *)
LEMMA KernelOutcome ==
  ASSUME NEW o, WellFormed(o), o.name \in PairOperations, NEW v \in Vectors,
         NEW call, IsPairOf(Target(o), call.state0, call.state1)
  PROVE  LET body == PairBody(o, call, v[call.state0], v[call.state1])
         IN /\ call.state0 \in States /\ call.state1 \in States /\ call.state0 # call.state1
            /\ Promise!Result(o, v)[call.state0] = body.amps[1]
            /\ Promise!Result(o, v)[call.state1] = body.amps[2]
            /\ ~body.first => body.amps[1] = v[call.state0]
            /\ ~body.second => body.amps[2] = v[call.state1]
            /\ body.first => body.second
<1> DEFINE s == call.state0  t == call.state1
           body == PairBody(o, call, v[s], v[t])
<1>1. IsPairOf(Target(o), s, t)
  OBVIOUS
<1>2. s \in States /\ t \in States /\ s # t
  <2>1. Digit(s, Place(Target(o))) # Digit(t, Place(Target(o)))
    BY <1>1 DEF IsPairOf
  <2> QED BY <1>1, <2>1 DEF IsPairOf
<1>3. v[s] \in Amplitude /\ v[t] \in Amplitude
  BY <1>2 DEF Vectors
<1> HIDE DEF s, t
<1>4. /\ ~body.first => body.amps[1] = v[s]
      /\ ~body.second => body.amps[2] = v[t]
      /\ body.first => body.second
  BY DEF PairBody, PairOperations
<1>5. SUFFICES Promise!Result(o, v)[s] = body.amps[1] /\ Promise!Result(o, v)[t] = body.amps[2]
  BY <1>2, <1>4 DEF s, t
<1>6. CASE o.name = "H"
  <2>1. o.qubits \in QubitLists(1)
    BY <1>6 DEF WellFormed
  <2>2. IsPairOf(o.qubits[1], s, t)
    BY <1>1, <2>1, OneQubit DEF Target
  <2>3. Promise!Result(o, v) = Promise!Applied(Hadamard, o.qubits, v)
    BY <1>6, GateOutcomes
  <2>4. /\ Promise!Applied(Hadamard, o.qubits, v)[s] = Times(Plus(v[s], v[t]), InvSqrt2)
        /\ Promise!Applied(Hadamard, o.qubits, v)[t] = Times(Minus(v[s], v[t]), InvSqrt2)
    <3> DEFINE qs == o.qubits
    <3>1. qs \in QubitLists(1) /\ IsPairOf(qs[1], s, t)
      BY <2>1, <2>2
    <3> HIDE DEF qs, body
    <3>2. /\ Promise!Applied(Hadamard, qs, v)[s] = Times(Plus(v[s], v[t]), InvSqrt2)
          /\ Promise!Applied(Hadamard, qs, v)[t] = Times(Minus(v[s], v[t]), InvSqrt2)
      BY <3>1, HadamardPair
    <3> QED BY <3>2 DEF qs
  <2>5. CASE v[s] = 0 /\ v[t] = 0
    <3>1. body.amps[1] = 0 /\ body.amps[2] = 0
      BY <1>6, <2>5 DEF PairBody
    <3>2. Times(Plus(0, 0), InvSqrt2) = 0 /\ Times(Minus(0, 0), InvSqrt2) = 0
      BY DEF Times, Plus, Minus, InvSqrt2
    <3> HIDE DEF body
    <3> QED BY <2>3, <2>4, <2>5, <3>1, <3>2
  <2>6. CASE ~(v[s] = 0 /\ v[t] = 0)
    <3>1. /\ body.amps[1] = Times(Plus(v[s], v[t]), InvSqrt2)
          /\ body.amps[2] = Times(Minus(v[s], v[t]), InvSqrt2)
      BY <1>6, <2>6 DEF PairBody
    <3> HIDE DEF body
    <3> QED BY <2>3, <2>4, <3>1
  <2> QED BY <2>5, <2>6
<1>7. CASE o.name = "X"
  <2>1. o.qubits \in QubitLists(1)
    BY <1>7 DEF WellFormed
  <2>2. IsPairOf(o.qubits[1], s, t)
    BY <1>1, <2>1, OneQubit DEF Target
  <2>3. Promise!Result(o, v) = Promise!Applied(PauliX, o.qubits, v)
    BY <1>7, GateOutcomes
  <2>4. /\ Promise!Applied(PauliX, o.qubits, v)[s] = v[t]
        /\ Promise!Applied(PauliX, o.qubits, v)[t] = v[s]
    <3> DEFINE qs == o.qubits
    <3>1. qs \in QubitLists(1) /\ IsPairOf(qs[1], s, t)
      BY <2>1, <2>2
    <3> HIDE DEF qs, body
    <3>2. Promise!Applied(PauliX, qs, v)[s] = v[t] /\ Promise!Applied(PauliX, qs, v)[t] = v[s]
      BY <3>1, PauliPair
    <3> QED BY <3>2 DEF qs
  <2>5. body.amps[1] = v[t] /\ body.amps[2] = v[s]
    BY <1>7 DEF PairBody
  <2> HIDE DEF body
  <2> QED BY <2>3, <2>4, <2>5
<1>8. CASE o.name = "CP"
  <2>1. o.qubits \in QubitLists(2) /\ o.phase \in Amplitude
    BY <1>8 DEF WellFormed
  <2>2. IsPairOf(o.qubits[2], s, t) /\ o.qubits[1] \in Qubits
    BY <1>1, <2>1, TwoQubits DEF Target
  <2>3. Promise!Result(o, v) = Promise!Applied(ControlledPhaseShift(o.phase), o.qubits, v)
    BY <1>8, GateOutcomes
  <2>4. /\ Promise!Applied(ControlledPhaseShift(o.phase), o.qubits, v)[s] = v[s]
        /\ Promise!Applied(ControlledPhaseShift(o.phase), o.qubits, v)[t]
             = IF Digit(t, Place(o.qubits[1])) = 1 THEN Times(o.phase, v[t]) ELSE v[t]
    <3> DEFINE qs == o.qubits  angle == o.phase
    <3>1. qs \in QubitLists(2) /\ angle \in Amplitude /\ IsPairOf(qs[2], s, t)
      BY <2>1, <2>2
    <3> HIDE DEF qs, angle
    <3>2. /\ Promise!Applied(ControlledPhaseShift(angle), qs, v)[s] = v[s]
          /\ Promise!Applied(ControlledPhaseShift(angle), qs, v)[t]
               = IF Digit(t, Place(qs[1])) = 1 THEN Times(angle, v[t]) ELSE v[t]
      BY <3>1, PhasePair
    <3> QED BY <3>2 DEF qs, angle
  <2>5. HasBit(t, o.qubits[1]) <=> Digit(t, Place(o.qubits[1])) = 1
    BY <2>2, BitHad
  <2>6. Times(o.phase, 0) = 0
    BY <2>1 DEF Times, Amplitude
  <2>7. /\ body.amps[1] = v[s]
        /\ body.amps[2]
             = IF ~HasBit(t, o.qubits[1]) \/ v[t] = 0 THEN v[t] ELSE Times(o.phase, v[t])
    BY <1>8 DEF PairBody, t
  <2> HIDE DEF body
  <2> QED BY <2>3, <2>4, <2>5, <2>6, <2>7
<1>9. CASE o.name = "CNOT"
  <2>1. o.qubits \in QubitLists(2)
    BY <1>9 DEF WellFormed
  <2>2. IsPairOf(o.qubits[2], s, t) /\ o.qubits[1] \in Qubits
    BY <1>1, <2>1, TwoQubits DEF Target
  <2> DEFINE swapped == Digit(s, Place(o.qubits[1])) = 1
  <2>3. Promise!Result(o, v) = Promise!Applied(ControlledNot, o.qubits, v)
    BY <1>9, GateOutcomes
  <2>4. /\ Promise!Applied(ControlledNot, o.qubits, v)[s] = IF swapped THEN v[t] ELSE v[s]
        /\ Promise!Applied(ControlledNot, o.qubits, v)[t] = IF swapped THEN v[s] ELSE v[t]
    <3> DEFINE qs == o.qubits
    <3>1. qs \in QubitLists(2) /\ IsPairOf(qs[2], s, t)
      BY <2>1, <2>2
    <3> HIDE DEF qs
    <3>2. /\ Promise!Applied(ControlledNot, qs, v)[s]
               = IF Digit(s, Place(qs[1])) = 1 THEN v[t] ELSE v[s]
          /\ Promise!Applied(ControlledNot, qs, v)[t]
               = IF Digit(s, Place(qs[1])) = 1 THEN v[s] ELSE v[t]
      BY <3>1, ControlledPair
    <3> QED BY <3>2 DEF qs
  <2>5. HasBit(s, o.qubits[1]) <=> swapped
    BY <2>2, BitHad
  <2>6. /\ body.amps[1] = IF ~HasBit(s, o.qubits[1]) \/ v[s] = v[t] THEN v[s] ELSE v[t]
        /\ body.amps[2] = IF ~HasBit(s, o.qubits[1]) \/ v[s] = v[t] THEN v[t] ELSE v[s]
    BY <1>9 DEF PairBody, s
  <2> HIDE DEF body, swapped
  <2> QED BY <2>3, <2>4, <2>5, <2>6
<1> QED BY <1>6, <1>7, <1>8, <1>9 DEF PairOperations

(* So do the calls of a traversal.                                         *)
LEMMA PairOutcome ==
  ASSUME NEW o, WellFormed(o), o.name \in PairOperations, NEW it \in Work(o), NEW v \in Vectors
  PROVE  LET call == PairCall(o, it)
             body == PairBody(o, call, v[call.state0], v[call.state1])
         IN /\ call.state0 \in States /\ call.state1 \in States /\ call.state0 # call.state1
            /\ Promise!Result(o, v)[call.state0] = body.amps[1]
            /\ Promise!Result(o, v)[call.state1] = body.amps[2]
            /\ ~body.first => body.amps[1] = v[call.state0]
            /\ ~body.second => body.amps[2] = v[call.state1]
            /\ body.first => body.second
<1> DEFINE call == PairCall(o, it)
<1>1. IsPairOf(Target(o), call.state0, call.state1)
  BY CallOfPair
<1> HIDE DEF call
<1>2. LET body == PairBody(o, call, v[call.state0], v[call.state1])
      IN /\ call.state0 \in States /\ call.state1 \in States /\ call.state0 # call.state1
         /\ Promise!Result(o, v)[call.state0] = body.amps[1]
         /\ Promise!Result(o, v)[call.state1] = body.amps[2]
         /\ ~body.first => body.amps[1] = v[call.state0]
         /\ ~body.second => body.amps[2] = v[call.state1]
         /\ body.first => body.second
  BY <1>1, KernelOutcome
<1> QED BY <1>2 DEF call

(* A gate's row for a block's state: the row times the block's amplitudes. *)
LEMMA BlockOutcome ==
  ASSUME NEW o, WellFormed(o), o.name = "Gate", NEW k \in 0..NumQubits, SizedFor(o, k),
         NEW block \in Blocks(k), NEW row \in Rows(2^k), NEW v \in Vectors, NEW amps,
         \A col \in Rows(2^k) : amps[col] = v[BlockState(o.qubits, NumQubits, block, col)]
  PROVE  /\ Promise!Result(o, v)[BlockState(o.qubits, NumQubits, block, row)]
              = NewAmplitude(o.matrix, row, amps)
         /\ (\A col \in Rows(2^k) : amps[col] = 0) =>
              Promise!Result(o, v)[BlockState(o.qubits, NumQubits, block, row)] = 0
<1> DEFINE R == Rows(2^k)  gate == o.matrix  qs == o.qubits
           s == BlockState(qs, NumQubits, block, row)
           f == GateTerms(gate, qs, v, s)
           g == [col \in DOMAIN gate |-> Times(gate[row][col], amps[col])]
<1>1. qs \in QubitLists(k) /\ gate \in SquareMatrices(k) /\ DOMAIN gate = R
  BY DEF SizedFor, SquareMatrices
<1>2. s \in States /\ Promise!Row(s, qs) = row
      /\ \A col \in R : Promise!WithColumn(s, qs, col) = BlockState(qs, NumQubits, block, col)
  BY <1>1, BlockStates, BlockRow, BlockColumn
<1>3. Promise!Result(o, v)[s] = (SumFunctionOnSet(f, R) % 17)
  <2>1. Promise!Result(o, v) = Promise!Applied(gate, qs, v)
    BY GateOutcomes
  <2>2. Promise!Applied(gate, qs, v)[s] = (SumFunctionOnSet(f, R) % 17)
    BY <1>1, <1>2, AppliedAt
  <2> QED BY <2>1, <2>2
<1>4. ASSUME NEW col \in R
      PROVE  /\ f[col] = gate[row][col] * amps[col] /\ f[col] \in Int
             /\ gate[row][col] \in Amplitude /\ amps[col] \in Amplitude
             /\ g[col] = (f[col] % 17) /\ g[col] \in Int
  <2>1. /\ gate[Promise!Row(s, qs)][col] \in Amplitude
        /\ v[Promise!WithColumn(s, qs, col)] \in Amplitude
        /\ f[col] = gate[Promise!Row(s, qs)][col] * v[Promise!WithColumn(s, qs, col)]
        /\ f[col] \in Int
    BY <1>1, <1>2, AppliedAt
  <2>2. f[col] = gate[row][col] * amps[col] /\ gate[row][col] \in Amplitude /\ amps[col] \in Amplitude
    BY <1>2, <2>1
  <2>3. g[col] = ((gate[row][col] * amps[col]) % 17)
    BY <1>1 DEF Times
  <2> HIDE DEF f, g
  <2>4. g[col] = (f[col] % 17)
    BY <2>2, <2>3
  <2> QED BY <2>1, <2>2, <2>4
<1>5. IsFiniteSet(R)
  BY <1>1, <1>2, AppliedAt
<1>6. NewAmplitude(gate, row, amps) = (SumFunctionOnSet(g, R) % 17)
  <2>1. NewAmplitude(gate, row, amps) = Total(g)
    BY DEF NewAmplitude
  <2>2. DOMAIN g = R
    BY <1>1
  <2> HIDE DEF g, R
  <2> QED BY <2>1, <2>2 DEF Total, SumFunction
<1> HIDE DEF f, g, s, R
<1>7. (SumFunctionOnSet(g, R) % 17) = (SumFunctionOnSet(f, R) % 17)
  <2>1. \A col \in R : f[col] \in Int /\ g[col] \in Int /\ (g[col] % 17) = ((1 * f[col] + 0) % 17)
    <3> SUFFICES ASSUME NEW col \in R
                 PROVE  f[col] \in Int /\ g[col] \in Int /\ (g[col] % 17) = ((1 * f[col] + 0) % 17)
      OBVIOUS
    <3>1. f[col] \in Int /\ g[col] \in Int /\ g[col] = (f[col] % 17)
      BY <1>4
    <3> QED BY <3>1
  <2>2. (SumFunctionOnSet(g, R) % 17) = ((1 * SumFunctionOnSet(f, R) + 0 * Cardinality(R)) % 17)
    BY <1>5, <2>1, SumLinear
  <2>3. SumFunctionOnSet(f, R) \in Int
    <3>1. \A col \in R : f[col] \in Int
      BY <1>4
    <3> QED BY <1>5, <3>1, SumType
  <2>4. Cardinality(R) \in Nat
    BY <1>5, FS_CardinalityType
  <2>5. 1 * SumFunctionOnSet(f, R) + 0 * Cardinality(R) = SumFunctionOnSet(f, R)
    BY <2>3, <2>4
  <2> QED BY <2>2, <2>5
<1>8. ASSUME \A col \in R : amps[col] = 0
      PROVE  Promise!Result(o, v)[s] = 0
  <2>1. \A col \in R : f[col] = 0
    <3> SUFFICES ASSUME NEW col \in R PROVE f[col] = 0
      OBVIOUS
    <3>1. f[col] = gate[row][col] * 0 /\ gate[row][col] \in Amplitude
      BY <1>4, <1>8
    <3> QED BY <3>1 DEF Amplitude
  <2>2. row \in R
    BY DEF R
  <2>3. \A x \in R : x # row => f[x] = 0
    BY <2>1
  <2>4. f[row] \in Int
    BY <1>4, <2>2
  <2>5. SumFunctionOnSet(f, R) = f[row]
    BY <1>5, <2>2, <2>3, <2>4, OneTerm
  <2>6. SumFunctionOnSet(f, R) = 0
    BY <2>1, <2>2, <2>5
  <2> QED BY <1>3, <2>6
<1> QED BY <1>3, <1>6, <1>7, <1>8 DEF s, R
===============================================================================
