-------------------------- MODULE CompressedBackend ---------------------------
(***************************************************************************)
(* The compressed storage back end                                         *)
(* (storage/common/compressed_state_backend.h) over its chunk cache.  An   *)
(* operation is a loop; each iteration acquires the chunk or the two       *)
(* chunks it needs, reads amplitudes through the handles, may write them,  *)
(* and after the last iteration the cache is flushed unless a batch is     *)
(* open.  todo holds the loop counters of the iterations left, in          *)
(* lexicographic order.  The codec is lossless; its compress may throw,    *)
(* which ends the operation, except while a back end is initialised.       *)
(***************************************************************************)
EXTENDS PairTraversal, GateBlocks, Measurement, SequencesExt

CONSTANTS
  NumQubits,
  ChunkStates,   \* states per chunk
  CacheSlots,    \* the configured number of cache slots
  Operations,    \* the operations clients call
  Initial,       \* the vectors a behaviour starts from
  MaxOperations, \* bound on the calls of a behaviour
  MaxBatches,    \* bound on the nesting of batches
  ReinitInBatch, \* clients initialise a back end inside a batch
  StoreMayFail,
  MayClone

\* Both codecs refuse a configuration with fewer than two slots.
ASSUME SlotsAssumption == CacheSlots \in Nat \ {0, 1}

VARIABLES
  slots, size, reserved, age, chunkToSlot, store,  \* the cache and the chunks
  first, second, \* handles of the operation's current chunks
  request,       \* the operation the client called, or NoRequest
  op,            \* the operation carried out, Idle between operations
  phase,         \* what its current iteration does next
  todo,          \* the iterations left
  local,         \* amplitudes the operation keeps outside the chunks
  batchDepth,    \* batchDepth_
  open,          \* batches the client began and did not end
  before,        \* the vector when the operation was called
  left           \* calls left to the client

cacheVars == <<slots, size, reserved, age, chunkToSlot, store, first, second>>
opVars == <<request, op, phase, todo, local, before>>
clientVars == <<batchDepth, open, left>>
vars == <<cacheVars, opVars, clientVars>>

-------------------------------------------------------------------------------
(* The chunks and their cache.                                             *)

States == 0..(2^NumQubits - 1)
Layout == [states |-> 2^NumQubits, width |-> ChunkStates]
Chunks == ChunkIndices(Layout)
EffectiveCacheSlots ==
  IF CacheSlots < ChunkCount(Layout) THEN CacheSlots ELSE ChunkCount(Layout)

\* Room for a full chunk; a partial one leaves the rest at 0.
Buffer == [0..(ChunkStates - 1) -> Amplitude]
ZeroBuffer == [k \in 0..(ChunkStates - 1) |-> 0]

Cache == INSTANCE ChunkCache WITH
  NoChunk <- ChunkCount(Layout), Data <- Buffer, Zero <- ZeroBuffer,
  Codec <- [d \in Buffer |-> d], Capacity <- EffectiveCacheSlots,
  MaxHeld <- 2, LoadMayFail <- FALSE

Held(h) == slots[h.slot].buffer

\* exportAmplitudes, and what every other reader of all chunks sees.
Vector ==
  [s \in States |-> LET ref == StateRef(Layout, s)
                    IN Cache!Content[ref.chunk][ref.local]]

\* What sampling knows after some chunks: the state it found, the states and
\* the probability of the chunks it passed.
SampleBegin == [state |-> NoState, base |-> 0, cumulative |-> 0]

ChunkData(chunk) ==
  [k \in 0..(StatesInChunk(Layout, chunk) - 1) |-> Cache!Content[chunk][k]]

\* Slip: every chunk is sampled as if it were the first.
SampleChunkAfresh(rnd, sofar, chunk) ==
  LET found == Sampled(ChunkData(chunk), rnd - sofar.cumulative)
  IN IF sofar.state # NoState THEN sofar
     ELSE [sofar EXCEPT !.state = found, !.cumulative = @ + TotalProbability(ChunkData(chunk))]

SampleChunk(rnd, sofar, chunk) ==
  LET found == Sampled(ChunkData(chunk), rnd - sofar.cumulative)
  IN IF sofar.state # NoState THEN sofar
     ELSE [state |-> IF found = NoState THEN NoState ELSE sofar.base + found,
           base |-> sofar.base + StatesInChunk(Layout, chunk),
           cumulative |-> sofar.cumulative + TotalProbability(ChunkData(chunk))]

\* sampleMeasurement, chunk by chunk, cached or not.
SampleMeasurement(rnd) ==
  FoldLeft(LAMBDA sofar, chunk : SampleChunk(rnd, sofar, chunk), SampleBegin,
           [n \in 1..ChunkCount(Layout) |-> n - 1]).state

ChunksOf(v) ==
  [c \in Chunks |->
     [k \in 0..(ChunkStates - 1) |->
        IF k < StatesInChunk(Layout, c) THEN v[ChunkStateBegin(Layout, c) + k] ELSE 0]]

-------------------------------------------------------------------------------
(* The loops.                                                              *)

Idle == [name |-> "Idle"]
NoRequest == [name |-> "None"]
Nothing == [s \in States |-> 0]
NoAmplitudes == [k \in 0..(2^NumQubits - 1) |-> 0]
PairOperations == {"H", "X", "CP", "CNOT"}
StateOperations == {"PhaseFlip", "SetAmplitude", "InitBasis"}
Initialisations == {"InitBasis", "Load"}

\* Slip: qubit 0 is the least significant bit.
QubitMaskLsb(q) == 2^q

QubitMask(q) == 2^(NumQubits - q - 1)
HasBit(state, q) == (state \div QubitMask(q)) % 2 = 1

TargetMask(o) == QubitMask(o.qubits[Len(o.qubits)])

\* A cache of one slot cannot hold the two chunks of a pair.
Mode(o) ==
  LET mode == SelectMode(Layout, TargetMask(o))
  IN IF mode = "InterChunk" /\ EffectiveCacheSlots < 2 THEN "Fallback" ELSE mode

\* The passes of a gate block and of an inversion: read, then write.
Read == 0
Write == 1

\* Loop counters: those of the pair traversal; <<pass, chunk>> for a loop
\* over chunks; <<block, pass, row>> for the generic gate.
Work(o) ==
  CASE o.name \in PairOperations -> Iterations(Mode(o), Layout, TargetMask(o))
    [] o.name \in StateOperations -> {<<Write>>}
    [] o.name = "Inversion" -> {Read, Write} \X Chunks
    [] o.name \in {"InversionMean", "Affine"} -> {Write} \X Chunks
    [] o.name = "Load" -> {}
    [] o.name = "Gate" -> (0..(NumBlocks(o.qubits, NumQubits) - 1))
                            \X {Read, Write} \X Rows(BlockSize(o.qubits))

PairCall(o, it) == Call(Mode(o), Layout, TargetMask(o), it)

\* Where the iteration's first amplitude, or its whole chunk, lives.
FirstRef(o, it) ==
  CASE o.name \in PairOperations -> PairCall(o, it).ref0
    [] o.name \in StateOperations -> StateRef(Layout, o.state)
    [] o.name \in {"Inversion", "InversionMean", "Affine"} -> [chunk |-> it[2], local |-> 0]
    [] o.name = "Gate" ->
         StateRef(Layout, BlockState(o.qubits, NumQubits, it[1], it[3]))

TwoHandles(o) == o.name \in PairOperations /\ Mode(o) # "IntraChunk"

\* Slip: a chunk-aware traversal never changes its handles.
NextPhaseKeeping(o, rest, handle) ==
  CASE rest = {} -> "finish"
    [] rest # {} /\ o.name \in PairOperations /\ Mode(o) # "Fallback" -> "apply"
    [] OTHER -> "first"

\* Slip: the fallback traversal keeps its first handle as well.
NextPhaseFallback(o, rest, handle) ==
  CASE rest = {} -> "finish"
    [] rest # {} /\ o.name \in PairOperations -> "apply"
    [] OTHER -> "first"

\* A chunk-aware traversal keeps its handles until its chunks change.
NextPhase(o, rest, handle) ==
  CASE rest = {} -> "finish"
    [] rest # {} /\ o.name \in PairOperations /\ Mode(o) # "Fallback"
       /\ handle.chunk = FirstRef(o, Earliest(rest)).chunk -> "apply"
    [] OTHER -> "first"

\* What a pair kernel's body makes of a pair: the new amplitudes, and which
\* of the two it reports as mutated.
PairBody(o, call, a0, a1) ==
  LET none == [first |-> FALSE, second |-> FALSE, amps |-> <<a0, a1>>]
      swapped == [first |-> TRUE, second |-> TRUE, amps |-> <<a1, a0>>]
  IN CASE o.name = "H" ->
            IF a0 = 0 /\ a1 = 0 THEN none
            ELSE [first |-> TRUE, second |-> TRUE,
                  amps |-> <<Times(Plus(a0, a1), InvSqrt2), Times(Minus(a0, a1), InvSqrt2)>>]
       [] o.name = "X" -> IF a0 = a1 THEN none ELSE swapped
       [] o.name = "CP" ->
            IF ~HasBit(call.state1, o.qubits[1]) \/ a1 = 0 THEN none
            ELSE [first |-> FALSE, second |-> TRUE, amps |-> <<a0, Times(o.phase, a1)>>]
       [] o.name = "CNOT" ->
            IF ~HasBit(call.state0, o.qubits[1]) \/ a0 = a1 THEN none ELSE swapped

-------------------------------------------------------------------------------
(* What the callers of a back end see to.                                  *)

Qubits == 0..(NumQubits - 1)
QubitLists(k) == Injection(1..k, Qubits)

\* The register and the gate engine check the qubits and the size of a gate.
GateFits(o) ==
  \E k \in 0..NumQubits :
    /\ o.qubits \in QubitLists(k)
    /\ o.matrix \in [Rows(2^k) -> [Rows(2^k) -> Amplitude]]

WellFormed(o) ==
  CASE o.name \in {"H", "X"} -> o.qubits \in QubitLists(1)
    [] o.name = "CNOT" -> o.qubits \in QubitLists(2)
    [] o.name = "CP"   -> o.qubits \in QubitLists(2) /\ o.phase \in Amplitude
    [] o.name = "PhaseFlip"     -> o.state \in States
    [] o.name = "SetAmplitude"  -> o.state \in States /\ o.value \in Amplitude
    [] o.name = "InitBasis"     -> o.state \in Nat /\ o.value \in Amplitude
    [] o.name = "Load"          -> o.vector \in [States -> Amplitude]
    [] o.name = "Inversion"     -> TRUE
    [] o.name = "InversionMean" -> o.mean \in Amplitude
    [] o.name = "Affine"        -> o.scale \in Amplitude /\ o.bias \in Amplitude
    [] o.name = "Gate"          -> GateFits(o)
    [] OTHER -> FALSE

ASSUME OperationsAssumption == \A o \in Operations : WellFormed(o)
ASSUME InitialAssumption == Initial \subseteq [States -> Amplitude]
ASSUME BoundsAssumption ==
  MaxOperations \in Nat /\ MaxBatches \in Nat /\ StoreMayFail \in BOOLEAN

\* Powers of two double, those of a half are amplitudes, and the greater of
\* two powers of two is a multiple of the lesser.
ASSUME SizesAssumption ==
  /\ NumQubits \in Nat /\ ChunkStates \in Nat \ {0}
  /\ InversePower2(NumQubits) \in Amplitude
  /\ 2^0 = 1 /\ \A n \in 0..NumQubits : 2^(n + 1) = 2 * 2^n
ASSUME MasksAssumption ==
  \A q \in Qubits :
    /\ QubitMask(q) \in Nat \ {0}
    /\ 2^NumQubits % (2 * QubitMask(q)) = 0
    /\ IsPowerOf2(ChunkStates) /\ QubitMask(q) < ChunkStates =>
         ChunkStates % (2 * QubitMask(q)) = 0

-------------------------------------------------------------------------------
(* Steps of an operation.                                                  *)

\* The operation is over; what it kept to itself is gone.
Quit(how) ==
  /\ request' = NoRequest
  /\ op' = Idle
  /\ phase' = how
  /\ todo' = {}
  /\ local' = NoAmplitudes
  /\ before' = Nothing

Leave(how) == Quit(how) /\ UNCHANGED clientVars

AcquireFirst ==
  /\ phase = "first"
  /\ Cache!Acquire(1, FirstRef(op, Earliest(todo)).chunk)
  /\ IF first' = Cache!NoHandle THEN Leave("failed")
     ELSE /\ phase' = IF TwoHandles(op) THEN "second" ELSE "apply"
          /\ UNCHANGED <<request, op, todo, local, before, clientVars>>

AcquireSecond ==
  /\ phase = "second"
  /\ Cache!Acquire(2, PairCall(op, Earliest(todo)).ref1.chunk)
  /\ IF second' = Cache!NoHandle THEN Leave("failed")
     ELSE /\ phase' = "apply"
          /\ UNCHANGED <<request, op, todo, local, before, clientVars>>

\* Slip: the loop does not advance.
EndIterationAgain(skipped) ==
  /\ todo' = todo \ skipped
  /\ phase' = NextPhase(op, todo', first)
  /\ UNCHANGED <<request, op, before, clientVars>>

\* The iteration is over, and those in skipped are not needed any more.
EndIteration(skipped) ==
  /\ todo' = (todo \ {Earliest(todo)}) \ skipped
  /\ phase' = NextPhase(op, todo', first)
  /\ UNCHANGED <<request, op, before, clientVars>>

\* A pair in two chunks is written through its second handle in a step of
\* its own; nothing happens between the two.
ApplyPair ==
  /\ phase = "apply"
  /\ op.name \in PairOperations
  /\ LET call == PairCall(op, Earliest(todo))
         one == call.ref0.chunk = call.ref1.chunk
         h1 == IF one THEN first ELSE second
         body == PairBody(op, call, Held(first)[call.ref0.local], Held(h1)[call.ref1.local])
     IN \/ /\ ~body.first /\ ~body.second
           /\ UNCHANGED <<cacheVars, local>>
           /\ EndIteration({})
        \/ /\ one /\ body.second
           /\ Cache!WriteThrough(first,
                [Held(first) EXCEPT ![call.ref0.local] = body.amps[1],
                                    ![call.ref1.local] = body.amps[2]])
           /\ local' = local
           /\ EndIteration({})
        \/ /\ ~one /\ body.first
           /\ Cache!WriteThrough(first, [Held(first) EXCEPT ![call.ref0.local] = body.amps[1]])
           /\ local' = [local EXCEPT ![0] = body.amps[2]]
           /\ phase' = "write second"
           /\ UNCHANGED <<request, op, todo, before, clientVars>>
        \/ /\ ~one /\ ~body.first /\ body.second
           /\ local' = [local EXCEPT ![0] = body.amps[2]]
           /\ phase' = "write second"
           /\ UNCHANGED <<cacheVars, request, op, todo, before, clientVars>>

WriteSecond ==
  /\ phase = "write second"
  /\ LET ref == PairCall(op, Earliest(todo)).ref1
     IN Cache!WriteThrough(second, [Held(second) EXCEPT ![ref.local] = local[0]])
  /\ local' = local
  /\ EndIteration({})

\* phaseFlipBasisState, and writeAmplitudeMutable for the two others.
ApplyToState ==
  /\ phase = "apply"
  /\ op.name \in StateOperations
  /\ LET k == FirstRef(op, Earliest(todo)).local
     IN Cache!WriteThrough(first,
          [Held(first) EXCEPT ![k] = IF op.name = "PhaseFlip" THEN Minus(0, @) ELSE op.value])
  /\ local' = local
  /\ EndIteration({})

\* The first pass of inversionAboutMean adds up the amplitudes.
SumChunk ==
  /\ phase = "apply"
  /\ op.name = "Inversion" /\ Earliest(todo)[1] = Read
  /\ LET chunk == Earliest(todo)[2]
     IN local' = [local EXCEPT ![0] =
          Plus(@, Total([k \in 0..(StatesInChunk(Layout, chunk) - 1) |-> Held(first)[k]]))]
  /\ UNCHANGED cacheVars
  /\ EndIteration({})

\* applyInversionAboutMeanWithMean and applyAffineTransform rewrite a chunk.
NewValue(a) ==
  CASE op.name = "Inversion" ->
         Minus(2 * Times(local[0], InversePower2(NumQubits)), a)
    [] op.name = "InversionMean" -> Minus(2 * op.mean, a)
    [] op.name = "Affine" -> Plus(Times(op.scale, a), op.bias)

ApplyToChunk ==
  /\ phase = "apply"
  /\ op.name \in {"Inversion", "InversionMean", "Affine"} /\ Earliest(todo)[1] = Write
  /\ LET count == StatesInChunk(Layout, Earliest(todo)[2])
     IN Cache!WriteThrough(first,
          [k \in DOMAIN Held(first) |->
             IF k < count THEN NewValue(Held(first)[k]) ELSE Held(first)[k]])
  /\ local' = local
  /\ EndIteration({})

\* The generic engine reads a block, skips it if it is zero, and writes it
\* back row by row, each row through an acquire of its own.
LoadAmplitude ==
  /\ phase = "apply"
  /\ op.name = "Gate" /\ Earliest(todo)[2] = Read
  /\ LET it == Earliest(todo)
         rows == Rows(BlockSize(op.qubits))
         lastRow == it[3] = BlockSize(op.qubits) - 1
     IN /\ local' = [local EXCEPT ![it[3]] = Held(first)[FirstRef(op, it).local]]
        /\ EndIteration(IF lastRow /\ \A row \in rows : local'[row] = 0
                        THEN {it[1]} \X {Write} \X rows ELSE {})
  /\ UNCHANGED cacheVars

StoreAmplitude ==
  /\ phase = "apply"
  /\ op.name = "Gate" /\ Earliest(todo)[2] = Write
  /\ LET it == Earliest(todo)
     IN Cache!WriteThrough(first,
          [Held(first) EXCEPT ![FirstRef(op, it).local] = NewAmplitude(op.matrix, it[3], local)])
  /\ local' = local
  /\ EndIteration({})

\* A flush that ends early throws.
HowFlushed(n) == IF n = size THEN "idle" ELSE "failed"

\* Slip: the cache is not flushed.
FinishWithoutFlush ==
  /\ phase = "finish"
  /\ Cache!DropHandles
  /\ Leave("idle")
  /\ UNCHANGED <<slots, size, reserved, age, chunkToSlot, store>>

\* Slip: a flush that threw passes for one that did not.
FinishSwallowing ==
  /\ phase = "finish"
  /\ \/ /\ batchDepth > 0
        /\ Cache!DropHandles
        /\ Leave("idle")
        /\ UNCHANGED <<slots, size, reserved, age, chunkToSlot, store>>
     \/ /\ batchDepth = 0
        /\ \E n \in 0..size : Cache!FlushUpTo(n) /\ Leave("idle")

\* flushCacheIfNeeded; the handles go out of scope with the operation.
Finish ==
  /\ phase = "finish"
  /\ \/ /\ batchDepth > 0
        /\ Cache!DropHandles
        /\ Leave("idle")
        /\ UNCHANGED <<slots, size, reserved, age, chunkToSlot, store>>
     \/ /\ batchDepth = 0
        /\ \E n \in 0..size : Cache!FlushUpTo(n) /\ Leave(HowFlushed(n))

-------------------------------------------------------------------------------
(* Calls.                                                                  *)

Start(o) ==
  /\ op = Idle
  /\ left > 0
  /\ left' = left - 1
  /\ o.name \in Initialisations => ReinitInBatch \/ open = 0
  /\ request' = o
  /\ op' = IF o.name = "Gate" THEN Dispatched(o) ELSE o
  /\ todo' = Work(op')
  /\ phase' = IF o.name \in Initialisations THEN "configure" ELSE "first"
  /\ before' = Vector
  /\ UNCHANGED <<cacheVars, local, batchDepth, open>>

\* loadAmplitudes and initUniformSuperposition.  configureStorage forgets
\* the batches of the client.
Load ==
  /\ phase = "configure"
  /\ op.name = "Load"
  /\ Cache!Configure(ChunksOf(op.vector))
  /\ batchDepth' = 0
  /\ UNCHANGED <<open, left>>
  /\ Quit("idle")

\* initBasis zeroes the storage before it looks at its argument.
InitBasis ==
  /\ phase = "configure"
  /\ op.name = "InitBasis"
  /\ Cache!Configure([c \in Chunks |-> ZeroBuffer])
  /\ batchDepth' = 0
  /\ UNCHANGED <<open, left>>
  /\ IF op.state \in States
     THEN phase' = "first" /\ UNCHANGED <<request, op, todo, local, before>>
     ELSE Quit("failed")

\* amplitude: a state in no cached chunk is read through an acquire.
Query(s) ==
  /\ op = Idle
  /\ left > 0
  /\ left' = left - 1
  /\ LET chunk == StateRef(Layout, s).chunk
     IN /\ chunkToSlot[chunk] = Cache!NoSlot
        /\ Cache!Acquire(1, chunk)
  /\ phase' = IF first' = Cache!NoHandle THEN "failed" ELSE phase
  /\ UNCHANGED <<request, op, todo, local, before, batchDepth, open>>

\* Slip: a batch counts twice.
BeginBatchTwice ==
  /\ op = Idle
  /\ open < MaxBatches
  /\ open' = open + 1
  /\ batchDepth' = batchDepth + 2
  /\ UNCHANGED <<cacheVars, opVars, left>>

BeginBatch ==
  /\ op = Idle
  /\ open < MaxBatches
  /\ open' = open + 1
  /\ batchDepth' = batchDepth + 1
  /\ UNCHANGED <<cacheVars, opVars, left>>

\* Slip: the end of any batch ends them all.
EndBatches ==
  /\ op = Idle
  /\ open > 0
  /\ open' = open - 1
  /\ batchDepth' = 0
  /\ \E n \in 0..size : Cache!FlushUpTo(n) /\ phase' = HowFlushed(n)
  /\ UNCHANGED <<request, op, todo, local, before, left>>

EndBatch ==
  /\ op = Idle
  /\ open > 0
  /\ open' = open - 1
  /\ \/ /\ batchDepth = 0    \* throws
        /\ phase' = "failed"
        /\ UNCHANGED <<cacheVars, batchDepth>>
     \/ /\ batchDepth > 1
        /\ batchDepth' = batchDepth - 1
        /\ UNCHANGED <<cacheVars, phase>>
     \/ /\ batchDepth = 1
        /\ batchDepth' = 0
        /\ \E n \in 0..size : Cache!FlushUpTo(n) /\ phase' = HowFlushed(n)
  /\ UNCHANGED <<request, op, todo, local, before, left>>

\* A copy takes the place of the back end; BackendParity has clients that copy.
Clone ==
  /\ op = Idle
  /\ Cache!Clone
  /\ UNCHANGED <<opVars, clientVars>>

Step ==
  \/ AcquireFirst \/ AcquireSecond
  \/ ApplyPair \/ WriteSecond
  \/ ApplyToState
  \/ SumChunk \/ ApplyToChunk
  \/ LoadAmplitude \/ StoreAmplitude
  \/ Finish
  \/ Load \/ InitBasis

-------------------------------------------------------------------------------
Init ==
  /\ \E v \in Initial : store = ChunksOf(v)
  /\ slots = [s \in 1..EffectiveCacheSlots |-> Cache!EmptySlot]
  /\ size = 0
  /\ reserved = EffectiveCacheSlots
  /\ age = [s \in 1..EffectiveCacheSlots |-> s - 1]
  /\ chunkToSlot = [c \in Chunks |-> Cache!NoSlot]
  /\ first = Cache!NoHandle /\ second = Cache!NoHandle
  /\ request = NoRequest /\ op = Idle /\ phase = "idle" /\ todo = {}
  /\ local = NoAmplitudes /\ before = Nothing
  /\ batchDepth = 0 /\ open = 0 /\ left = MaxOperations

Next ==
  \/ Step
  \/ \E o \in Operations : Start(o)
  \/ \E s \in States : Query(s)
  \/ BeginBatch \/ EndBatch

Spec == Init /\ [][Next]_vars /\ WF_vars(Step)

-------------------------------------------------------------------------------
(* Type invariant. *)
TypeOK ==
  /\ Cache!TypeOK
  /\ request \in Operations \cup {NoRequest}
  /\ op = CASE request = NoRequest -> Idle
            [] request.name = "Gate" -> Dispatched(request)
            [] OTHER -> request
  /\ phase \in {"idle", "failed", "configure", "first", "second", "apply", "write second", "finish"}
  /\ op = Idle <=> phase \in {"idle", "failed"}
  /\ op # Idle => todo \subseteq Work(op)
  /\ todo = {} <=> phase \in {"idle", "failed", "finish"} \/ op.name = "Load"
  /\ local \in [0..(2^NumQubits - 1) -> Amplitude]
  /\ before \in [States -> Amplitude]
  /\ batchDepth \in 0..MaxBatches
  /\ open \in 0..MaxBatches
  /\ left \in 0..MaxOperations

(* When an operation reads or writes amplitudes, the handles it uses are   *)
(* those of the chunks its current pair lives in, and these chunks are     *)
(* still in the slots the handles name: the handles a chunk-aware          *)
(* traversal keeps from one pair to the next never go stale.               *)
HandlesFit ==
  phase \in {"apply", "write second"} =>
    LET it == Earliest(todo)
        Fits(h, c) == h.chunk = c /\ slots[h.slot].chunk = c /\ chunkToSlot[c] = h.slot
    IN /\ Fits(first, FirstRef(op, it).chunk)
       /\ TwoHandles(op) => Fits(second, PairCall(op, it).ref1.chunk)

(* Between operations, unless a batch is open or the last call threw, the  *)
(* compressed chunks are the state: no slot holds unsaved amplitudes.      *)
FlushedBetweenOperations ==
  phase = "idle" /\ batchDepth = 0 =>
    /\ \A s \in 1..size : ~slots[s].dirty
    /\ \A c \in Chunks : Cache!Content[c] = store[c]

(* A sample yields the state that the dense back end's loop over the whole *)
(* vector yields for it, or throws with it: in and out of batches, from    *)
(* cached and from compressed chunks.  Only a sample of 0 can yield a      *)
(* state of probability 0, and then it yields state 0.                     *)
SamplesAgree ==
  op = Idle =>
    \A rnd \in Samples(Vector) :
      LET state == SampleMeasurement(rnd)
      IN /\ state = Sampled(Vector, rnd)
         /\ state \in States /\ Vector[state] = 0 => rnd = 0 /\ state = 0

(* The back end counts the batches its client has open, so the call that   *)
(* ends a batch never throws.                                              *)
BatchesCounted == batchDepth = open

(* An operation that was called returns or throws.                         *)
OperationsEnd == op # Idle ~> op = Idle

Promise == INSTANCE StateVector WITH
  psi <- IF op = Idle THEN Vector ELSE before,
  MayThrow <- StoreMayFail

(* The back end implements the state vector: whatever the layout, the      *)
(* cache and the batches do, an operation acts on the vector as its matrix *)
(* does, and nothing else changes the vector.                              *)
ImplementsStateVector == Promise!Spec
===============================================================================
