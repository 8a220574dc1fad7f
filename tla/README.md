# A verification of TMFQS in TLA+

TMFQS is a sequential state-vector quantum simulator in C++17. A register of n
qubits is a vector of 2^n complex amplitudes; gates are linear maps on it. The
vector is stored densely or cut into chunks that are kept compressed by Blosc or
ZFP and decompressed into a small LRU cache while gates work on them. What makes
the program hard to test is in that second form: handles into a cache that evicts,
deferred write-back in batches, codecs that throw or lose bits, traversals specialised
to the chunk geometry, and, above the storage, an affine transform and a sum that the
register keeps lazily.

Paths below are relative to the repository (`src/` of the workspace). Headers are
under `include/tmfqs/`, sources under `src/tmfqs/`.

## Inventory

| component | state | operations | interacts with | hard behaviour | correct when |
|---|---|---|---|---|---|
| chunk cache `storage/common/chunk_cache.h` | slots (chunk, buffer, dirty, touch), reverse table, capacity | configure, acquire, findBuffer, flushAll, copy | load and store callbacks of the back end, which call the codec and may throw | handles into slots that may be evicted or moved; two places to update around a callback | it is a memory of chunks |
| chunk layout, pair traversal `chunk_layout.h`, `pair_kernel_executor.h` | none | stateRef, selectMode, three loop nests | called by both back ends | partial chunks, any width, strides | each pair of a target bit is visited once, at its place |
| gate block engine `gate_block_apply.h`, `gate_apply_engine.h` | scratch buffers | applyGateByBlocks | load and store callbacks | qubit order, blocks left out when zero | a block is multiplied by the gate |
| gates `gates/quantum_gate.cpp` | matrices | constructors, recognition in the compressed back end | | a recognised gate takes another path | both paths agree |
| compressed back end `compressed_state_backend.h` | compressed chunks, cache, batch depth | init, load, query, gates, flips, inversion, batches, clone | cache, layout, traversals, block engine, codec | each operation is a loop of acquires; exceptions part way; batches | it implements a state vector |
| dense back end `storage/dense/` | one array | the same interface | traversal, block engine | initialisation that clears before it validates | it agrees with the compressed one |
| register `register/quantum_register.cpp` | back end, affine overlay, cached sum | the public gate and amplitude operations, copy, measure | one back end | lazy overlay and incrementally updated sum, exceptions | readers see the logical vector |
| codecs `storage/blosc`, `storage/zfp` | streams, contexts and scratch buffers kept from call to call, thread counts, a super-chunk | construction, copies, compress, decompress, super-chunk calls | called by the compressed back end; call Blosc2 and ZFP | any library call may fail; a failed parallel run is repeated; what is kept must fit the next call | a load yields what was stored, or throws |
| registry, factory `storage/factory` | none | resolve, isAvailable, createSelection | builds back ends | sizes that wrap around | Auto always finds a back end, dense for small registers |
| quantum state `state/quantum_state.cpp` | one of five kinds of value | materialize, amplitude, measure, load | registers | the kinds must describe one vector | its views agree |
| simulator `sim/simulator.cpp` | a register during a run | run | circuit, state, register, batch | an exception inside the batch | the initial state is untouched and the batch closed |
| circuits `circuit/circuit.cpp` | a list of operations | appendQft, appendGrover | executed by the simulator | iteration counts, bit order | the list builds the transform |
| measurement, random source `core/random.*` | generator | measure, sampleMeasurement | all vector holders | cumulative rounding, a sample of 0 | sampling chunk by chunk is sampling the vector; a state of probability 0 is measured for a sample of 0 only, and is state 0 |
| state space, validation `core/*.h` | none | checkedStateCount, validate* | everyone | 32-bit counts beside 64-bit indices | every accepted size is represented |
| report, comparison, examples, benchmarks, scripts | | | | | not modelled |

Nothing in the library runs concurrently (threads exist only inside the codecs'
libraries), so the actors whose steps interleave are the client, which may call
anything next, a client's open batch, the codec, which may throw at any call, and the
copies of a back end.

## Modules

```
ChunkStore <--implements-- ChunkCache <--INSTANCE-- CompressedBackend --implements--> StateVector
                              ^                       |      |     ^                   ^      |
                       ChunkCacheProofs    PairTraversal     |     |           implements  INSTANCE
                                                  |     GateBlocks |                   |      v
                       PairKernel ----> ChunkLayout         ^      |            QuantumRegister
                                                  DenseBackend     |                   ^
                                                      ^            |                   | INSTANCE
                                                 BackendParity ----+   Circuits -> Simulation -> QuantumState
```

```
CodedChunks <--implements-- CodecStorage --INSTANCE--> ZfpCodec, BloscCodec --> CodecCalls
                                 |
                          StorageStrategy
```

An arrow without a word is EXTENDS. All modules of the first diagram use Amplitudes, most of them Gates; CompressedBackend, DenseBackend's
array and QuantumState are sampled with the operators of Measurement.

```
OperatorTheorems <- PairKernelProofs
        ^  ^   ^
        |  |   CompressedBackendProofs --INSTANCE--> ChunkCacheProofs
        |  |        ^
        |  |        BackendRefinement -> BackendParity
        |  QuantumRegisterProofs <--INSTANCE-- SimulationProofs
        SimulationProofs                                                 CodecStorageProofs
```

A module named after another with Proofs at its end extends that one, and proves its properties. OperatorTheorems has the
facts about quotients, bits, folds, sums and the traversals of pairs that the proofs share; BackendRefinement is the refinement of StateVector by CompressedBackend, and what follows for the dense back end (what an operation
makes of one amplitude is the last part of CompressedBackendProofs). What is proved of a part
is used where the part is: CompressedBackendProofs takes each step of the cache from ChunkCacheProofs, SimulationProofs each call of the register from QuantumRegisterProofs, once it has proved
that their assumptions hold there (`CacheFits`, `MachineAssumptions`).

* **ChunkStore** is what the cache promises: a chunk holds what was last written,
  except that the codec may round it once per write; nothing but a write or a reset changes a chunk. `ImplementsChunkStore` also says which steps of the
  cache these are: writes those through a handle, resets those of `configureStorage`; an acquire, an eviction or a flush at most settles what is stored.
* **ChunkCache** is `ChunkCache`, one action per branch of `acquire` (hit, room left,
  eviction, a store that throws), `flushAll` up to the slot whose store throws, writes
  through a handle, `configureStorage` and the defaulted copy. A slot's touch counter is
  kept as the number of slots touched later, which is all that the eviction compares, so
  the state space is finite without a bound on the counter. `reserved` is the capacity of the vector `slots_`;
  whether `push_back` moves the slots, and so whether the dirty pointer of a handle still points into them
  (`marks`), follows from it. Data pointers survive a move, as the slots' own buffers are moved.
* **ChunkLayout**, **PairTraversal** are pure: the loop nests of
  `PairKernelExecutor` as sets of counter tuples in lexicographic order, and the arguments of each call.
  **PairKernel** is one traversal, call by call.
* **Amplitudes**, **Gates**, **GateBlocks**: arithmetic, matrices, and the blocks of the generic engine.
* **StateVector** is the promise of `IStateBackend`: each operation's effect on the whole vector,
  by linear algebra over all states rather than by pairs, blocks or chunks.
* **CompressedBackend** is `CompressedStateBackend`. A call (`Start`) sets the loop counters of the operation;
  each iteration acquires its chunk or chunks through the actions of ChunkCache,
  then reads and writes amplitudes through the handles, and the operation ends in `Finish`,
  which flushes unless a batch is open. A compress may throw in any acquire that evicts and in any flush.
* **QuantumRegister** is `QuantumRegister` over a back end that is a StateVector; a back end call may throw having acted on a part
  of the vector, in any of the ways StateVector lets it.
  Inversions take the lazy or the materialised path, as the client asks.
* **DenseBackend** is `DenseStateBackend`: each operation is one step that folds its loops over the array: over the runs of states whose qubit is 0
  and the offsets in each, as the executor's fallback without chunks does, or block by block through GateBlocks for a matrix. **BackendParity** makes the same calls on it and on
  CompressedBackend.
* **Measurement** is sampling as the dense back end does it, on a whole vector; CompressedBackend has its own loop over chunks (`SampleMeasurement`), and
  QuantumState the register's and the states' ways of measuring. A sample is any number: the random engine may yield each.
* **CodecCalls** is a call of a codec, which begins, runs the library and returns or throws, and what it does to the bytes of a chunk. **ZfpCodec** and **BloscCodec** are the
  two classes: a record of what an object keeps between calls, and an action per stage of a call. In ZfpCodec a bitstream knows whether it still lies over the scratch buffer (`over`);
  a stream has a mode and a number of dimensions; encoded bytes remember the parameters they were encoded with, which real ones do not, so that decoding with others shows (`Garbled`).
  BloscCodec also has the super-chunk; `blosc_codec.h:17` says that the Blosc back end uses it, but the back end keeps independent chunks
  and calls compress and decompress only, so the super-chunk has clients of its own in the model. A Blosc codec also has a history variable, `had`: the configurations it had since its contexts
  were last dropped, which no call looks at.
* **StorageStrategy** is the registry: the resolution of Auto, availability, and the sizes it computes, in integers of constant width.
* **CodecStorage** makes back ends of one strategy and lets clients initialise them chunk by chunk, store, load, copy and assign, each a call of the codec in which every library call may fail.
  **CodedChunks** is what it promises: a load yields what was stored since the last initialisation, or throws; a store changes its own chunk; and a call that throws changes nothing, save that an assignment to a super-chunk may leave its target
  without any chunks, as `cloneFrom` drops the half it copied. `ImplementsCodedChunks` says which step of the model is which of these (`StepsKeepPromise`).
* **Circuits** holds what `makeQft` and `makeGrover` build, and the prefix that an `appendGrover` that throws leaves.
  **QuantumState** holds the kinds of state, their constructors and readers as operators on a record with the fields of `Impl`.
* **Simulation** is a client with one state, who sets amplitudes and runs circuits. A run makes a register of the state (a copy, with
  overlay and sum, if the state holds one), opens a batch, and calls the register (the actions of QuantumRegister) operation by operation;
  the register becomes the new state. An operation may throw, as may the flush at the end; the handler's second `endOperationBatch` then meets an open or a closed batch.
* **MC** modules hold the small instances; operators whose comment starts with "Slip" are deliberately wrong variants of
  the definition that follows them, kept to show that a property depends on that definition; no specification uses them.

### Amplitudes in a finite field

Amplitudes are elements of the field of 17 elements. The entries of the repository's standard gates are in
the ring generated by i, 1/sqrt(2) and roots of unity, here up to the sixteenth (the angles of a Fourier transform on four qubits), and there is a ring homomorphism
from it onto GF(17) (i to 4, 1/sqrt(2) to 3, exp(i pi/8) to 7; `FieldOfAmplitudes` is evaluated by TLC). Exact arithmetic in the ring therefore
maps to arithmetic modulo 17. An identity between amplitudes that holds in the ring holds in the
field, and a wrong pair, sign, row or offset shows as an inequality, because the amplitudes and matrices
of the instances are chosen pairwise different. Rounding of doubles is out of scope, and so is anything that compares magnitudes, save that Grover's amplitudes are also computed as scaled integers, exactly (`GroverAmplifies`).
Multiplying by 1/2^n is the mean's division.

## What is checked

| run | instance | shows |
|---|---|---|
| `cache_coherent` | 4 chunks, 2 slots, 2 handles, a codec that loses in every round trip, compress may throw | type invariant, `SlotsMatchTable`, `CleanIsStored`, `HeldStaysResident`, refinement of ChunkStore: chunks change by writes through handles alone, no flush loses one, and a written chunk is rounded at most once |
| `codecs` | 2 owners with chunks of 64 and 16 doubles, either codec, 4 calls, or a super-chunk, 6 calls, any library call failing; requests of 1 to 8 qubits with integers of 8 and 4 bits | `StreamsFit`: no stale bitstream, stream or buffer is used; `ContextsFit`: chunks are encoded under the codec's own configuration, a super-chunk's under one it had; refinement of CodedChunks; `CallsEnd`; `SelectionFits` |
| `pair_kernel` | 1 to 4 qubits, every width up to one more than the register, every qubit | each pair once, at its place; chunks in one stretch of calls each |
| `backend_paired` | 3 qubits, 4 chunks of 2 states, 2 slots, a batch, every operation | `HandlesFit`, `FlushedBetweenOperations`, refinement of StateVector, every operation ends |
| `backend_faults` | 3 qubits, chunks of 3, 3 and 2 states, 2 slots, nested batches, compress may throw | the same; batches counted; a call that throws leaves no half pair; `SamplesAgree`: sampling chunk by chunk is sampling the vector |
| `backends_agree` | 3 qubits in one chunk, copies, initialisation inside batches, the same calls on the dense back end | both back ends hold the same vector between operations; both are StateVectors; copying such a back end, and initialising it in a batch, does not disturb the vector |
| `register` | 2 qubits, three calls of thirteen, back end calls may throw half way | type invariant with scale 1 or -1, `SumRecovers`, refinement of StateVector by every call that returns |
| `simulation` | 4 qubits, a state of each kind, two calls: updates and runs of five circuits | `ViewsAgree` (amplitudes, export, total probability, measurement), `ActsOnVector` (whole circuits or nothing), `QftIsFourier`, `GroverRotates`, `GroverAmplifies`, `BatchClosed`, every run ends |

Bounds, all named CONSTANTS. `MaxOperations` and `MaxCalls` bound the calls of a behaviour (2 or 3): the back end is checked to keep no memory of
an operation once it is over other than the cache, so two calls reach the interesting states (a second operation over a cache warmed, and in a batch dirtied, by the first).
`MaxBatches` bounds the nesting: 2 has an outer, an inner and no batch. Two slots are the fewest the codecs' `validateConfig` accepts (`SlotsAssumption`), and the
fewest at which a pair can evict; with four chunks every pair of chunks competes for them. Chunks of 3 states in a register of 8 make the fallback
traversal and a partial chunk. Four qubits are the fewest at which the Fourier transform has three different angles and Grover's search three iterations; two runs let the second start
from the overlay, the sum and the register of the first. In `codecs`, four calls reach an initialisation, two calls of the codec that leave something behind (a scratch buffer grown by a larger chunk, a stream of another mode, a thread count lowered by a retry)
and a call that meets it; six calls of a super-chunk's client (`MaxSuperChunkCalls`) reach a context made by a write, an assignment that throws before it drops it, and the next write, which uses it;
a chunk of 64 doubles is the smallest ZFP field of two dimensions, one of 16 has one dimension. Integers of 8 and 4 bits stand for size_t and unsigned int,
so that registers of 4 qubits and more overflow the count and the estimated bytes, as those of 32 and of 60 do in the code.
The chunks of the cache instances are symmetric: no operator tells one from another.
`CHECK_DEADLOCK FALSE` is used where a client may stop after its last call; ChunkCache and PairKernel are checked for deadlock.

Fairness: `WF_vars(Step)` in CompressedBackend, CodecStorage and Simulation and `WF(CallBody)` in PairKernel. The code is a loop on one thread, which runs on as long as it can;
nothing is assumed about the client or about whether the codec throws. `OperationsEnd`, `CallsEnd`, `RunsEnd` and `EveryPairVisited` rest on it.

### Violations found

| run | what the code does |
|---|---|
| `cache_copied` | a copied back end has a cache without reserve: while a pair is acquired the slots may move under the first handle, its dirty mark goes astray and its amplitudes are lost (`compressed_state_backend.h:336`, `chunk_cache.h:57, 102`). It takes a copy made while the cache is not full, such as the copy `Simulator::run` makes of a state that holds a register. |
| `cache_load_fails` | after a decompress that throws, a slot names a chunk that is not mapped to it (`chunk_cache.h:109`); its eviction unmaps the chunk from the slot a retry loaded it into (line 187), and readers miss what is written there. No hit is for a wrong chunk all the same (theorem `HitsAreRight`). |
| `backend_reinit` | initialising a compressed back end inside a batch resets the batch depth, and the end of the batch throws (`compressed_state_backend.h:265`) |
| `register_throws` | after an inversion, an amplitude update that throws once the amplitude is stored (a flush after it may) leaves the cached sum of the vector before (`quantum_register.cpp:317`); gates forget the sum as late (401, 477), and a materialised inversion adjusts it before the back end is called (459) |

## What is proved

`ChunkCacheProofs`, checked by TLAPS, for every finite or infinite set of chunks, every capacity and every set of values:

* `TypeCorrect`: the type invariant. It is not inductive alone: that an eviction finds an oldest slot needs `AgesCover`, every
  age below the capacity is some slot's, which each touch preserves (`TouchedType`).
* `HitsAreRight`: a chunk in the table is in the slot the table names (`HitIsRight`, half of `SlotsMatchTable`), with no assumption about faults or copies: where loads fail the other half is lost (`cache_load_fails`), this one is not.
  It is inductive together with the type invariant.
* `CacheCoherent`: `SlotsMatchTable`, `CleanIsStored` and `HeldStaysResident`, if `Careful`: decompress does not throw, and a cache that may be copied hands out one handle at a time.
  The runs `cache_load_fails` and `cache_copied` show that neither condition can be dropped. The inductive invariant `Coherent` adds
  `HandlesMark` (a held handle's slot is in use and its dirty pointer good), `FirstIsNewest` (between the two acquires of a pair the first chunk is the newest, so it is not evicted: this is what makes LRU safe for pairs) and
  `RoomReserved` (a cache that is not copied never reallocates).
* `CleanSlotsAreStored` and `HeldChunksStay`: its last two parts, stated for themselves.
* `CacheImplementsStore`: the refinement of ChunkStore under the same condition and for any codec. A write through a handle writes its chunk, a configuration resets, and every other step settles (rounds) the chunks it stores, or stutters (`StepsKeepPromise`).

The assumptions on the constants are those of `ChunkCache`: at least one slot; no more than two handles; one slot only for a back end of one chunk, which is what the codecs' minimum of two slots and `effectiveCacheSlots` give.

`CodecStorageProofs`, for any sets of owners, chunks, data, configurations and requests, any number of calls, and any library call failing:

* `CodecTypeCorrect`: the type invariant of codecs, bytes and calls.
* `StreamsAlwaysFit`: `StreamsFit`.
* `ContextsAlwaysFit`: `ContextsFit`. It does not say that a write to a super-chunk always uses the codec's present configuration, because it need not: `operator=` takes the configuration (`blosc_codec.cpp:83`) before `resetStorage` may throw (138),
  which is before the contexts are dropped (141), and `writeChunk` then goes on with the old context (217). It says that the context is of a configuration the codec had since its contexts were last dropped, and that chunks of a back end, which
  have no super-chunk, never meet this.
* `CodecsImplementChunks`: the refinement of CodedChunks, for either codec and for the super-chunk, and that each step does what it is for, by one lemma per kind of step (`CodecStepPromise`, `CopyStoragePromise`, `SuperChunkPromise`, ...).
* `SelectionAlwaysFits`: `SelectionFits`, for integers of any widths and any threshold, as `NothingCounted` holds (no states are counted before a back end is made) and powers of two multiply (`PowersAssumption`).

All of them rest on the inductive invariant `StorageInv`. `StreamsFit` speaks only of the call that is about to enter the library, and `ContextsFit` of no more than that as far as back ends go, so neither is inductive: what a codec keeps between calls must be known as well.
`BitstreamFits` says that a ZFP bitstream as large as the scratch buffer lies over it, and that none is larger (a smaller one is made anew by the next call, so it may lie anywhere, which is how a call that throws between the growth
and the new bitstream is harmless); `ContextsCurrent` that a Blosc context of a back end, if there is one, is that of the only configuration its codec had since contexts were dropped, the present one, as a copy of a codec without a super-chunk cannot fail; `ContextsKnown`, for any Blosc codec, that the present
configuration is among those it had, so that a context made now is of one of them.
`CallFits` and `FillingFits` say that a call or an initialisation under way is about a chunk that exists and about bytes that are there. `BytesFit` says that the bytes of a chunk
were encoded with exactly the parameters the chunk's codec will decode them with: the refinement needs it, as bytes carry no parameters. The assumptions:
the first chunk of a register has elements, chunks are numbered from 0 without gaps, the library's bound on a chunk's bytes is a number, and amplitudes are not confused with encoded bytes.

`PairKernelProofs`, for every number of qubits, every width and every target qubit, by the lemmas of `OperatorTheorems` on the three loop nests:

* `EveryCallIsAPair`, `PairsVisitedAtMostOnce`, `RefsAlwaysMatch`, `ChunksLeftForGood` (`CallsArePairs`, `NoPairTwice`, `RefsMatchLayout`, `ChunksVisitedOnce`), and `TypeCorrect`.
* `NoPairEverMissed`: when a traversal is over, every pair was visited. That it is ever over, the live half of `EveryPairVisited`, is left to TLC.

The pairs of a bit of weight m are counted by quotients and remainders of 2m, and a width below the mask never splits one. `LayoutsAssumption` and `MasksAssumption` say that sizes are positive and that
the mask of a qubit is positive and twice it divides the number of states; they stand for what the powers of two give.

`CompressedBackendProofs`, for every layout, capacity, set of operations and client:

* `BackendTypeCorrect`, `HandlesAlwaysFit`, `AlwaysFlushed`: `TypeOK`, `HandlesFit`, `FlushedBetweenOperations`. None is inductive. The invariant `LoopInv` has five parts:
  the type invariant; `CP!Coherent`, the invariant of the cache, which every step keeps as it is a step of the cache (`CacheNext`); `PhaseFits`, what an operation under way may do next; `HandlesKept`,
  which says for which chunks the handles are from the moment they are acquired, not only when they are used, and is what lets a chunk-aware traversal keep them; and `CleanBetween`, that no slot is dirty outside a batch, which a
  query, acquiring a chunk of its own between two operations, must not disturb (`AcquireClean`).
* `BatchesAlwaysCounted`: the back end counts the batches its client has open, if the client initialises none inside a batch (`backend_reinit` shows that this is needed). The invariant adds that
  no batch is open while an initialisation is under way, as it resets the count in its first step.
* `SamplesAlwaysAgree`: `SamplesAgree`. After each chunk the loop has found the first state of the whole vector at which the probabilities reach the sample, or none of the chunks passed has it and `cumulative` is the sum over them (`Sampling`,
  `SampleChunkSampling`); that a chunk is a stretch of the vector is `ChunkParts`.

The assumptions, named in CompressedBackend: operations are well formed (`WellFormed`, what the register and the engine check before they call), initial vectors are vectors, sizes are positive, powers of two double, and masks are as above.
That the blocks of a gate split the states, each into one state per row, is proved from them, digit by digit (`BlockStates`, `BlockRow`, `BlockColumn`, `BlocksApart`, `BlocksReach`): the scatter of a block's number over the
bits no qubit of the gate owns gives back the column a row of the promise's matrix names.

`BackendRefinement`, from the same assumptions and for every amplitude of every vector:

* `BackendImplementsVector`: `ImplementsStateVector`, operation by operation. The client's vector is the one in the chunks and the cache, and during a call the one the call found (`Seen`): the step that ends an operation
  is the promise's return, a failed acquire or flush its throw, a call its request, and every other step (an acquire, an eviction, half a pair, a query, a batch) a stutter.

The invariant `ValueInv` says what every amplitude is in the middle of an operation. `VectorFits`: what the operation found, as long as the iteration that touches it is to come (`Pending`), and the promise's outcome from then on. It stands on
`Apart`, no two iterations set the same state, and `Untouched`, the outcome of a state no iteration touches is what was found, the control of a controlled gate among them. Each kind of loop keeps something beside the chunks, so it needs a part of its own:
`HalfFits`, the second half of a pair in two chunks; `SumFits`, the sum of the chunks below the one at hand in an inversion's first pass; `BlockFits`, the rows a gate read of the block it is writing; `FreshCache`, that an acquire cannot throw
while a basis state is being initialised. That an iteration yields the outcome is shown per kernel (`HadamardPair`, `PauliPair`, `PhasePair`, `ControlledPair`: a recognised gate's kernel does to a pair what its matrix does) and per block (`BlockOutcome`).
That a call that throws leaves whole pairs follows as acquires fail only between iterations (`AcquireThrows`). The codec of this model is lossless; ChunkStore's rounding is for `CacheImplementsStore`, and a lossy back end implements no state vector exactly.

* `BackendsAlwaysAgree`: `BackendsAgree`, as long as no store fails and none is copied: a failing codec has no counterpart in the dense back end, and `cache_copied` shows what a copy may lose.
  It covers every layout, while the run `backends_agree` has copies too, of a back end of one chunk, which they leave as it is. The invariant `ParityInv` says that the dense array, whose operations are one step, is ahead of the chunks' vector
  by the operation under way: it is the promise's result on what that operation found. So both back ends are compared with StateVector, the compressed one by `BackendImplementsVector`'s invariant and the dense one by `DenseOutcome`:
  its loops are folds whose steps set disjoint parts of the array, each to the promise's outcome (`PartsFolded`), pair by pair (`StrideOutcome`, `DensePairKernel`) or block by block (`DenseBlock`, `DenseGate`).

`QuantumRegisterProofs`, for any number of qubits and any well-formed operations, whichever back end call throws half way:

* `RegisterTypeCorrect`: `TypeOK`, of which that the scale is 1 or 16 (-1) is what keeps the overlay invertible.
* `SumAlwaysRecovers`: `SumRecovers`. With the type invariant it is inductive (`RegisterInv`): each update of the sum is the linear form the code computes it with, and sums are linear (`SumLinear`).
* `RegisterImplementsStateVector`: the refinement of StateVector by the calls that return. The logical vector is the overlay applied to the stored one; materialising it leaves it as it is, a gate works on the
  stored vector only once the overlay is gone, an inversion composes two affine maps in the field, and the swap is three controlled nots (`WriteBit`, `OtherBit`: what writing one bit of a state does to the others).

`PowersAssumption` says that the powers of two double and that the amplitude 1/2^n is one: the provers do not know exponentiation.

`SimulationProofs`, for any circuits, states, updates and number of qubits, any operation or last flush throwing:

* `BatchAlwaysClosed`: `BatchClosed`.
* `StatesActOnVectors`: `ActsOnVector`. The invariant `SimulationInv` says that, during a run, the register holds what the operations carried out so far make of the client's vector (`OnTrack`), and that a register a client's state
  holds is at rest: no batch, and its sum, if any, that of its logical vector (`Resting`). Without the last part a later run could take its mean from a stale sum.
* `ViewsAlwaysAgree`: `ViewsAgree`, from the same invariant, by cases on the kind of the state; for basis states, what their vector adds up to (`BasisAddsUp`).
* `SearchesRotate`: `GroverRotates`, for any number of qubits and any list of marked states, repeats among them. A run that completes took the state through its whole circuit (`OnlyEndReturns`, `EndRunStep`), and the circuit `makeGrover` builds
  (`SearchBuilt`: the list sorted, each state once; the iterations a number, and none if there is one state) does this to the zero state: each Hadamard gate halves the distance between the states that have an amplitude (`LayerStep`), the phase flips
  turn the marked states' sign one by one (`Flipped`), and the inversion, on a vector of two amplitudes, adds one column to the plane rotation (`SearchIteration`), whose arithmetic is done in the integers modulo 17 (`Amplified`).
  Circuits compose (`CircuitsJoin`), so the iterations are an induction on their number (`SearchRun`), and the number is that of the circuit's inversions (`InversionsCounted`).

The assumptions are those on the register, that states start as one of the constructors makes them (`Constructed`), that circuits hold operations with valid arguments (an operation with invalid ones throws, which any may do here), and, for
`SearchesRotate`, that a circuit named a search is what `appendGrover` makes of a non-empty list of states (`SearchesAssumption`). `PowersAssumption` says that powers of two, and of the amplitude 1/2, are products.

Sums, and folds over sequences, are defined by recursion in the community modules. What is needed of them is proved by induction on the size of a set, the induction hypothesis being that a number is in a set (`NumberInduction`, `SubsetInduction`, `LeftFold`), which takes
no operator as a parameter.

Only model-checked: every liveness property (`OperationsEnd`, `CallsEnd`, `RunsEnd`, the live half of `EveryPairVisited`), as TLAPS does not handle liveness under fairness; `QftIsFourier`, as the field of amplitudes has the roots of unity of four qubits and no more; and `GroverAmplifies`, which compares magnitudes: that the chosen number of iterations ends the rotation close to the marked states is a fact about sines, of which the provers know nothing.

## Not modelled

* Queries that throw without changing anything; arguments refused before anything changes; superpositions and loads that a back end refuses half way, which its only client, the register, checks first.
* Floating point: rounding, the tolerance with which gates are recognised, overflow. Integer widths other than those of the registry.
* Normalisation of loaded states and random phases.
* What a register's reader sees after a call that threw half way, beyond `SumRecovers`.
* How the libraries encode; the size limits of Blosc calls, which throw where any call may. CodecStorage and CompressedBackend are not composed: the cache's models take the codec as a function and failures as choices,
  which is what CodedChunks promises of it.
* Metrics, printing, timing, reports, the strategy a report names.

## Plan

1. Done: cache, layout, traversals, block engine, state vector, both back ends, codecs, registry, measurement, register, states, circuits and runs; proofs about the cache, the codecs and the batches.
2. Done: proofs about the traversals, the compressed back end's handles, flushes, sampling and vector, the register, and runs.
3. Done: proofs about the dense back end, its agreement with the compressed one, and the selection of a back end.
4. A register whose back end throws in a load, and the strategy a run reports against the one its register uses.
