\* Eight states in a chunk that has room for sixteen, as in every register
\* smaller than a chunk, beside the dense array; the back ends may be copied,
\* batches nested, and a client may initialise the back ends in a batch.
SPECIFICATION ParitySpec
CONSTANTS
  NumQubits = 3
  ChunkStates = 16
  CacheSlots = 2
  Operations <- AllCalls
  Initial <- InitialVectors
  MaxOperations = 2
  MaxBatches = 2
  ReinitInBatch = TRUE
  StoreMayFail = FALSE
  MayClone = TRUE
INVARIANTS
  FlushedBetweenOperations
  BackendsAgree
PROPERTIES
  ImplementsStateVector
CHECK_DEADLOCK FALSE
