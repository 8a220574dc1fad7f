\* Eight states in chunks of three, three and two: no chunk-aware traversal;
\* compress may throw.
SPECIFICATION Spec
CONSTANTS
  NumQubits = 3
  ChunkStates = 3
  CacheSlots = 2
  Operations <- SomeCalls
  Initial <- InitialVectors
  MaxOperations = 2
  MaxBatches = 2
  ReinitInBatch = FALSE
  StoreMayFail = TRUE
  MayClone = FALSE
INVARIANTS
  HandlesFit
  FlushedBetweenOperations
  BatchesCounted
  SamplesAgree
PROPERTIES
  ImplementsStateVector
CHECK_DEADLOCK FALSE
