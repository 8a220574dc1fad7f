\* Eight states in four chunks of two, two cache slots: pairs within a chunk
\* and across chunks; batches; no fault.
SPECIFICATION Spec
CONSTANTS
  NumQubits = 3
  ChunkStates = 2
  CacheSlots = 2
  Operations <- AllCalls
  Initial <- InitialVectors
  MaxOperations = 2
  MaxBatches = 1
  ReinitInBatch = FALSE
  StoreMayFail = FALSE
  MayClone = FALSE
INVARIANTS
  TypeOK
  HandlesFit
  FlushedBetweenOperations
PROPERTIES
  ImplementsStateVector
  OperationsEnd
CHECK_DEADLOCK FALSE
