\* A client loads amplitudes inside a batch it then ends.
SPECIFICATION Spec
CONSTANTS
  NumQubits = 2
  ChunkStates = 2
  CacheSlots = 2
  Operations <- SomeCalls
  Initial <- InitialVectors
  MaxOperations = 1
  MaxBatches = 1
  ReinitInBatch = TRUE
  StoreMayFail = FALSE
  MayClone = FALSE
INVARIANT
  BatchesCounted
CHECK_DEADLOCK FALSE
