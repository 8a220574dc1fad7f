\* An update whose back end call throws after it stored the amplitude.
SPECIFICATION Spec
CONSTANTS
  NumQubits = 2
  Operations <- InversionAndUpdate
  Initial <- InitialVectors
  MaxOperations = 2
  MayThrow = TRUE
INVARIANT
  CachedSumIsSum
CHECK_DEADLOCK FALSE
