\* Two qubits, every mix of three operations; a back end call may throw half
\* way, and the register is used on.
SPECIFICATION Spec
CONSTANTS
  NumQubits = 2
  Operations <- Calls
  Initial <- InitialVectors
  MaxOperations = 3
  MayThrow = TRUE
INVARIANTS
  TypeOK
  SumRecovers
PROPERTIES
  ImplementsStateVector
CHECK_DEADLOCK FALSE
