\* Four qubits, a state of each kind, two calls: updates and runs of Fourier
\* transforms, searches and a circuit of every kind of operation.
SPECIFICATION Spec
CONSTANTS
  NumQubits = 4
  InitialStates <- ClientStates
  CircuitsRun <- Programs
  Updates <- AmplitudeUpdates
  MaxCalls = 2
INVARIANTS
  ViewsAgree
  GroverAmplifies
  BatchClosed
PROPERTIES
  ActsOnVector
  QftIsFourier
  GroverRotates
  RunsEnd
CHECK_DEADLOCK FALSE
