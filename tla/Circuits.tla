-------------------------------- MODULE Circuits ------------------------------
(***************************************************************************)
(* Circuits (circuit/circuit.cpp) are lists of operations.  Here are the   *)
(* two the library builds, the quantum Fourier transform and Grover's      *)
(* search.  Building Grover's circuit may throw half way; the operations   *)
(* appended by then stay in the circuit.                                   *)
(***************************************************************************)
EXTENDS Gates, SequencesExt

\* exp(i pi / 2^distance) in the field of amplitudes, distance up to 3.
Turn(distance) == <<I, RootOfUnity8, RootOfUnity16>>[distance]

H(target) == [name |-> "H", qubits |-> <<target>>]
ControlledPhase(control, target, phase) ==
  [name |-> "CP", qubits |-> <<control, target>>, phase |-> phase]
SwapQubits(a, b) == [name |-> "Swap", qubits |-> <<a, b>>]
PhaseFlip(state) == [name |-> "PhaseFlip", state |-> state]
InversionAboutMean(materialized) == [name |-> "Inversion", materialized |-> materialized]

-------------------------------------------------------------------------------
\* Slip: the angle of the next control but one.
QftStageWide(qubits, target) ==
  <<H(target)>> \o
  [k \in 1..(qubits - target - 1) |->
     ControlledPhase(target + k, target, Turn(IF k < 3 THEN k + 1 ELSE k))]

\* Target's Hadamard and its phases under every later qubit.
QftStage(qubits, target) ==
  <<H(target)>> \o
  [k \in 1..(qubits - target - 1) |-> ControlledPhase(target + k, target, Turn(k))]

\* appendQft.
Qft(qubits) ==
  FlattenSeq([k \in 1..qubits |-> QftStage(qubits, k - 1)])
    \o [k \in 1..(qubits \div 2) |-> SwapQubits(k - 1, qubits - k)]

-------------------------------------------------------------------------------
\* Slip: one iteration more.
GroverIterationCountOver(stateCount, markedCount) ==
  CHOOSE k \in 1..(stateCount + 1) :
    /\ 160000 * (k - 1) * (k - 1) * markedCount <= 98696 * stateCount
    /\ 160000 * k * k * markedCount > 98696 * stateCount

\* The floor of pi / 4 times the root of stateCount / markedCount; no pair of
\* counts comes closer to a whole number than these digits of pi^2.
GroverIterationCount(stateCount, markedCount) ==
  CHOOSE k \in 0..stateCount :
    /\ 160000 * k * k * markedCount <= 98696 * stateCount
    /\ 160000 * (k + 1) * (k + 1) * markedCount > 98696 * stateCount

\* Slip: the diffusion comes before the oracle.
GroverIterationSwapped(flips, materialized) ==
  <<InversionAboutMean(materialized)>> \o flips

GroverIteration(flips, materialized) ==
  flips \o <<InversionAboutMean(materialized)>>

\* The states listed, each once, in ascending order.
Sorted(markedStates) ==
  LET marked == ToSet(markedStates)
  IN [k \in 1..Cardinality(marked) |->
        CHOOSE s \in marked : Cardinality({t \in marked : t < s}) = k - 1]

\* What appendGrover adds to a circuit, and whether it throws.  A marked state
\* out of range is noticed when its first phase flip is appended.
Grover(qubits, markedStates, materialized) ==
  LET marked == Sorted(markedStates)
      valid == Cardinality({state \in ToSet(markedStates) : state < 2^qubits})
      superposition == [k \in 1..qubits |-> H(k - 1)]
      iterations == GroverIterationCount(2^qubits, Len(marked))
      flips == [k \in 1..valid |-> PhaseFlip(marked[k])]
  IN IF marked = <<>> THEN [operations |-> <<>>, throws |-> TRUE]
     ELSE IF valid < Len(marked) /\ iterations > 0
     THEN [operations |-> superposition \o flips, throws |-> TRUE]
     ELSE [operations |-> superposition \o
             FlattenSeq([k \in 1..iterations |-> GroverIteration(flips, materialized)]),
           throws |-> FALSE]
===============================================================================
