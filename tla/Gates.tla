--------------------------------- MODULE Gates --------------------------------
(***************************************************************************)
(* The gate matrices of gates/quantum_gate.cpp and the recognition of them *)
(* the compressed back ends start a gate with.                             *)
(***************************************************************************)
EXTENDS Amplitudes, FiniteSetsExt, Sequences

Rows(dimension) == 0..(dimension - 1)

\* The gate with the given rows; the code counts rows and columns from 0.
Matrix(rows) ==
  [row \in Rows(Len(rows)) |-> [col \in Rows(Len(rows)) |-> rows[row + 1][col + 1]]]

Hadamard == Matrix(<< <<InvSqrt2, InvSqrt2>>, <<InvSqrt2, Minus(0, InvSqrt2)>> >>)

PauliX == Matrix(<< <<0, 1>>, <<1, 0>> >>)

ControlledNot ==
  Matrix(<< <<1, 0, 0, 0>>, <<0, 1, 0, 0>>, <<0, 0, 0, 1>>, <<0, 0, 1, 0>> >>)

ControlledPhaseShift(phase) ==
  Matrix(<< <<1, 0, 0, 0>>, <<0, 1, 0, 0>>, <<0, 0, 1, 0>>, <<0, 0, 0, phase>> >>)

\* The phases are the elements of magnitude 1: all but 0 in this field.
Phases == Amplitude \ {0}

\* The operation applyGate turns into: the specialised one of a gate it
\* recognises, or the generic one.
Dispatched(o) ==
  LET gate == o.matrix
      qubits == o.qubits
  IN CASE Len(qubits) = 1 /\ gate = Hadamard -> [name |-> "H", qubits |-> qubits]
       [] Len(qubits) = 1 /\ gate = PauliX   -> [name |-> "X", qubits |-> qubits]
       [] Len(qubits) = 2 /\ gate = ControlledNot -> [name |-> "CNOT", qubits |-> qubits]
       [] /\ Len(qubits) = 2
          /\ gate[3][3] \in Phases
          /\ gate = ControlledPhaseShift(gate[3][3]) ->
            [name |-> "CP", qubits |-> qubits, phase |-> gate[3][3]]
       [] OTHER -> o
===============================================================================
