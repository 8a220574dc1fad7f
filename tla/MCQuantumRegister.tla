--------------------------- MODULE MCQuantumRegister --------------------------
(* Small instances of QuantumRegister for TLC: two qubits. *)
EXTENDS QuantumRegister

InitialVectors == {[s \in States |-> (5 * s + 3) % 17]}

Calls ==
  {[name |-> "H", qubits |-> <<0>>],
   [name |-> "CNOT", qubits |-> <<1, 0>>],
   [name |-> "CP", qubits |-> <<0, 1>>, phase |-> RootOfUnity8],
   [name |-> "Gate", qubits |-> <<1, 0>>,
    matrix |-> [row \in 0..3 |-> [col \in 0..3 |-> 4 * row + col + 1]]],
   [name |-> "Swap", qubits |-> <<0, 1>>],
   [name |-> "PhaseFlip", state |-> 0], [name |-> "PhaseFlip", state |-> 3],
   [name |-> "SetAmplitude", state |-> 2, value |-> 9],
   [name |-> "Inversion", materialized |-> FALSE],
   [name |-> "Inversion", materialized |-> TRUE],
   [name |-> "InversionMean", mean |-> 6, materialized |-> FALSE],
   [name |-> "InversionMean", mean |-> 6, materialized |-> TRUE],
   [name |-> "Load", vector |-> [s \in States |-> (3 * s + 1) % 17]]}

\* An inversion, which leaves its sum, and an update, which forgets it last.
InversionAndUpdate ==
  {[name |-> "Inversion", materialized |-> FALSE],
   [name |-> "SetAmplitude", state |-> 2, value |-> 9]}
===============================================================================
