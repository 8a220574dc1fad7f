-------------------------- MODULE MCCompressedBackend -------------------------
(* Small instances of CompressedBackend for TLC. *)
EXTENDS CompressedBackend

\* No two amplitudes are equal.
AllDifferent == [s \in States |-> (5 * s + 3) % 17]

\* Zeros, equal pairs and a few others, so that the kernels' shortcuts occur.
MostlyZero == [s \in States |-> IF s \in {0, 1} THEN 2 ELSE IF s = 3 THEN 7 ELSE 0]

InitialVectors == {AllDifferent, MostlyZero}

TGate == [row \in 0..1 |-> [col \in 0..1 |->
            IF row # col THEN 0 ELSE IF row = 0 THEN 1 ELSE RootOfUnity8]]

\* A matrix none of whose entries is zero or repeated.
DenseGate == [row \in 0..3 |-> [col \in 0..3 |-> 4 * row + col + 1]]

LastQubit == NumQubits - 1

PairCalls ==
  {[name |-> "H", qubits |-> <<q>>] : q \in 0..LastQubit}
    \cup {[name |-> "X", qubits |-> <<q>>] : q \in {0, LastQubit}}
    \cup {[name |-> "CNOT", qubits |-> <<LastQubit, 0>>], [name |-> "CNOT", qubits |-> <<0, LastQubit>>]}
    \cup {[name |-> "CP", qubits |-> <<0, LastQubit>>, phase |-> RootOfUnity8],
          [name |-> "CP", qubits |-> <<LastQubit, 0>>, phase |-> I]}

GateCalls ==
  {[name |-> "Gate", qubits |-> <<0>>, matrix |-> TGate],
   [name |-> "Gate", qubits |-> <<LastQubit, 0>>, matrix |-> DenseGate],
   [name |-> "Gate", qubits |-> <<0>>, matrix |-> Hadamard],
   [name |-> "Gate", qubits |-> <<LastQubit>>, matrix |-> PauliX],
   [name |-> "Gate", qubits |-> <<LastQubit, 0>>, matrix |-> ControlledNot],
   [name |-> "Gate", qubits |-> <<0, LastQubit>>, matrix |-> ControlledPhaseShift(I)]}

ChunkCalls ==
  {[name |-> "Inversion"],
   [name |-> "InversionMean", mean |-> 6],
   [name |-> "Affine", scale |-> 3, bias |-> 5]}

StateCalls ==
  {[name |-> "PhaseFlip", state |-> 2],
   [name |-> "SetAmplitude", state |-> 2^NumQubits - 1, value |-> 9]}

InitCalls ==
  {[name |-> "InitBasis", state |-> 1, value |-> 1],
   [name |-> "InitBasis", state |-> 2^NumQubits, value |-> 1],
   [name |-> "Load", vector |-> AllDifferent]}

AllCalls == PairCalls \cup GateCalls \cup ChunkCalls \cup StateCalls \cup InitCalls

\* One call of each kind.
SomeCalls ==
  {[name |-> "H", qubits |-> <<LastQubit>>], [name |-> "CP", qubits |-> <<LastQubit, 0>>, phase |-> I],
   [name |-> "Gate", qubits |-> <<LastQubit, 0>>, matrix |-> DenseGate],
   [name |-> "Inversion"]} \cup StateCalls \cup InitCalls
===============================================================================
