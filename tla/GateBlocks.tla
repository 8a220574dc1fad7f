------------------------------ MODULE GateBlocks ------------------------------
(***************************************************************************)
(* How the generic gate engine (storage/gate_block_apply.h) cuts a state   *)
(* vector into blocks: the states of a block differ in the target bits     *)
(* alone, and the block is multiplied by the gate.  The engine's special   *)
(* cases for one and for two qubits visit the same states in the same      *)
(* order as its general case.                                              *)
(***************************************************************************)
EXTENDS Gates

\* The bits of the targets, and the others, lowest first.
TargetPositions(qubits, numQubits) ==
  [i \in DOMAIN qubits |-> numQubits - qubits[i] - 1]

NonTargetPositions(qubits, numQubits) ==
  LET targets == TargetPositions(qubits, numQubits)
      others == 0..(numQubits - 1) \ {targets[i] : i \in DOMAIN qubits}
  IN [k \in 0..(Cardinality(others) - 1) |->
        CHOOSE bit \in others : Cardinality({b \in others : b < bit}) = k]

NumBlocks(qubits, numQubits) == 2^(numQubits - Len(qubits))
BlockSize(qubits) == 2^Len(qubits)

ComposeBaseStateFromBlock(block, positions) ==
  MapThenSumSet(LAMBDA k : ((block \div 2^k) % 2) * 2^positions[k], DOMAIN positions)

\* Slip: the first listed qubit is the least significant bit of a row.
BlockOffsetReversed(qubits, numQubits, row) ==
  MapThenSumSet(LAMBDA i : ((row \div 2^(i - 1)) % 2)
                             * 2^TargetPositions(qubits, numQubits)[i],
                DOMAIN qubits)

\* The first listed qubit is the most significant bit of a row.
BlockOffset(qubits, numQubits, row) ==
  MapThenSumSet(LAMBDA i : ((row \div 2^(Len(qubits) - i)) % 2)
                             * 2^TargetPositions(qubits, numQubits)[i],
                DOMAIN qubits)

BlockState(qubits, numQubits, block, row) ==
  ComposeBaseStateFromBlock(block, NonTargetPositions(qubits, numQubits))
    + BlockOffset(qubits, numQubits, row)

\* Slip: a column of the gate instead of a row.
NewAmplitudeTransposed(gate, row, local) ==
  Total([col \in DOMAIN gate |-> Times(gate[col][row], local[col])])

\* One row of the gate times the block's amplitudes.
NewAmplitude(gate, row, local) ==
  Total([col \in DOMAIN gate |-> Times(gate[row][col], local[col])])
===============================================================================
