----------------------------- MODULE MCPairKernel -----------------------------
(* Instances of PairKernel for TLC: every register of 1 to 4 qubits, every *)
(* chunk width from 1 state to one more than the register, every qubit.    *)
EXTENDS PairKernel

MaxQubits == 4

AllLayouts ==
  UNION {{[states |-> 2^n, width |-> w] : w \in 1..(2^n + 1)} : n \in 1..MaxQubits}

BitMasks(lay) == {m \in {2^k : k \in 0..(MaxQubits - 1)} : m < lay.states}
===============================================================================
