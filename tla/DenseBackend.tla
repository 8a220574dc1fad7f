----------------------------- MODULE DenseBackend -----------------------------
(***************************************************************************)
(* The dense storage back end (storage/dense/dense_state_backend.cpp): one *)
(* array of amplitudes, changed in place by the loops of each operation.   *)
(* A loop is a fold over its iterations in their order.  Nothing can come  *)
(* between them, so an operation is one step.                              *)
(***************************************************************************)
EXTENDS GateBlocks, SequencesExt

CONSTANTS
  NumQubits,
  DenseInitial   \* the vectors a behaviour starts from

VARIABLE amplitudes

NumStates == 2^NumQubits
StateIndices == 0..(NumStates - 1)

\* qubitMaskFromMsbIndex, and a test of it.
BitMask(q) == 2^(NumQubits - q - 1)
IsSet(state, q) == (state \div BitMask(q)) % 2 = 1

-------------------------------------------------------------------------------
(* Pair operations.                                                        *)

\* The array after the pair function of operation o has seen one pair.
PairFn(o, v, s0, s1) ==
  LET swapped == [v EXCEPT ![s0] = v[s1], ![s1] = v[s0]]
  IN CASE o.name = "H" ->
            IF v[s0] = 0 /\ v[s1] = 0 THEN v
            ELSE [v EXCEPT ![s0] = Times(Plus(v[s0], v[s1]), InvSqrt2),
                           ![s1] = Times(Minus(v[s0], v[s1]), InvSqrt2)]
       [] o.name = "X" -> IF v[s0] = v[s1] THEN v ELSE swapped
       [] o.name = "CP" ->
            IF ~IsSet(s1, o.qubits[1]) \/ v[s1] = 0 THEN v
            ELSE [v EXCEPT ![s1] = Times(o.phase, @)]
       [] o.name = "CNOT" ->
            IF ~IsSet(s0, o.qubits[1]) \/ v[s0] = v[s1] THEN v ELSE swapped

\* Slip: every state is taken for a pair's first.
RunPairKernelEveryState(o) ==
  LET mask == BitMask(o.qubits[Len(o.qubits)])
  IN FoldLeft(LAMBDA v, s : PairFn(o, v, s, (s + mask) % NumStates), amplitudes,
              [k \in 1..NumStates |-> k - 1])

\* The inner loop of the fallback traversal: the pairs that begin in
\* base..(base + mask - 1).
RunOffsets(o, v, base) ==
  LET mask == BitMask(o.qubits[Len(o.qubits)])
  IN FoldLeft(LAMBDA w, offset : PairFn(o, w, base + offset, base + offset + mask), v,
              [k \in 1..mask |-> k - 1])

\* The outer loop, in strides of two masks.
RunPairKernel(o) ==
  LET stride == 2 * BitMask(o.qubits[Len(o.qubits)])
  IN FoldLeft(LAMBDA v, base : RunOffsets(o, v, base), amplitudes,
              [k \in 1..(NumStates \div stride) |-> stride * (k - 1)])

-------------------------------------------------------------------------------
(* The other operations.                                                   *)

\* The generic engine multiplies a block, unless all of it is zero.
RunBlock(o, v, block) ==
  LET rows == Rows(BlockSize(o.qubits))
      state == [row \in rows |-> BlockState(o.qubits, NumQubits, block, row)]
      local == [row \in rows |-> v[state[row]]]
  IN IF \A row \in rows : local[row] = 0 THEN v
     ELSE [s \in StateIndices |->
             IF \E row \in rows : state[row] = s
             THEN NewAmplitude(o.matrix, CHOOSE row \in rows : state[row] = s, local)
             ELSE v[s]]

\* Block by block; applyGate recognises no gate.
RunGate(o) ==
  FoldLeft(LAMBDA v, block : RunBlock(o, v, block), amplitudes,
           [k \in 1..NumBlocks(o.qubits, NumQubits) |-> k - 1])

RunInversionAboutMean(mean) == [s \in StateIndices |-> Minus(2 * mean, amplitudes[s])]

RunAffineTransform(scale, bias) ==
  [s \in StateIndices |-> Plus(Times(scale, amplitudes[s]), bias)]

\* initBasis zeroes the array before it validates its argument.
RunInitBasis(state, value) == [s \in StateIndices |-> IF s = state THEN value ELSE 0]

\* Every operation of the back end, by name.
Operation(o) ==
  CASE o.name \in {"H", "X", "CP", "CNOT"} -> RunPairKernel(o)
    [] o.name = "Gate" -> RunGate(o)
    [] o.name = "PhaseFlip" -> [amplitudes EXCEPT ![o.state] = Minus(0, @)]
    [] o.name = "SetAmplitude" -> [amplitudes EXCEPT ![o.state] = o.value]
    [] o.name = "Inversion" ->
         RunInversionAboutMean(Times(Total(amplitudes), InversePower2(NumQubits)))
    [] o.name = "InversionMean" -> RunInversionAboutMean(o.mean)
    [] o.name = "Affine" -> RunAffineTransform(o.scale, o.bias)
    [] o.name = "InitBasis" -> RunInitBasis(o.state, o.value)
    [] o.name = "Load" -> o.vector

Apply(o) == amplitudes' = Operation(o)

Init == amplitudes \in DenseInitial
===============================================================================
