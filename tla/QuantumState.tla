------------------------------ MODULE QuantumState ----------------------------
(***************************************************************************)
(* The states clients hold (state/quantum_state.cpp): a vector kept as a   *)
(* basis state, a basis state with an amplitude, a subset of basis states, *)
(* all amplitudes, or the register a run left.  Its readers look at the    *)
(* kind, or build a register and read that.  Amplitudes have no magnitude  *)
(* here: the policies that check or restore the norm are left out.         *)
(***************************************************************************)
EXTENDS Measurement, FiniteSets, Sequences

CONSTANT NumQubits

StateCount == 2^NumQubits
Indices == 0..(StateCount - 1)
NoSum == -1

\* 1 / sqrt(count) for a count that is a power of two.
InverseRoot(count) ==
  LET n == CHOOSE k \in 0..NumQubits : 2^k = count IN (InvSqrt2 ^ n) % 17

-------------------------------------------------------------------------------
(* Registers, as far as a state sees them.                                 *)

NewRegister(vector) ==
  [stored |-> vector, scale |-> 1, bias |-> 0, overlay |-> FALSE,
   sum |-> NoSum, batchDepth |-> 0]

BasisVector(state, amplitude) ==
  [s \in Indices |-> IF s = state THEN amplitude ELSE 0]

\* initUniformSuperposition; a state listed twice counts once.
UniformVector(basisStates) ==
  LET selected == Range(basisStates)
  IN [s \in Indices |->
        IF s \in selected THEN InverseRoot(Cardinality(selected)) ELSE 0]

RegisterAmplitude(reg, s) ==
  IF reg.overlay THEN Plus(Times(reg.scale, reg.stored[s]), reg.bias)
  ELSE reg.stored[s]

RegisterAmplitudes(reg) == [s \in Indices |-> RegisterAmplitude(reg, s)]

-------------------------------------------------------------------------------
(* The constructors.                                                       *)

Impl == [kind |-> "Basis", basisState |-> 0, basisAmplitude |-> 1,
         basisStates |-> <<>>, amplitudes |-> <<>>, reg |-> <<>>]

Basis(s) == [Impl EXCEPT !.basisState = s]
BasisAmplitude(s, a) ==
  [Impl EXCEPT !.kind = "BasisAmplitude", !.basisState = s, !.basisAmplitude = a]
UniformSubset(list) == [Impl EXCEPT !.kind = "UniformSubset", !.basisStates = list]
FromAmplitudes(vector) == [Impl EXCEPT !.kind = "Amplitudes", !.amplitudes = vector]
FromRegister(reg) == [Impl EXCEPT !.kind = "Register", !.reg = reg]

\* What the constructors let through; of subsets, those whose amplitude this
\* field has.
Constructed(state) ==
  \/ state.basisState \in Indices /\ state = Basis(state.basisState)
  \/ /\ state.basisState \in Indices /\ state.basisAmplitude \in Amplitude
     /\ state = BasisAmplitude(state.basisState, state.basisAmplitude)
  \/ /\ state.basisStates \in Seq(Indices)
     /\ \E k \in 0..NumQubits : Cardinality(Range(state.basisStates)) = 2^k
     /\ state = UniformSubset(state.basisStates)
  \/ /\ state.amplitudes \in [Indices -> Amplitude]
     /\ state = FromAmplitudes(state.amplitudes)

\* The subset of sparsePattern: every eighth state, or its successor in turn.
SparsePattern ==
  LET pattern == [k \in 1..((StateCount + 7) \div 8) |-> 8 * (k - 1) + ((k - 1) % 2)]
  IN SelectSeq(pattern, LAMBDA s : s < StateCount)

-------------------------------------------------------------------------------
(* Readers and writers.                                                    *)

\* The register a run starts with; a register is copied with its overlay,
\* its sum and its batch.
Materialize(state) ==
  CASE state.kind \in {"Basis", "BasisAmplitude"} ->
         NewRegister(BasisVector(state.basisState, state.basisAmplitude))
    [] state.kind = "UniformSubset" -> NewRegister(UniformVector(state.basisStates))
    [] state.kind = "Amplitudes" -> NewRegister(state.amplitudes)
    [] state.kind = "Register" -> state.reg

\* Slip: a register's stored amplitude is taken for its logical one.
AmplitudeOfStored(state, s) ==
  IF state.kind = "Amplitudes" THEN state.amplitudes[s] ELSE Materialize(state).stored[s]

AmplitudeOf(state, s) ==
  CASE state.kind = "Amplitudes" -> state.amplitudes[s]
    [] state.kind \in {"Basis", "BasisAmplitude"} ->
         IF s = state.basisState THEN state.basisAmplitude ELSE 0
    [] state.kind = "Register" -> RegisterAmplitude(state.reg, s)
    [] state.kind = "UniformSubset" -> RegisterAmplitude(Materialize(state), s)

AmplitudesOf(state) ==
  CASE state.kind = "Amplitudes" -> state.amplitudes
    [] state.kind = "Register" -> RegisterAmplitudes(state.reg)
    [] OTHER -> RegisterAmplitudes(Materialize(state))

ProbabilityOf(state) ==
  CASE state.kind = "Amplitudes" -> TotalProbability(state.amplitudes)
    [] state.kind \in {"Basis", "BasisAmplitude"} -> state.basisAmplitude
    [] state.kind = "Register" -> TotalProbability(RegisterAmplitudes(state.reg))
    [] OTHER -> TotalProbability(RegisterAmplitudes(Materialize(state)))

\* A register with an overlay samples its logical amplitudes itself, one
\* without has its back end sample.
RegisterMeasure(reg, rnd) ==
  Sampled(IF reg.overlay THEN RegisterAmplitudes(reg) ELSE reg.stored, rnd)

\* A basis state is measured without a sample.
Measure(state, rnd) ==
  CASE state.kind \in {"Basis", "BasisAmplitude"} -> state.basisState
    [] state.kind = "Amplitudes" -> Sampled(state.amplitudes, rnd)
    [] state.kind = "Register" -> RegisterMeasure(state.reg, rnd)
    [] state.kind = "UniformSubset" -> RegisterMeasure(Materialize(state), rnd)

LoadAmplitudes(state, vector) ==
  [state EXCEPT !.kind = "Amplitudes", !.amplitudes = vector]

SetAmplitude(state, s, a) ==
  LoadAmplitudes(state, [AmplitudesOf(state) EXCEPT ![s] = a])
===============================================================================
