---------------------------- MODULE SimulationProofs ----------------------------
(***************************************************************************)
(* What clients see of their states changes by the amplitudes they set and *)
(* by whole circuits, no run leaves a batch open, a state's readers agree, *)
(* and a search rotates what it starts from: for all circuits, any list of *)
(* marked states and any number of qubits.                                 *)
(***************************************************************************)
EXTENDS Simulation, OperatorTheorems, SequenceTheorems

\* The register of a run, for the theorems about registers.
Machine == INSTANCE QuantumRegisterProofs WITH
  Operations <- RunOperations, Initial <- {}, MaxOperations <- MaxCalls, MayThrow <- FALSE

-------------------------------------------------------------------------------
(* What the theorems on registers assume.                                  *)

LEMMA WellFormedRuns == \A o \in RunOperations : Machine!WellFormed(o)
<1> SUFFICES ASSUME NEW o \in RunOperations PROVE Machine!WellFormed(o)
  OBVIOUS
<1>1. Register!WellFormed(o)
  BY CircuitsAssumption
<1> QED BY <1>1 DEF Register!WellFormed, Machine!WellFormed, Register!QubitLists,
     Machine!QubitLists, Register!Qubits, Machine!Qubits, Register!Rows, Machine!Rows,
     Register!States, Machine!States, Register!Amplitude, Machine!Amplitude,
     Register!Injection, Machine!Injection, Register!IsInjective, Machine!IsInjective

LEMMA MachineAssumptions ==
  /\ /\ Machine!Times(Machine!I, Machine!I) = Machine!Minus(0, 1)
     /\ Machine!Times(2, Machine!Times(Machine!InvSqrt2, Machine!InvSqrt2)) = 1
     /\ Machine!Times(Machine!RootOfUnity8, Machine!RootOfUnity8) = Machine!I
     /\ Machine!Times(Machine!RootOfUnity16, Machine!RootOfUnity16) = Machine!RootOfUnity8
     /\ Machine!Times(2, Machine!Half) = 1
  /\ \A o \in RunOperations : Machine!WellFormed(o)
  /\ {} \subseteq [Machine!States -> Machine!Amplitude]
  /\ MaxCalls \in Nat
  /\ /\ NumQubits \in Nat /\ Machine!InversePower2(NumQubits) \in Machine!Amplitude
     /\ 2^0 = 1 /\ \A n \in 0..NumQubits : 2^(n + 1) = 2 * 2^n
<1>1. /\ Machine!Times(Machine!I, Machine!I) = Machine!Minus(0, 1)
      /\ Machine!Times(2, Machine!Times(Machine!InvSqrt2, Machine!InvSqrt2)) = 1
      /\ Machine!Times(Machine!RootOfUnity8, Machine!RootOfUnity8) = Machine!I
      /\ Machine!Times(Machine!RootOfUnity16, Machine!RootOfUnity16) = Machine!RootOfUnity8
      /\ Machine!Times(2, Machine!Half) = 1
  BY FieldOfAmplitudes DEF Machine!Times, Machine!Minus, Machine!I, Machine!InvSqrt2,
     Machine!RootOfUnity8, Machine!RootOfUnity16, Machine!Half, Times, Minus, I, InvSqrt2,
     RootOfUnity8, RootOfUnity16, Half
<1>2. Machine!InversePower2(NumQubits) \in Machine!Amplitude
  BY PowersAssumption DEF Machine!InversePower2, Machine!Amplitude, Machine!Half,
     InversePower2, Amplitude, Half
<1> QED BY <1>1, <1>2, WellFormedRuns, CallsAssumption, PowersAssumption

-------------------------------------------------------------------------------
(* The register of a run is the one the theorems are about.                *)

LEMMA SameSums ==
  /\ \A f : Register!Backend!Total(f) = Machine!Backend!Total(f)
  /\ \A s, qs : Register!Backend!Row(s, qs) = Machine!Backend!Row(s, qs)
  /\ \A s, qs, col :
       Register!Backend!WithColumn(s, qs, col) = Machine!Backend!WithColumn(s, qs, col)
<1>1. ASSUME NEW f PROVE Register!Backend!Total(f) = Machine!Backend!Total(f)
  BY DEF Register!Backend!Total, Machine!Backend!Total, Register!Backend!SumFunction,
       Machine!Backend!SumFunction, Register!Backend!SumFunctionOnSet,
       Machine!Backend!SumFunctionOnSet, Register!Backend!FoldFunctionOnSet,
       Machine!Backend!FoldFunctionOnSet, Register!Backend!MapThenFoldSet,
       Machine!Backend!MapThenFoldSet
<1>2. ASSUME NEW s, NEW qs PROVE Register!Backend!Row(s, qs) = Machine!Backend!Row(s, qs)
  BY DEF Register!Backend!Row, Machine!Backend!Row, Register!Backend!Bit,
       Machine!Backend!Bit, Register!Backend!Mask, Machine!Backend!Mask,
       Register!Backend!MapThenSumSet, Machine!Backend!MapThenSumSet,
       Register!Backend!MapThenFoldSet, Machine!Backend!MapThenFoldSet
<1>3. ASSUME NEW s, NEW qs, NEW col
      PROVE  Register!Backend!WithColumn(s, qs, col) = Machine!Backend!WithColumn(s, qs, col)
  BY DEF Register!Backend!WithColumn, Machine!Backend!WithColumn, Register!Backend!Bit,
       Machine!Backend!Bit, Register!Backend!Mask, Machine!Backend!Mask,
       Register!Backend!MapThenSumSet, Machine!Backend!MapThenSumSet,
       Register!Backend!MapThenFoldSet, Machine!Backend!MapThenFoldSet
<1> QED BY <1>1, <1>2, <1>3

LEMMA SameGates ==
  /\ Register!Backend!Hadamard = Machine!Backend!Hadamard
  /\ Register!Backend!PauliX = Machine!Backend!PauliX
  /\ Register!Backend!ControlledNot = Machine!Backend!ControlledNot
  /\ \A phase :
       Register!Backend!ControlledPhaseShift(phase) = Machine!Backend!ControlledPhaseShift(phase)
  /\ Register!Backend!Exchange = Machine!Backend!Exchange
<1>1. /\ Register!Backend!Hadamard = Machine!Backend!Hadamard
      /\ Register!Backend!PauliX = Machine!Backend!PauliX
  BY DEF Register!Backend!Hadamard, Machine!Backend!Hadamard, Register!Backend!PauliX,
       Machine!Backend!PauliX, Register!Backend!Matrix, Machine!Backend!Matrix,
       Register!Backend!Rows, Machine!Backend!Rows, Register!Backend!InvSqrt2,
       Machine!Backend!InvSqrt2, Register!Backend!Minus, Machine!Backend!Minus
<1>2. /\ Register!Backend!ControlledNot = Machine!Backend!ControlledNot
      /\ Register!Backend!Exchange = Machine!Backend!Exchange
  BY DEF Register!Backend!ControlledNot, Machine!Backend!ControlledNot,
       Register!Backend!Exchange, Machine!Backend!Exchange, Register!Backend!Matrix,
       Machine!Backend!Matrix, Register!Backend!Rows, Machine!Backend!Rows
<1>3. \A phase :
        Register!Backend!ControlledPhaseShift(phase) = Machine!Backend!ControlledPhaseShift(phase)
  BY DEF Register!Backend!ControlledPhaseShift, Machine!Backend!ControlledPhaseShift,
       Register!Backend!Matrix, Machine!Backend!Matrix, Register!Backend!Rows,
       Machine!Backend!Rows
<1> QED BY <1>1, <1>2, <1>3

LEMMA SameResults == \A o, v : Register!Backend!Result(o, v) = Machine!Backend!Result(o, v)
<1> SUFFICES ASSUME NEW o, NEW v
             PROVE  Register!Backend!Result(o, v) = Machine!Backend!Result(o, v)
  OBVIOUS
<1>1. \A a, b : /\ Register!Backend!Plus(a, b) = Machine!Backend!Plus(a, b)
                /\ Register!Backend!Minus(a, b) = Machine!Backend!Minus(a, b)
                /\ Register!Backend!Times(a, b) = Machine!Backend!Times(a, b)
  BY DEF Register!Backend!Plus, Machine!Backend!Plus, Register!Backend!Minus,
       Machine!Backend!Minus, Register!Backend!Times, Machine!Backend!Times
<1>2. Register!Backend!States = Machine!Backend!States
  BY DEF Register!Backend!States, Machine!Backend!States
<1>3. \A gate, qs : Register!Backend!Applied(gate, qs, v) = Machine!Backend!Applied(gate, qs, v)
  <2> SUFFICES ASSUME NEW gate, NEW qs
               PROVE  Register!Backend!Applied(gate, qs, v) = Machine!Backend!Applied(gate, qs, v)
    OBVIOUS
  <2> QED BY <1>2, SameSums DEF Register!Backend!Applied, Machine!Backend!Applied
<1>4. Register!Backend!Mean(v) = Machine!Backend!Mean(v)
  BY <1>1, SameSums
  DEF Register!Backend!Mean, Machine!Backend!Mean, Register!Backend!InversePower2,
       Machine!Backend!InversePower2, Register!Backend!Half, Machine!Backend!Half
<1>5. \A s, a : Register!Backend!BasisVector(s, a) = Machine!Backend!BasisVector(s, a)
  BY <1>2 DEF Register!Backend!BasisVector, Machine!Backend!BasisVector
<1> QED BY <1>1, <1>2, <1>3, <1>4, <1>5, SameGates
  DEF Register!Backend!Result, Machine!Backend!Result

-------------------------------------------------------------------------------
(* Circuits on vectors.                                                    *)

Vectors == [States!Indices -> Amplitude]

\* What operation o does to v.
Effect(o, v) == Register!Backend!Result(o, v)

LEMMA SameVectors ==
  /\ Machine!Vectors = Vectors /\ Machine!States = States!Indices
  /\ \A o, v : Effect(o, v) = Machine!Backend!Result(o, v)
  /\ \A o \in RunOperations, v \in Vectors : Effect(o, v) \in Vectors
<1>1. Machine!Vectors = Vectors /\ Machine!States = States!Indices
  BY DEF Machine!Vectors, Vectors, Machine!States, States!Indices, States!StateCount,
         Machine!Amplitude, Amplitude
<1>2. \A o, v : Effect(o, v) = Machine!Backend!Result(o, v)
  BY SameResults DEF Effect
<1>3. ASSUME NEW o \in RunOperations, NEW v \in Vectors
      PROVE  Effect(o, v) \in Vectors
  <2>1. Machine!WellFormed(o) /\ v \in Machine!Vectors
    BY <1>1, WellFormedRuns
  <2>2. Machine!Backend!Result(o, v) \in Machine!Vectors
    BY <2>1, MachineAssumptions, Machine!ResultType
  <2> QED BY <1>1, <1>2, <2>2
<1> QED BY <1>1, <1>2, <1>3

LEMMA EvaluatedIsSame == \A v : Evaluated(v) = v
BY DEF Evaluated

\* The vectors after every operation of a circuit.
Track(ops, v, g) ==
  /\ g \in [0..Len(ops) -> Vectors]
  /\ g[0] = v
  /\ \A n \in 1..Len(ops) : g[n] = Effect(ops[n], g[n - 1])

LEMMA CircuitTracks ==
  ASSUME NEW ops \in Seq(RunOperations), NEW v \in Vectors
  PROVE  \E g : Track(ops, v, g) /\ AfterCircuit(ops, v) = g[Len(ops)]
<1> DEFINE n == Len(ops)
           F == [i \in 1..n |-> [w \in Vectors |-> Effect(ops[i], w)]]
           Body(h) == [s \in SUBSET DOMAIN ops |->
                         IF s = {} THEN v
                         ELSE Evaluated(Register!Backend!Result(ops[Max(s)], h[s \ {Max(s)}]))]
           chosen == CHOOSE h : h = Body(h)
<1>1. n \in Nat /\ DOMAIN ops = 1..n /\ \A i \in 1..n : ops[i] \in RunOperations
  OBVIOUS
<1>2. AfterCircuit(ops, v) = chosen[1..n]
  <2>1. AfterCircuit(ops, v) = chosen[DOMAIN ops]
    BY DEF AfterCircuit, FoldLeft, MapThenFoldSet
  <2> QED BY <1>1, <2>1
<1>a. \A h : Body(h) = [s \in SUBSET (1..n) |->
                        IF s = {} THEN v ELSE Effect(ops[Max(s)], h[s \ {Max(s)}])]
  BY <1>1, EvaluatedIsSame DEF Effect
<1> HIDE DEF n
<1>3. F \in [1..n -> [Vectors -> Vectors]]
  BY <1>1, SameVectors
<1>4. \A i \in 1..n, w \in Vectors : F[i][w] = Effect(ops[i], w)
  OBVIOUS
<1> HIDE DEF F
<1>5. PICK g \in [SUBSET (1..n) -> Vectors] : LeftFolding(n, v, F, g)
  BY <1>1, <1>3, LeftFold
<1>6. g = Body(g)
  <2>1. ASSUME NEW s \in SUBSET (1..n)
        PROVE  g[s] = IF s = {} THEN v ELSE Effect(ops[Max(s)], g[s \ {Max(s)}])
    <3>1. g[s] = IF s = {} THEN v ELSE F[Max(s)][g[s \ {Max(s)}]]
      BY <1>5 DEF LeftFolding
    <3>2. s # {} => Max(s) \in 1..n /\ g[s \ {Max(s)}] \in Vectors
      BY <1>1, <1>5, MaxIn
    <3> QED BY <1>4, <3>1, <3>2
  <2> HIDE DEF Body
  <2> QED BY <1>a, <2>1
<1>7. chosen = Body(chosen)
  <2> HIDE DEF Body
  <2> QED BY <1>6
<1>8. \A s \in SUBSET (1..n) :
        chosen[s] = IF s = {} THEN v ELSE Effect(ops[Max(s)], chosen[s \ {Max(s)}])
  <2> HIDE DEF chosen, Body
  <2> QED BY <1>7, <1>a
<1> HIDE DEF chosen, Body
<1>9. chosen[1..0] = v
  BY <1>8, IndexPrefixes
<1>10. ASSUME NEW m \in 1..n
       PROVE  chosen[1..m] = Effect(ops[m], chosen[1..(m - 1)])
  <2>1. m \in Nat /\ m # 0 /\ 1..m \in SUBSET (1..n) /\ m \in 1..m
    BY <1>1
  <2>2. Max(1..m) = m /\ (1..m) \ {m} = 1..(m - 1)
    BY <2>1, IndexPrefixes
  <2> QED BY <1>8, <2>1, <2>2
<1> DEFINE G == {m \in Nat : m <= n => chosen[1..m] \in Vectors}
<1>11. G = Nat
  <2>1. 0 \in G
    BY <1>9
  <2>2. ASSUME NEW m \in G PROVE m + 1 \in G
    <3>1. CASE m + 1 <= n
      <4>1. m + 1 \in 1..n /\ (m + 1) - 1 = m /\ m <= n /\ m \in Nat
        BY <1>1, <3>1
      <4>2. chosen[1..m] \in Vectors
        BY <4>1
      <4>3. chosen[1..(m + 1)] = Effect(ops[m + 1], chosen[1..m])
        BY <1>10, <4>1
      <4> QED BY <1>1, <4>1, <4>2, <4>3, SameVectors
    <3>2. CASE ~(m + 1 <= n)
      BY <3>2
    <3> QED BY <3>1, <3>2
  <2>3. G \in SUBSET Nat
    OBVIOUS
  <2> HIDE DEF G
  <2> QED BY <2>1, <2>2, <2>3, NumberInduction
<1> DEFINE track == [m \in 0..n |-> chosen[1..m]]
<1>12. track \in [0..n -> Vectors]
  BY <1>1, <1>11
<1>13. track[0] = v /\ track[n] = chosen[1..n]
  BY <1>1, <1>9
<1>14. \A m \in 1..n : track[m] = Effect(ops[m], track[m - 1])
  <2> SUFFICES ASSUME NEW m \in 1..n PROVE track[m] = Effect(ops[m], track[m - 1])
    OBVIOUS
  <2>1. m \in 0..n /\ m - 1 \in 0..n
    BY <1>1
  <2> QED BY <1>10, <2>1
<1> HIDE DEF track
<1> QED BY <1>2, <1>12, <1>13, <1>14 DEF Track, n

-------------------------------------------------------------------------------
(* States and the registers made of them.                                  *)

\* A register that no run works on: no batch is open, and its sum is right.
Resting(reg) ==
  /\ reg \in [stored : Vectors, scale : {1, 16}, bias : Amplitude, overlay : BOOLEAN,
              sum : Amplitude \cup {-1}, batchDepth : {0}]
  /\ reg.sum # -1 => reg.sum = Total(States!RegisterAmplitudes(reg))

\* A state a client can hold.
StateOK(s) ==
  /\ DOMAIN s = {"kind", "basisState", "basisAmplitude", "basisStates", "amplitudes", "reg"}
  /\ \/ /\ s.kind \in {"Basis", "BasisAmplitude"}
        /\ s.basisState \in States!Indices /\ s.basisAmplitude \in Amplitude
     \/ s.kind = "UniformSubset" /\ States!UniformVector(s.basisStates) \in Vectors
     \/ s.kind = "Amplitudes" /\ s.amplitudes \in Vectors
     \/ s.kind = "Register" /\ Resting(s.reg)

LEMMA SameField ==
  /\ \A a, b : States!Plus(a, b) = Plus(a, b) /\ States!Times(a, b) = Times(a, b)
  /\ \A a, b \in Int : Plus(a, b) \in Amplitude
  /\ \A a, b \in Amplitude : Times(a, b) \in Amplitude
  /\ {0, 1} \subseteq Amplitude /\ Amplitude \subseteq Int
<1>1. \A a, b : States!Plus(a, b) = Plus(a, b) /\ States!Times(a, b) = Times(a, b)
  BY DEF States!Plus, Plus, States!Times, Times
<1>2. \A a, b \in Int : Plus(a, b) \in Amplitude
  BY DEF Plus, Amplitude
<1>3. ASSUME NEW a \in Amplitude, NEW b \in Amplitude
      PROVE  Times(a, b) \in Amplitude
  <2>1. a * b \in Int
    BY DEF Amplitude
  <2> DEFINE c == a * b
  <2>2. (c % 17) \in 0..16
    <3> HIDE DEF c
    <3> QED BY <2>1 DEF c
  <2> QED BY <2>2 DEF Times, Amplitude
<1> QED BY <1>1, <1>2, <1>3 DEF Amplitude

LEMMA ShownType ==
  ASSUME NEW reg, reg.stored \in Vectors, reg.scale \in {1, 16}, reg.bias \in Amplitude
  PROVE  States!RegisterAmplitudes(reg) \in Vectors
<1>1. ASSUME NEW s \in States!Indices
      PROVE  States!RegisterAmplitude(reg, s) \in Amplitude
  <2>1. reg.stored[s] \in Amplitude /\ reg.scale \in Amplitude
    BY DEF Vectors, Amplitude
  <2>2. Times(reg.scale, reg.stored[s]) \in Int /\ reg.bias \in Int
    BY <2>1, SameField
  <2>3. Plus(Times(reg.scale, reg.stored[s]), reg.bias) \in Amplitude
    BY <2>2, SameField
  <2> QED BY <2>1, <2>3, SameField DEF States!RegisterAmplitude
<1> QED BY <1>1 DEF States!RegisterAmplitudes, Vectors

LEMMA NewResting ==
  ASSUME NEW v \in Vectors
  PROVE  /\ Resting(States!NewRegister(v))
         /\ States!RegisterAmplitudes(States!NewRegister(v)) = v
<1> DEFINE reg == States!NewRegister(v)
<1>1. /\ reg = [stored |-> v, scale |-> 1, bias |-> 0, overlay |-> FALSE, sum |-> -1,
               batchDepth |-> 0]
      /\ 0 \in Amplitude
  BY DEF States!NewRegister, States!NoSum, Amplitude
<1>2. States!RegisterAmplitudes(reg) = [s \in States!Indices |-> v[s]]
  BY <1>1 DEF States!RegisterAmplitudes, States!RegisterAmplitude
<1> HIDE DEF reg
<1>3. Resting(reg)
  BY <1>1 DEF Resting
<1>4. v = [s \in States!Indices |-> v[s]]
  BY DEF Vectors
<1> QED BY <1>2, <1>3, <1>4 DEF reg

(* A register made of a state shows what the state does.                   *)
LEMMA MaterializeResting ==
  ASSUME NEW s, StateOK(s)
  PROVE  /\ Resting(States!Materialize(s)) /\ States!AmplitudesOf(s) \in Vectors
         /\ States!RegisterAmplitudes(States!Materialize(s)) = States!AmplitudesOf(s)
<1>1. CASE s.kind \in {"Basis", "BasisAmplitude"}
  <2> DEFINE v == States!BasisVector(s.basisState, s.basisAmplitude)
  <2>1. s.basisAmplitude \in Amplitude
    BY <1>1 DEF StateOK
  <2>2. v \in Vectors
    BY <2>1, SameField DEF States!BasisVector, Vectors
  <2> HIDE DEF v
  <2>3. States!Materialize(s) = States!NewRegister(v)
    BY <1>1 DEF States!Materialize, v
  <2>4. States!AmplitudesOf(s) = States!RegisterAmplitudes(States!Materialize(s))
    BY <1>1 DEF States!AmplitudesOf
  <2> QED BY <2>2, <2>3, <2>4, NewResting
<1>2. CASE s.kind = "UniformSubset"
  <2> DEFINE v == States!UniformVector(s.basisStates)
  <2>1. v \in Vectors
    BY <1>2 DEF StateOK
  <2> HIDE DEF v
  <2>2. States!Materialize(s) = States!NewRegister(v)
    BY <1>2 DEF States!Materialize, v
  <2>3. States!AmplitudesOf(s) = States!RegisterAmplitudes(States!Materialize(s))
    BY <1>2 DEF States!AmplitudesOf
  <2> QED BY <2>1, <2>2, <2>3, NewResting
<1>3. CASE s.kind = "Amplitudes"
  <2>1. s.amplitudes \in Vectors /\ States!AmplitudesOf(s) = s.amplitudes
    BY <1>3 DEF StateOK, States!AmplitudesOf
  <2>2. States!Materialize(s) = States!NewRegister(s.amplitudes)
    BY <1>3 DEF States!Materialize
  <2> QED BY <2>1, <2>2, NewResting
<1>4. CASE s.kind = "Register"
  <2>1. Resting(s.reg) /\ States!Materialize(s) = s.reg
    BY <1>4 DEF StateOK, States!Materialize
  <2>2. States!AmplitudesOf(s) = States!RegisterAmplitudes(s.reg)
    BY <1>4 DEF States!AmplitudesOf
  <2>3. States!RegisterAmplitudes(s.reg) \in Vectors
    BY <2>1, ShownType DEF Resting
  <2> QED BY <2>1, <2>2, <2>3
<1> QED BY <1>1, <1>2, <1>3, <1>4 DEF StateOK

LEMMA ConstructedOK ==
  ASSUME NEW s, States!Constructed(s)
  PROVE  StateOK(s)
<1>1. DOMAIN States!Impl
        = {"kind", "basisState", "basisAmplitude", "basisStates", "amplitudes", "reg"}
      /\ States!Impl.basisAmplitude = 1 /\ States!Impl.kind = "Basis"
  BY DEF States!Impl
<1>2. \/ s.basisState \in States!Indices /\ s = States!Basis(s.basisState)
      \/ /\ s.basisState \in States!Indices /\ s.basisAmplitude \in Amplitude
         /\ s = States!BasisAmplitude(s.basisState, s.basisAmplitude)
      \/ /\ s.basisStates \in Seq(States!Indices)
         /\ \E k \in 0..NumQubits : States!Cardinality(States!Range(s.basisStates)) = 2^k
         /\ s = States!UniformSubset(s.basisStates)
      \/ /\ s.amplitudes \in Vectors
         /\ s = States!FromAmplitudes(s.amplitudes)
  <2>1. States!Amplitude = Amplitude
    BY DEF States!Amplitude, Amplitude
  <2>2. Vectors = [States!Indices -> States!Amplitude]
    BY <2>1 DEF Vectors
  <2> QED BY <2>1, <2>2 DEF States!Constructed
<1>3. CASE s.basisState \in States!Indices /\ s = States!Basis(s.basisState)
  <2>1. s = [States!Impl EXCEPT !.basisState = s.basisState]
    BY <1>3 DEF States!Basis
  <2>2. /\ DOMAIN s = DOMAIN States!Impl
        /\ s.basisAmplitude = States!Impl.basisAmplitude /\ s.kind = States!Impl.kind
    BY <2>1, <1>1
  <2>3. s.basisAmplitude \in Amplitude
    BY <1>1, <2>2, SameField
  <2> QED BY <1>1, <1>3, <2>2, <2>3 DEF StateOK
<1>4. CASE /\ s.basisState \in States!Indices /\ s.basisAmplitude \in Amplitude
           /\ s = States!BasisAmplitude(s.basisState, s.basisAmplitude)
  <2>1. s = [States!Impl EXCEPT !.kind = "BasisAmplitude", !.basisState = s.basisState,
                                !.basisAmplitude = s.basisAmplitude]
    BY <1>4 DEF States!BasisAmplitude
  <2>2. DOMAIN s = DOMAIN States!Impl /\ s.kind = "BasisAmplitude"
    BY <2>1, <1>1
  <2> QED BY <1>1, <1>4, <2>2 DEF StateOK
<1>5. CASE /\ s.basisStates \in Seq(States!Indices)
           /\ \E k \in 0..NumQubits : States!Cardinality(States!Range(s.basisStates)) = 2^k
           /\ s = States!UniformSubset(s.basisStates)
  <2>1. s = [States!Impl EXCEPT !.kind = "UniformSubset", !.basisStates = s.basisStates]
    BY <1>5 DEF States!UniformSubset
  <2>2. DOMAIN s = DOMAIN States!Impl /\ s.kind = "UniformSubset"
    BY <2>1, <1>1
  <2> DEFINE count == States!Cardinality(States!Range(s.basisStates))
             n == CHOOSE k \in 0..NumQubits : 2^k = count
             power == InvSqrt2 ^ n
  <2>3. n \in 0..NumQubits
    BY <1>5
  <2>4. power \in Int
    <3> HIDE DEF n
    <3> QED BY <2>3, PowersAssumption
  <2>5. States!InverseRoot(count) = (power % 17)
    BY DEF States!InverseRoot, States!InvSqrt2, InvSqrt2
  <2> HIDE DEF power, count
  <2>6. States!InverseRoot(count) \in Amplitude
    BY <2>4, <2>5 DEF Amplitude
  <2> DEFINE amplitude == States!InverseRoot(count)
  <2>a. States!UniformVector(s.basisStates)
          = [t \in States!Indices |-> IF t \in States!Range(s.basisStates) THEN amplitude ELSE 0]
    BY DEF States!UniformVector, count
  <2> HIDE DEF amplitude
  <2>7. States!UniformVector(s.basisStates) \in Vectors
    BY <2>6, <2>a, SameField DEF Vectors, amplitude
  <2> QED BY <1>1, <2>2, <2>7 DEF StateOK
<1>6. CASE s.amplitudes \in Vectors /\ s = States!FromAmplitudes(s.amplitudes)
  <2>1. s = [States!Impl EXCEPT !.kind = "Amplitudes", !.amplitudes = s.amplitudes]
    BY <1>6 DEF States!FromAmplitudes
  <2>2. DOMAIN s = DOMAIN States!Impl /\ s.kind = "Amplitudes"
    BY <2>1, <1>1
  <2> QED BY <1>1, <1>6, <2>2 DEF StateOK
<1> QED BY <1>2, <1>3, <1>4, <1>5, <1>6

-------------------------------------------------------------------------------
(* The register of a run, from its making to its end.                      *)

LEMMA SameOverlay ==
  /\ \A a : Register!ApplyAffineOverlay(a) = Machine!ApplyAffineOverlay(a)
  /\ \A a : Register!RemoveAffineOverlay(a) = Machine!RemoveAffineOverlay(a)
  /\ Register!Logical = Machine!Logical /\ Register!Materialized = Machine!Materialized
  /\ Register!LogicalAmplitudeSum = Machine!LogicalAmplitudeSum
  /\ Register!AffineTransform = Machine!AffineTransform
<1>1. \A a : Register!ApplyAffineOverlay(a) = Machine!ApplyAffineOverlay(a)
  BY DEF Register!ApplyAffineOverlay, Machine!ApplyAffineOverlay, Register!Plus,
         Machine!Plus, Register!Times, Machine!Times
<1>2. \A a : Register!RemoveAffineOverlay(a) = Machine!RemoveAffineOverlay(a)
  BY DEF Register!RemoveAffineOverlay, Machine!RemoveAffineOverlay, Register!Minus,
         Machine!Minus, Register!Quotient, Machine!Quotient, Register!Times, Machine!Times,
         Register!Amplitude, Machine!Amplitude
<1>3. Register!Logical = Machine!Logical
  BY <1>1 DEF Register!Logical, Machine!Logical, Register!States, Machine!States
<1>4. Register!AffineTransform = Machine!AffineTransform
  BY DEF Register!AffineTransform, Machine!AffineTransform
<1>5. Register!Materialized = Machine!Materialized
  BY <1>4, SameResults DEF Register!Materialized, Machine!Materialized
<1>6. \A f : Register!Total(f) = Machine!Total(f)
  BY DEF Register!Total, Machine!Total, Register!SumFunction, Machine!SumFunction,
         Register!SumFunctionOnSet, Machine!SumFunctionOnSet, Register!FoldFunctionOnSet,
         Machine!FoldFunctionOnSet, Register!MapThenFoldSet, Machine!MapThenFoldSet
<1>7. Register!LogicalAmplitudeSum = Machine!LogicalAmplitudeSum
  BY <1>3, <1>6 DEF Register!LogicalAmplitudeSum, Machine!LogicalAmplitudeSum,
     Register!NoSum, Machine!NoSum
<1> QED BY <1>1, <1>2, <1>3, <1>4, <1>5, <1>7

LEMMA SameEndings ==
  /\ Register!NoRequest = Machine!NoRequest /\ Register!NoSum = Machine!NoSum
  /\ \A names : Register!Over(names) <=> Machine!Over(names)
  /\ Register!ResetAffineOverlay <=> Machine!ResetAffineOverlay
  /\ \A sum, throws : Register!SumAfter(sum, throws) <=> Machine!SumAfter(sum, throws)
  /\ \A o, v : Register!Returns(o, v) <=> Machine!Returns(o, v)
  /\ \A o, v : ~Register!Throws(o, v) /\ ~Register!FlushThrows
  /\ \A a, b : Register!Minus(a, b) = Machine!Minus(a, b)
  /\ \A a, b : Register!Times(a, b) = Machine!Times(a, b)
<1>1. Register!NoRequest = Machine!NoRequest /\ Register!NoSum = Machine!NoSum
  BY DEF Register!NoRequest, Machine!NoRequest, Register!NoSum, Machine!NoSum
<1>2. \A names : Register!Over(names) <=> Machine!Over(names)
  BY <1>1 DEF Register!Over, Machine!Over
<1>3. Register!ResetAffineOverlay <=> Machine!ResetAffineOverlay
  BY DEF Register!ResetAffineOverlay, Machine!ResetAffineOverlay
<1>4. \A sum, throws : Register!SumAfter(sum, throws) <=> Machine!SumAfter(sum, throws)
  BY <1>1 DEF Register!SumAfter, Machine!SumAfter
<1>5. \A o, v : Register!Returns(o, v) <=> Machine!Returns(o, v)
  BY SameResults DEF Register!Returns, Machine!Returns
<1>6. \A o, v : ~Register!Throws(o, v) /\ ~Register!FlushThrows
  BY DEF Register!Throws, Register!FlushThrows
<1>7. /\ \A a, b : Register!Minus(a, b) = Machine!Minus(a, b)
      /\ \A a, b : Register!Times(a, b) = Machine!Times(a, b)
  BY DEF Register!Minus, Machine!Minus, Register!Times, Machine!Times
<1> QED BY <1>1, <1>2, <1>3, <1>4, <1>5, <1>6, <1>7

(* The operations of a run are those of the register.                      *)
LEMMA SameOperations ==
  /\ Register!ApplyGate => Machine!ApplyGate
  /\ Register!ApplySwap => Machine!ApplySwap
  /\ Register!ApplyPhaseFlipBasisState => Machine!ApplyPhaseFlipBasisState
  /\ Register!ApplyInversionAboutMean => Machine!ApplyInversionAboutMean
<1>1. Register!ApplyGate => Machine!ApplyGate
  BY SameOverlay, SameEndings DEF Register!ApplyGate, Machine!ApplyGate
<1>2. Register!ApplySwap => Machine!ApplySwap
  BY SameOverlay, SameEndings, SameResults DEF Register!ApplySwap, Machine!ApplySwap
<1>3. Register!ApplyPhaseFlipBasisState => Machine!ApplyPhaseFlipBasisState
  BY SameOverlay, SameEndings DEF Register!ApplyPhaseFlipBasisState,
     Machine!ApplyPhaseFlipBasisState, Register!overlayVars, Machine!overlayVars
<1>4. \A sum, mean : Register!InvertedSum(sum, mean) = Machine!InvertedSum(sum, mean)
  BY SameEndings DEF Register!InvertedSum, Machine!InvertedSum, Register!NumStates,
     Machine!NumStates
<1>5. \A sum, mean : Register!Invert(sum, mean) => Machine!Invert(sum, mean)
  BY <1>4, SameEndings DEF Register!Invert, Machine!Invert
<1>6. \A sum, mean : Register!InvertMaterialized(sum, mean)
                       => Machine!InvertMaterialized(sum, mean)
  BY <1>4, SameOverlay, SameEndings DEF Register!InvertMaterialized, Machine!InvertMaterialized
<1>7. Register!ApplyInversionAboutMean => Machine!ApplyInversionAboutMean
  BY <1>5, <1>6, SameOverlay, SameEndings DEF Register!ApplyInversionAboutMean,
     Machine!ApplyInversionAboutMean, Register!InversePower2, Machine!InversePower2,
     Register!Half, Machine!Half
<1> QED BY <1>1, <1>2, <1>3, <1>7

(* They return: only its back end could make the register throw.           *)
LEMMA OperationsReturn ==
  ASSUME \/ Register!ApplyGate \/ Register!ApplySwap \/ Register!ApplyPhaseFlipBasisState
         \/ Register!ApplyInversionAboutMean,
         thrown = FALSE
  PROVE  thrown' = FALSE /\ outcome' = "returned"
<1>1. \E sum : Register!SumAfter(sum, FALSE)
  <2>1. CASE Register!ApplyGate
    BY <2>1, SameEndings DEF Register!ApplyGate
  <2>2. CASE Register!ApplySwap
    BY <2>2, SameEndings DEF Register!ApplySwap
  <2>3. CASE Register!ApplyPhaseFlipBasisState
    BY <2>3, SameEndings DEF Register!ApplyPhaseFlipBasisState
  <2>4. CASE Register!ApplyInversionAboutMean
    BY <2>4, SameEndings DEF Register!ApplyInversionAboutMean, Register!Invert,
       Register!InvertMaterialized
  <2> QED BY <2>1, <2>2, <2>3, <2>4
<1> QED BY <1>1 DEF Register!SumAfter

\* The register of a run is well typed, its sum right.
RegisterOK == Machine!TypeOK /\ Machine!SumRecovers /\ thrown = FALSE

LEMMA SameAmplitudes ==
  Machine!Minus(0, 1) = 16 /\ Machine!Amplitude = Amplitude /\ Machine!NoSum = -1
<1>1. Machine!Minus(0, 1) = 16
  BY MachineAssumptions, Machine!Scales
<1>2. Machine!Amplitude = Amplitude /\ Machine!NoSum = -1
  BY DEF Machine!Amplitude, Amplitude, Machine!NoSum
<1> QED BY <1>1, <1>2

LEMMA SameTotal == \A f : Machine!Total(f) = Total(f)
<1> SUFFICES ASSUME NEW f PROVE Machine!Total(f) = Total(f)
  OBVIOUS
<1> QED BY DEF Machine!Total, Total, Machine!SumFunction, SumFunction,
     Machine!SumFunctionOnSet, SumFunctionOnSet, Machine!FoldFunctionOnSet,
     FoldFunctionOnSet, Machine!MapThenFoldSet, MapThenFoldSet

(* A state made of the register shows what the register does.              *)
LEMMA RegisterShown ==
  ASSUME RegisterOK
  PROVE  /\ Resting(CurrentRegister(0))
         /\ States!RegisterAmplitudes(CurrentRegister(0)) = Machine!Logical
<1> DEFINE reg == CurrentRegister(0)
<1>1. /\ stored \in Vectors /\ affineScale \in {1, 16} /\ affineBias \in Amplitude
      /\ affineOverlayActive \in BOOLEAN /\ cachedSum \in Amplitude \cup {-1}
  BY SameVectors, SameAmplitudes DEF RegisterOK, Machine!TypeOK, Vectors
<1>2. reg = [stored |-> stored, scale |-> affineScale, bias |-> affineBias,
             overlay |-> affineOverlayActive, sum |-> cachedSum, batchDepth |-> 0]
  BY DEF CurrentRegister
<1>3. reg \in [stored : Vectors, scale : {1, 16}, bias : Amplitude, overlay : BOOLEAN,
               sum : Amplitude \cup {-1}, batchDepth : {0}]
  BY <1>1, <1>2
<1>4. \A s : States!RegisterAmplitude(reg, s) = Machine!ApplyAffineOverlay(stored[s])
  BY <1>2 DEF States!RegisterAmplitude, Machine!ApplyAffineOverlay, States!Plus,
     Machine!Plus, States!Times, Machine!Times
<1>5. States!RegisterAmplitudes(reg) = Machine!Logical
  BY <1>4, SameVectors DEF States!RegisterAmplitudes, Machine!Logical
<1>6. reg.sum # -1 => reg.sum = Total(States!RegisterAmplitudes(reg))
  BY <1>2, <1>5, SameTotal DEF RegisterOK, Machine!SumRecovers, Machine!CachedSumIsSum,
     Machine!NoSum
<1> QED BY <1>3, <1>5, <1>6 DEF Resting

(* A run's register shows what the state it is made of does.               *)
LEMMA RegisterMade ==
  ASSUME NEW reg, Resting(reg), Becomes(reg), thrown' = FALSE,
         outcome' \in {"returned", "threw"}, left' \in 0..MaxCalls,
         request' = Machine!NoRequest
  PROVE  RegisterOK' /\ Machine!Logical' = States!RegisterAmplitudes(reg)
<1>1. /\ stored' = reg.stored /\ affineScale' = reg.scale /\ affineBias' = reg.bias
      /\ affineOverlayActive' = reg.overlay /\ cachedSum' = reg.sum
  BY DEF Becomes
<1>2. /\ reg.stored \in Vectors /\ reg.scale \in {1, 16} /\ reg.bias \in Amplitude
      /\ reg.overlay \in BOOLEAN /\ reg.sum \in Amplitude \cup {-1}
      /\ reg.sum # -1 => reg.sum = Total(States!RegisterAmplitudes(reg))
  BY DEF Resting
<1>3. \A s : States!RegisterAmplitude(reg, s)
               = IF affineOverlayActive'
                 THEN Machine!Plus(Machine!Times(affineScale', stored'[s]), affineBias')
                 ELSE stored'[s]
  BY <1>1 DEF States!RegisterAmplitude, States!Plus, Machine!Plus, States!Times, Machine!Times
<1>4. Machine!Logical' = States!RegisterAmplitudes(reg)
  BY <1>3, SameVectors DEF States!RegisterAmplitudes, Machine!Logical,
     Machine!ApplyAffineOverlay
<1>5. Machine!TypeOK'
  <2>1. Machine!Minus(0, 1) = 16 /\ Machine!Amplitude = Amplitude /\ Machine!NoSum = -1
    BY SameAmplitudes
  <2>2. stored' \in [Machine!States -> Machine!Amplitude]
    BY <1>1, <1>2, <2>1, SameVectors DEF Vectors
  <2> QED BY <1>1, <1>2, <2>1, <2>2 DEF Machine!TypeOK
<1>6. Machine!SumRecovers'
  <2>1. cachedSum' # -1 => cachedSum' = Total(Machine!Logical')
    BY <1>1, <1>2, <1>4
  <2>2. cachedSum' # Machine!NoSum => cachedSum' = Machine!Total(Machine!Logical)'
    BY <2>1, SameTotal DEF Machine!NoSum
  <2> QED BY <2>2 DEF Machine!SumRecovers, Machine!CachedSumIsSum
<1> QED BY <1>4, <1>5, <1>6 DEF RegisterOK

(* An operation of a run takes the logical vector where it should.         *)
LEMMA RunOperates ==
  ASSUME RegisterOK, Operate
  PROVE  /\ RegisterOK' /\ outcome' = "returned" /\ request # Machine!NoRequest
         /\ request' = Machine!NoRequest /\ left' \in 0..MaxCalls
         /\ Machine!Logical' = Effect(request, Machine!Logical)
<1>1. /\ \/ Register!ApplyGate \/ Register!ApplySwap \/ Register!ApplyPhaseFlipBasisState
         \/ Register!ApplyInversionAboutMean
      /\ thrown = FALSE
  BY DEF Operate, RegisterOK
<1>2. thrown' = FALSE /\ outcome' = "returned"
  BY <1>1, OperationsReturn
<1>3. Machine!Operation
  BY <1>1, SameOperations DEF Machine!Operation
<1>4. Machine!RegisterInv
  BY DEF RegisterOK, Machine!RegisterInv
<1>5. Machine!Done /\ request # Machine!NoRequest /\ request' = Machine!NoRequest
  BY <1>3, <1>4, MachineAssumptions, Machine!OperationStep
<1>6. /\ Machine!TypeOK' /\ (~thrown' => Machine!CachedSumIsSum')
      /\ (~thrown /\ outcome' = "returned"
            => Machine!Logical' = Machine!Backend!Result(request, Machine!Logical))
  BY <1>5 DEF Machine!Done
<1>7. Machine!SumRecovers'
  BY <1>6 DEF Machine!SumRecovers
<1>8. left' \in 0..MaxCalls
  BY <1>6 DEF Machine!TypeOK
<1> QED BY <1>1, <1>2, <1>5, <1>6, <1>7, <1>8, SameVectors DEF RegisterOK

-------------------------------------------------------------------------------
(* The invariant.                                                          *)

\* The register holds what the operations that are over make of the vector the
\* client still sees.
OnTrack ==
  LET ops == running.operations
      before == States!AmplitudesOf(state)
  IN /\ position \in 1..(Len(ops) + 1)
     /\ \E g : /\ Track(ops, before, g) /\ AfterCircuit(ops, before) = g[Len(ops)]
               /\ \/ request = Machine!NoRequest /\ Machine!Logical = g[position - 1]
                  \/ /\ position > 1 /\ request = ops[position - 1]
                     /\ Machine!Logical = g[position - 2]

SimulationInv ==
  /\ StateOK(state)
  /\ thrown = FALSE /\ outcome \in {"returned", "threw"} /\ left \in 0..MaxCalls
  /\ running \in CircuitsRun \cup {NoCircuit}
  /\ InRun => batchDepth = 1 /\ RegisterOK /\ OnTrack
  /\ ~InRun => request = Machine!NoRequest

LEMMA SimulationStart == Init => SimulationInv
<1> SUFFICES ASSUME Init PROVE SimulationInv
  OBVIOUS
<1>1. StateOK(state)
  BY StatesAssumption, ConstructedOK DEF Init
<1>2. ~InRun /\ request = Machine!NoRequest /\ left \in 0..MaxCalls
  BY SameEndings, CallsAssumption DEF Init, InRun
<1> QED BY <1>1, <1>2 DEF Init, SimulationInv

(* Between runs there is no register to speak of.                          *)
LEMMA IdleStep ==
  ASSUME StateOK(state'), thrown' = FALSE, outcome' \in {"returned", "threw"},
         left' \in 0..MaxCalls, running' \in CircuitsRun \cup {NoCircuit}, ~InRun',
         request' = Machine!NoRequest
  PROVE  SimulationInv'
BY DEF SimulationInv

(* A client gives its state an amplitude.                                  *)
LEMMA SetAmplitudeStep ==
  ASSUME SimulationInv, NEW u \in Updates, SetAmplitude(u[1], u[2])
  PROVE  /\ SimulationInv'
         /\ States!AmplitudesOf(state') = [States!AmplitudesOf(state) EXCEPT ![u[1]] = u[2]]
<1> DEFINE v == [States!AmplitudesOf(state) EXCEPT ![u[1]] = u[2]]
<1>1. v \in Vectors
  <2>1. u[1] \in States!Indices /\ u[2] \in Amplitude
    BY UpdatesAssumption
  <2>2. States!AmplitudesOf(state) \in Vectors
    BY MaterializeResting DEF SimulationInv
  <2> QED BY <2>1, <2>2 DEF Vectors
<1>2. state' = [state EXCEPT !.kind = "Amplitudes", !.amplitudes = v]
  BY DEF SetAmplitude, States!SetAmplitude, States!LoadAmplitudes
<1> HIDE DEF v
<1>3. DOMAIN state' = DOMAIN state /\ state'.kind = "Amplitudes" /\ state'.amplitudes = v
  BY <1>2 DEF SimulationInv, StateOK
<1>4. StateOK(state') /\ States!AmplitudesOf(state') = v
  BY <1>1, <1>3 DEF SimulationInv, StateOK, States!AmplitudesOf
<1>5. /\ running = NoCircuit /\ running' = running /\ outcome' = outcome
      /\ request' = request /\ thrown' = thrown /\ left' \in 0..MaxCalls
  BY CallsAssumption DEF SetAmplitude, ClientCalls, callVars, SimulationInv
<1>6. ~InRun /\ ~InRun'
  BY <1>5 DEF InRun
<1> QED BY <1>4, <1>5, <1>6, IdleStep DEF SimulationInv, v

(* A client runs a circuit: a register is made of its state.               *)
LEMMA RunStep ==
  ASSUME SimulationInv, NEW circuit \in CircuitsRun, Run(circuit)
  PROVE  SimulationInv' /\ state' = state
<1> DEFINE reg == States!Materialize(state)
           before == States!AmplitudesOf(state)
           ops == circuit.operations
<1>1. Resting(reg) /\ States!RegisterAmplitudes(reg) = before /\ before \in Vectors
  BY MaterializeResting DEF SimulationInv
<1>2. /\ Becomes(reg) /\ batchDepth' = reg.batchDepth + 1 /\ running' = circuit
      /\ position' = 1 /\ outcome' = "returned" /\ state' = state /\ request' = request
      /\ thrown' = thrown /\ left' \in 0..MaxCalls /\ running = NoCircuit
  BY CallsAssumption DEF Run, ClientCalls, SimulationInv
<1>3. batchDepth' = 1
  BY <1>1, <1>2 DEF Resting
<1>4. request' = Machine!NoRequest /\ thrown' = FALSE
  BY <1>2 DEF SimulationInv, InRun
<1>5. RegisterOK' /\ Machine!Logical' = before
  BY <1>1, <1>2, <1>4, RegisterMade
<1>6. ops \in Seq(RunOperations) /\ Len(ops) \in Nat
  BY CircuitsAssumption
<1>7. PICK g : Track(ops, before, g) /\ AfterCircuit(ops, before) = g[Len(ops)]
  BY <1>1, <1>6, CircuitTracks
<1>8. g[0] = before
  BY <1>7 DEF Track
<1>9. position' \in 1..(Len(ops) + 1) /\ position' - 1 = 0
  BY <1>2, <1>6
<1> HIDE DEF reg, before
<1>10. OnTrack'
  <2>1. States!AmplitudesOf(state)' = before /\ running'.operations = ops
    BY <1>2 DEF before
  <2> HIDE DEF ops
  <2> QED BY <1>4, <1>5, <1>7, <1>8, <1>9, <2>1 DEF OnTrack
<1>11. InRun'
  BY <1>2, CircuitsAssumption DEF InRun, NoCircuit
<1> QED BY <1>2, <1>3, <1>4, <1>5, <1>10, <1>11 DEF SimulationInv

(* The run goes on to the circuit's next operation.                        *)
LEMMA ExecuteStep ==
  ASSUME SimulationInv, Execute
  PROVE  SimulationInv' /\ state' = state
<1> DEFINE before == States!AmplitudesOf(state)
           ops == running.operations
<1>1. /\ InRun /\ request = Machine!NoRequest /\ position <= Len(ops)
      /\ request' = ops[position] /\ position' = position + 1
      /\ state' = state /\ running' = running /\ batchDepth' = batchDepth
      /\ outcome' = outcome /\ thrown' = thrown /\ left' = left
      /\ UNCHANGED <<stored, affineScale, affineBias, affineOverlayActive, cachedSum>>
  BY SameEndings DEF Execute, registerVars
<1>2. running \in CircuitsRun /\ ops \in Seq(RunOperations) /\ Len(ops) \in Nat
  BY <1>1, CircuitsAssumption DEF SimulationInv, InRun
<1>3. batchDepth = 1 /\ RegisterOK /\ OnTrack
  BY <1>1 DEF SimulationInv
<1>4. position \in 1..Len(ops) /\ position' \in 1..(Len(ops) + 1) /\ position' > 1
      /\ position' - 1 = position /\ position' - 2 = position - 1
  BY <1>1, <1>2, <1>3 DEF OnTrack
<1>5. ops[position] \in RunOperations
  BY <1>2, <1>4
<1>6. Machine!Logical' = Machine!Logical
  BY <1>1 DEF Machine!Logical, Machine!ApplyAffineOverlay, Machine!Plus, Machine!Times,
     Machine!States
<1>7. RegisterOK'
  <2>1. Machine!TypeOK'
    BY <1>1, <1>3, <1>5 DEF RegisterOK, Machine!TypeOK, Machine!States
  <2>2. Machine!SumRecovers'
    BY <1>1, <1>3, <1>6, SameTotal DEF RegisterOK, Machine!SumRecovers,
       Machine!CachedSumIsSum
  <2> QED BY <1>1, <1>3, <2>1, <2>2 DEF RegisterOK
<1>8. PICK g : /\ Track(ops, before, g) /\ AfterCircuit(ops, before) = g[Len(ops)]
               /\ Machine!Logical = g[position - 1]
  <2>1. ASSUME request = ops[position - 1], position > 1 PROVE FALSE
    <3>1. position - 1 \in 1..Len(ops)
      BY <1>2, <1>4, <2>1
    <3>2. ops[position - 1] \in RunOperations
      BY <1>2, <3>1
    <3> QED BY <1>1, <2>1, <3>2, CircuitsAssumption DEF Machine!NoRequest
  <2> QED BY <1>3, <2>1 DEF OnTrack
<1>9. OnTrack'
  <2>1. States!AmplitudesOf(state)' = before /\ running'.operations = ops
    BY <1>1
  <2> HIDE DEF ops, before
  <2> QED BY <1>1, <1>4, <1>6, <1>8, <2>1 DEF OnTrack
<1>10. InRun'
  BY <1>1 DEF InRun
<1> QED BY <1>1, <1>3, <1>7, <1>9, <1>10 DEF SimulationInv

(* The register carries an operation out.                                  *)
LEMMA OperateStep ==
  ASSUME SimulationInv, Operate
  PROVE  SimulationInv' /\ state' = state
<1> DEFINE before == States!AmplitudesOf(state)
           ops == running.operations
<1>1. InRun /\ state' = state /\ running' = running /\ batchDepth' = batchDepth
      /\ position' = position
  BY DEF Operate
<1>2. batchDepth = 1 /\ RegisterOK /\ OnTrack
  BY <1>1 DEF SimulationInv
<1>3. /\ RegisterOK' /\ outcome' = "returned" /\ request # Machine!NoRequest
      /\ request' = Machine!NoRequest /\ left' \in 0..MaxCalls
      /\ Machine!Logical' = Effect(request, Machine!Logical)
  BY <1>2, RunOperates
<1>4. PICK g : /\ Track(ops, before, g) /\ AfterCircuit(ops, before) = g[Len(ops)]
               /\ position > 1 /\ request = ops[position - 1]
               /\ Machine!Logical = g[position - 2]
  BY <1>2, <1>3 DEF OnTrack
<1>5. position \in 1..(Len(ops) + 1) /\ Len(ops) \in Nat
  BY <1>1, <1>2, CircuitsAssumption DEF OnTrack, SimulationInv, InRun
<1>6. Machine!Logical' = g[position - 1]
  <2>1. position - 1 \in 1..Len(ops) /\ (position - 1) - 1 = position - 2
    BY <1>4, <1>5
  <2>2. g[position - 1] = Effect(ops[position - 1], g[position - 2])
    BY <1>4, <2>1 DEF Track
  <2> QED BY <1>3, <1>4, <2>2
<1>7. OnTrack'
  <2>1. States!AmplitudesOf(state)' = before /\ running'.operations = ops
    BY <1>1
  <2> HIDE DEF ops, before
  <2> QED BY <1>1, <1>3, <1>4, <1>5, <1>6, <2>1 DEF OnTrack
<1>8. InRun'
  BY <1>1, <1>3 DEF InRun
<1> QED BY <1>1, <1>2, <1>3, <1>7, <1>8 DEF SimulationInv, RegisterOK

(* An operation throws, or the flush at the end of the batch.              *)
LEMMA ThrowStep ==
  ASSUME SimulationInv, OperationThrows \/ EndBatchThrows
  PROVE  SimulationInv' /\ state' = state
<1>1. /\ state' = state /\ running' = running /\ outcome' = "threw" /\ thrown' = thrown
      /\ left' = left /\ request' = Machine!NoRequest
  BY SameEndings DEF OperationThrows, EndBatchThrows, AtEnd
<1>2. ~InRun'
  BY <1>1 DEF InRun
<1> QED BY <1>1, <1>2, IdleStep DEF SimulationInv

LEMMA UnwindStep ==
  ASSUME SimulationInv, Unwind
  PROVE  SimulationInv' /\ state' = state
<1>1. /\ state' = state /\ running' = NoCircuit /\ outcome' = outcome /\ thrown' = thrown
      /\ left' = left /\ request' = request /\ outcome = "threw"
  BY DEF Unwind, Release
<1>2. ~InRun /\ ~InRun'
  BY <1>1 DEF InRun
<1> QED BY <1>1, <1>2, IdleStep DEF SimulationInv

(* A run that is through hands its register over, with the circuit carried *)
(* out on it and no batch open.                                            *)
LEMMA EndRunStep ==
  ASSUME SimulationInv, EndRun
  PROVE  /\ SimulationInv' /\ state'.kind = "Register" /\ state'.reg.batchDepth = 0
         /\ States!AmplitudesOf(state')
              = AfterCircuit(running.operations, States!AmplitudesOf(state))
<1> DEFINE before == States!AmplitudesOf(state)
           ops == running.operations
           reg == CurrentRegister(0)
<1>1. /\ InRun /\ request = Machine!NoRequest /\ position > Len(ops)
      /\ running' = NoCircuit /\ request' = request /\ thrown' = thrown /\ left' = left
      /\ outcome' = "returned" /\ state' = States!FromRegister(CurrentRegister(batchDepth - 1))
  BY SameEndings DEF EndRun, AtEnd, Release
<1>2. batchDepth = 1 /\ RegisterOK /\ OnTrack
  BY <1>1 DEF SimulationInv
<1>3. ops \in Seq(RunOperations) /\ Len(ops) \in Nat
  BY <1>1, CircuitsAssumption DEF SimulationInv, InRun
<1>4. position = Len(ops) + 1 /\ position - 1 = Len(ops)
  BY <1>1, <1>2, <1>3 DEF OnTrack
<1>5. Machine!Logical = AfterCircuit(ops, before)
  <2>1. ASSUME request = ops[position - 1], position > 1 PROVE FALSE
    <3>1. position - 1 \in 1..Len(ops)
      BY <1>3, <1>4, <2>1
    <3>2. ops[position - 1] \in RunOperations
      BY <1>3, <3>1
    <3> QED BY <1>1, <2>1, <3>2, CircuitsAssumption DEF Machine!NoRequest
  <2> QED BY <1>2, <1>4, <2>1 DEF OnTrack
<1>6. Resting(reg) /\ States!RegisterAmplitudes(reg) = Machine!Logical
  BY <1>2, RegisterShown
<1>7. state' = [States!Impl EXCEPT !.kind = "Register", !.reg = reg]
  BY <1>1, <1>2 DEF States!FromRegister
<1> HIDE DEF reg, before, ops
<1>8. /\ state'.kind = "Register" /\ state'.reg = reg
      /\ DOMAIN state'
           = {"kind", "basisState", "basisAmplitude", "basisStates", "amplitudes", "reg"}
  BY <1>7 DEF States!Impl
<1>9. StateOK(state')
  BY <1>6, <1>8 DEF StateOK
<1>10. States!AmplitudesOf(state') = AfterCircuit(ops, before)
  BY <1>5, <1>6, <1>8 DEF States!AmplitudesOf
<1>11. ~InRun'
  BY <1>1 DEF InRun
<1>12. SimulationInv'
  BY <1>1, <1>9, <1>11, IdleStep DEF SimulationInv
<1>13. reg.batchDepth = 0
  BY <1>6 DEF Resting
<1> QED BY <1>8, <1>10, <1>12, <1>13 DEF before, ops

LEMMA SimulationIdle ==
  ASSUME SimulationInv, UNCHANGED vars
  PROVE  SimulationInv' /\ state' = state
<1>1. UNCHANGED <<state, running, position, batchDepth, stored, affineScale, affineBias,
                  affineOverlayActive, cachedSum, request, outcome, thrown, left>>
  BY DEF vars, registerVars, callVars
<1>2. Machine!Logical' = Machine!Logical
  BY <1>1 DEF Machine!Logical, Machine!ApplyAffineOverlay, Machine!Plus, Machine!Times,
     Machine!States
<1>3. RegisterOK => RegisterOK'
  BY <1>1, <1>2, SameTotal DEF RegisterOK, Machine!TypeOK, Machine!SumRecovers,
     Machine!CachedSumIsSum, Machine!States
<1>4. OnTrack => OnTrack'
  BY <1>1, <1>2 DEF OnTrack
<1>5. InRun' <=> InRun
  BY <1>1 DEF InRun
<1> QED BY <1>1, <1>3, <1>4, <1>5 DEF SimulationInv

LEMMA SimulationSteps ==
  ASSUME SimulationInv, [Next]_vars
  PROVE  SimulationInv'
<1>1. ASSUME NEW u \in Updates, SetAmplitude(u[1], u[2])
      PROVE  SimulationInv'
  BY <1>1, SetAmplitudeStep
<1>2. ASSUME NEW circuit \in CircuitsRun, Run(circuit)
      PROVE  SimulationInv'
  BY <1>2, RunStep
<1>3. CASE Step
  BY <1>3, ExecuteStep, OperateStep, ThrowStep, EndRunStep, UnwindStep DEF Step
<1>4. CASE UNCHANGED vars
  BY <1>4, SimulationIdle
<1> QED BY <1>1, <1>2, <1>3, <1>4 DEF Next

LEMMA SimulationAlways == Spec => []SimulationInv
BY SimulationStart, SimulationSteps, PTL DEF Spec

-------------------------------------------------------------------------------
(* The theorems.                                                           *)

(* No register a run returns has a batch open, whatever threw in earlier   *)
(* runs and however often states are copied.                               *)
THEOREM BatchAlwaysClosed == Spec => []BatchClosed
<1>1. SimulationInv => BatchClosed
  BY DEF SimulationInv, StateOK, Resting, BatchClosed
<1> QED BY <1>1, SimulationAlways, PTL

(* A state changes by the amplitudes its client sets and by whole          *)
(* circuits, each as linear algebra has it: a run that throws leaves no    *)
(* trace, and no overlay or sum gets from one run into the next.           *)
THEOREM StatesActOnVectors == Spec => ActsOnVector
<1> DEFINE Shown == States!AmplitudesOf(state)
           Change == \/ \E update \in Updates :
                          /\ SetAmplitude(update[1], update[2])
                          /\ Shown' = [Shown EXCEPT ![update[1]] = update[2]]
                     \/ /\ running # NoCircuit
                        /\ Shown' = AfterCircuit(running.operations, Shown)
<1>1. ASSUME SimulationInv, [Next]_vars
      PROVE  [Change]_Shown
  <2>1. ASSUME NEW u \in Updates, SetAmplitude(u[1], u[2])
        PROVE  Change
    BY <1>1, <2>1, SetAmplitudeStep
  <2>2. ASSUME NEW circuit \in CircuitsRun, Run(circuit)
        PROVE  Shown' = Shown
    BY <1>1, <2>2, RunStep
  <2>3. CASE EndRun
    BY <1>1, <2>3, EndRunStep DEF EndRun, AtEnd, InRun
  <2>4. CASE Step /\ ~EndRun
    BY <1>1, <2>4, ExecuteStep, OperateStep, ThrowStep, UnwindStep DEF Step
  <2>5. CASE UNCHANGED vars
    BY <1>1, <2>5, SimulationIdle
  <2> QED BY <1>1, <2>1, <2>2, <2>3, <2>4, <2>5 DEF Next
<1>2. Spec => [][Change]_Shown
  BY <1>1, SimulationAlways, PTL DEF Spec
<1> QED BY <1>2, PTL DEF ActsOnVector

-------------------------------------------------------------------------------
(* What the readers of a state show.                                       *)

LEMMA SumsShown ==
  /\ \A f, S : States!SumFunctionOnSet(f, S) = SumFunctionOnSet(f, S)
  /\ \A f : States!TotalProbability(f) = SumFunctionOnSet(f, DOMAIN f)
  /\ \A v, s : States!Cumulative(v, s) = SumFunctionOnSet(v, {t \in DOMAIN v : t <= s})
<1>1. ASSUME NEW f, NEW S PROVE States!SumFunctionOnSet(f, S) = SumFunctionOnSet(f, S)
  BY DEF States!SumFunctionOnSet, SumFunctionOnSet, States!FoldFunctionOnSet,
     FoldFunctionOnSet, States!MapThenFoldSet, MapThenFoldSet
<1> QED BY <1>1 DEF States!TotalProbability, States!SumFunction, States!Cumulative

LEMMA IndicesFinite == IsFiniteSet(States!Indices) /\ States!Indices \subseteq Nat
<1>1. States!StateCount \in Int
  BY PowersAssumption, MachineAssumptions DEF States!StateCount
<1> QED BY <1>1, FS_Interval DEF States!Indices

(* The vector of a basis state adds up to nothing below it, and to its     *)
(* amplitude from there on.                                                *)
LEMMA BasisAddsUp ==
  ASSUME NEW b \in States!Indices, NEW a \in Amplitude
  PROVE  LET v == States!BasisVector(b, a)
         IN /\ States!TotalProbability(v) = a
            /\ \A s \in States!Indices :
                 States!Cumulative(v, s) = IF b <= s THEN a ELSE 0
<1> DEFINE v == States!BasisVector(b, a)
<1>1. /\ DOMAIN v = States!Indices /\ v[b] = a
      /\ \A x \in States!Indices : v[x] \in Int /\ (x # b => v[x] = 0)
  BY SameField DEF States!BasisVector
<1> HIDE DEF v
<1>2. ASSUME NEW T \in SUBSET States!Indices
      PROVE  SumFunctionOnSet(v, T) = IF b \in T THEN a ELSE 0
  <2>1. IsFiniteSet(T)
    BY IndicesFinite, FS_Subset
  <2>2. CASE b \in T
    <3>1. v[b] \in Int /\ \A x \in T : x # b => v[x] = 0
      BY <1>1
    <3>2. SumFunctionOnSet(v, T) = v[b]
      BY <2>1, <2>2, <3>1, OneTerm
    <3> QED BY <1>1, <2>2, <3>2
  <2>3. CASE b \notin T
    <3> DEFINE U == T \cup {b}
    <3>1. IsFiniteSet(U) /\ b \in U /\ \A x \in U : v[x] \in Int
      BY <1>1, <2>1, FS_AddElement
    <3>2. \A x \in U : x # b => v[x] = 0
      BY <1>1
    <3>3. U \ {b} = T
      BY <2>3
    <3> HIDE DEF U
    <3>4. SumFunctionOnSet(v, U) = v[b]
      <4>1. v[b] \in Int
        BY <3>1
      <4> QED BY <3>1, <3>2, <4>1, OneTerm
    <3>5. SumFunctionOnSet(v, U) = v[b] + SumFunctionOnSet(v, U \ {b})
      BY <3>1, SumSplit
    <3>6. SumFunctionOnSet(v, T) \in Int
      BY <1>1, <2>1, SumType
    <3>7. SumFunctionOnSet(v, U \ {b}) = SumFunctionOnSet(v, T)
      BY <3>3
    <3>8. v[b] \in Int
      BY <1>1
    <3>9. SumFunctionOnSet(v, T) = 0
      BY <3>4, <3>5, <3>6, <3>7, <3>8
    <3> QED BY <2>3, <3>9
  <2> QED BY <2>2, <2>3
<1>3. States!TotalProbability(v) = a
  BY <1>1, <1>2, SumsShown
<1>4. ASSUME NEW s \in States!Indices
      PROVE  States!Cumulative(v, s) = IF b <= s THEN a ELSE 0
  <2> DEFINE T == {t \in States!Indices : t <= s}
  <2>1. States!Cumulative(v, s) = SumFunctionOnSet(v, T)
    BY <1>1, SumsShown
  <2>2. T \in SUBSET States!Indices /\ (b \in T <=> b <= s)
    OBVIOUS
  <2> HIDE DEF T
  <2> QED BY <1>2, <2>1, <2>2
<1> QED BY <1>3, <1>4 DEF v

(* Every sample a basis state takes yields it.                             *)
LEMMA BasisSampled ==
  ASSUME NEW b \in States!Indices, NEW a \in Amplitude, NEW rnd \in 1..a
  PROVE  States!Sampled(States!BasisVector(b, a), rnd) = b
<1> DEFINE v == States!BasisVector(b, a)
           reached == {s \in DOMAIN v : rnd <= States!Cumulative(v, s)}
<1>1. DOMAIN v = States!Indices
  BY DEF States!BasisVector
<1>2. reached = {s \in States!Indices : b <= s}
  <2>1. \A s \in States!Indices : States!Cumulative(v, s) = IF b <= s THEN a ELSE 0
    BY BasisAddsUp
  <2>2. a \in Int /\ rnd >= 1 /\ rnd <= a /\ rnd \in Int
    BY SameField
  <2> HIDE DEF v
  <2> QED BY <1>1, <2>1, <2>2
<1>3. States!Sampled(v, rnd) = IF reached = {} THEN States!NoState ELSE States!Min(reached)
  BY DEF States!Sampled
<1> HIDE DEF v, reached
<1>4. b \in Nat /\ States!Indices \subseteq Nat
  BY IndicesFinite
<1>5. b \in reached /\ \A s \in reached : s \in Nat /\ b <= s
  BY <1>2, <1>4
<1>6. States!Min(reached) = b
  <2>1. \A x \in reached : (\A y \in reached : x <= y) => x = b
    BY <1>4, <1>5
  <2> QED BY <1>5, <2>1 DEF States!Min
<1> QED BY <1>3, <1>5, <1>6 DEF v

LEMMA RegisterMeasured ==
  ASSUME NEW reg, Resting(reg), NEW rnd
  PROVE  States!RegisterMeasure(reg, rnd) = States!Sampled(States!RegisterAmplitudes(reg), rnd)
<1>1. CASE reg.overlay
  BY <1>1 DEF States!RegisterMeasure
<1>2. CASE ~reg.overlay
  <2>1. \A s : States!RegisterAmplitude(reg, s) = reg.stored[s]
    BY <1>2 DEF States!RegisterAmplitude
  <2>2. States!RegisterAmplitudes(reg) = [s \in States!Indices |-> reg.stored[s]]
    BY <2>1 DEF States!RegisterAmplitudes
  <2>3. States!RegisterAmplitudes(reg) = reg.stored
    BY <2>2 DEF Resting, Vectors
  <2> QED BY <1>2, <2>3 DEF States!RegisterMeasure
<1> QED BY <1>1, <1>2

LEMMA ViewsShown ==
  ASSUME NEW s, StateOK(s), NEW shown, shown = States!AmplitudesOf(s)
  PROVE  /\ \A x \in States!Indices :
              /\ States!AmplitudeOf(s, x) = shown[x]
              /\ States!RegisterAmplitude(States!Materialize(s), x) = shown[x]
         /\ States!ProbabilityOf(s) = States!TotalProbability(shown)
         /\ \A rnd \in 1..States!ProbabilityOf(s) :
              /\ States!Measure(s, rnd) = States!Sampled(shown, rnd)
              /\ States!Measure(s, rnd) = States!RegisterMeasure(States!Materialize(s), rnd)
<1> DEFINE reg == States!Materialize(s)
<1>1. Resting(reg) /\ States!RegisterAmplitudes(reg) = shown
  BY MaterializeResting
<1>2. \A x \in States!Indices : States!RegisterAmplitude(reg, x) = shown[x]
  BY <1>1 DEF States!RegisterAmplitudes
<1>3. \A rnd : States!RegisterMeasure(reg, rnd) = States!Sampled(shown, rnd)
  BY <1>1, RegisterMeasured
<1>4. CASE s.kind \in {"Basis", "BasisAmplitude"}
  <2> DEFINE b == s.basisState  a == s.basisAmplitude
  <2>1. b \in States!Indices /\ a \in Amplitude
    BY <1>4 DEF StateOK
  <2>2. shown = States!BasisVector(b, a)
    <3>1. States!BasisVector(b, a) \in Vectors
      BY <2>1, SameField DEF States!BasisVector, Vectors
    <3>2. reg = States!NewRegister(States!BasisVector(b, a))
      BY <1>4 DEF States!Materialize
    <3> QED BY <1>1, <3>1, <3>2, NewResting
  <2>3. \A x \in States!Indices : States!AmplitudeOf(s, x) = shown[x]
    BY <1>4, <2>2 DEF States!AmplitudeOf, States!BasisVector
  <2>4. States!ProbabilityOf(s) = a
    BY <1>4 DEF States!ProbabilityOf
  <2>5. \A rnd : States!Measure(s, rnd) = b
    BY <1>4 DEF States!Measure
  <2> HIDE DEF a, b, reg
  <2>6. a = States!TotalProbability(shown)
    BY <2>1, <2>2, BasisAddsUp
  <2>7. \A rnd \in 1..a : States!Sampled(shown, rnd) = b
    BY <2>1, <2>2, BasisSampled
  <2> QED BY <1>2, <1>3, <2>3, <2>4, <2>5, <2>6, <2>7 DEF reg
<1>5. CASE s.kind = "UniformSubset"
  BY <1>1, <1>2, <1>3, <1>5
     DEF States!AmplitudeOf, States!ProbabilityOf, States!Measure
<1>6. CASE s.kind = "Amplitudes"
  <2>1. shown = s.amplitudes
    BY <1>6 DEF States!AmplitudesOf
  <2> QED BY <1>2, <1>3, <1>6, <2>1
     DEF States!AmplitudeOf, States!ProbabilityOf, States!Measure
<1>7. CASE s.kind = "Register"
  <2>1. reg = s.reg
    BY <1>7 DEF States!Materialize
  <2> QED BY <1>1, <1>2, <1>3, <1>7, <2>1
     DEF States!AmplitudeOf, States!ProbabilityOf, States!Measure
<1> QED BY <1>4, <1>5, <1>6, <1>7 DEF StateOK

(* All ways to look at a state show the same vector, whatever the client   *)
(* did with it before.                                                     *)
THEOREM ViewsAlwaysAgree == Spec => []ViewsAgree
<1>1. SimulationInv => ViewsAgree
  <2> SUFFICES ASSUME SimulationInv PROVE ViewsAgree
    OBVIOUS
  <2> DEFINE shown == States!AmplitudesOf(state)
  <2>1. StateOK(state) /\ Evaluated(shown) = shown
    BY EvaluatedIsSame DEF SimulationInv
  <2> HIDE DEF shown
  <2>2. shown = States!AmplitudesOf(state)
    BY DEF shown
  <2> QED BY <2>1, <2>2, ViewsShown DEF ViewsAgree
<1> QED BY <1>1, SimulationAlways, PTL

-------------------------------------------------------------------------------
(* Arithmetic in the field of amplitudes, by integers that differ by a     *)
(* multiple of 17.                                                         *)

Congruent(x, y) == \E k \in Int : x = y + 17 * k

LEMMA CongruentRules ==
  ASSUME NEW a \in Int, NEW b \in Int, NEW c \in Int, NEW d \in Int, Congruent(a, b)
  PROVE  /\ Congruent(b, a)
         /\ Congruent(b, c) => Congruent(a, c)
         /\ Congruent(c, d) => /\ Congruent(a + c, b + d) /\ Congruent(a - c, b - d)
                               /\ Congruent(a * c, b * d)
<1>1. PICK k \in Int : a = b + 17 * k
  BY DEF Congruent
<1>2. Congruent(b, a)
  <2>1. -k \in Int /\ b = a + 17 * (-k)
    BY <1>1
  <2> QED BY <2>1 DEF Congruent
<1>3. ASSUME Congruent(b, c) PROVE Congruent(a, c)
  <2>1. PICK j \in Int : b = c + 17 * j
    BY <1>3 DEF Congruent
  <2>2. j + k \in Int /\ a = c + 17 * (j + k)
    BY <1>1, <2>1
  <2> QED BY <2>2 DEF Congruent
<1>4. ASSUME Congruent(c, d)
      PROVE  /\ Congruent(a + c, b + d) /\ Congruent(a - c, b - d)
             /\ Congruent(a * c, b * d)
  <2>1. PICK j \in Int : c = d + 17 * j
    BY <1>4 DEF Congruent
  <2>2. k + j \in Int /\ a + c = (b + d) + 17 * (k + j)
    BY <1>1, <2>1
  <2>3. k - j \in Int /\ a - c = (b - d) + 17 * (k - j)
    BY <1>1, <2>1
  <2>4. b * j + k * d + 17 * (k * j) \in Int
    OBVIOUS
  <2>5. a * c = b * d + 17 * (b * j + k * d + 17 * (k * j))
    <3>1. a * c = (b + 17 * k) * (d + 17 * j)
      BY <1>1, <2>1
    <3>2. (b + 17 * k) * (d + 17 * j) = b * d + 17 * (b * j + k * d + 17 * (k * j))
      OBVIOUS
    <3> QED BY <3>1, <3>2
  <2> QED BY <2>2, <2>3, <2>4, <2>5 DEF Congruent
<1> QED BY <1>2, <1>3, <1>4

LEMMA CongruentTimes ==
  ASSUME NEW a \in Int, NEW b \in Int, NEW c \in Int, NEW d \in Int,
         Congruent(a, b), Congruent(c, d)
  PROVE  a * c \in Int /\ b * d \in Int /\ Congruent(a * c, b * d)
<1>1. a * c \in Int /\ b * d \in Int
  OBVIOUS
<1> QED BY <1>1, CongruentRules

LEMMA CongruentSums ==
  ASSUME NEW a \in Int, NEW b \in Int, NEW c \in Int, NEW d \in Int,
         Congruent(a, b), Congruent(c, d)
  PROVE  Congruent(a + c, b + d) /\ Congruent(a - c, b - d)
BY CongruentRules

LEMMA Remainders ==
  /\ \A a \in Int : (a % 17) \in Amplitude /\ Congruent((a % 17), a) /\ Congruent(a, a)
  /\ \A a, b \in Int : Congruent(a, b) => (a % 17) = (b % 17)
  /\ \A a \in Amplitude : a \in Int /\ (a % 17) = a
<1>1. ASSUME NEW a \in Int
      PROVE  (a % 17) \in Amplitude /\ Congruent((a % 17), a) /\ Congruent(a, a)
  <2> DEFINE c == (a % 17)
  <2>1. c \in 0..16 /\ -(a \div 17) \in Int /\ c = a + 17 * (-(a \div 17))
    OBVIOUS
  <2>2. a = a + 17 * 0
    OBVIOUS
  <2>3. Congruent(a, a)
    BY <2>2 DEF Congruent
  <2> HIDE DEF c
  <2>4. c \in Amplitude /\ Congruent(c, a)
    BY <2>1 DEF Amplitude, Congruent
  <2> QED BY <2>3, <2>4 DEF c
<1>2. ASSUME NEW a \in Int, NEW b \in Int, Congruent(a, b)
      PROVE  (a % 17) = (b % 17)
  <2>1. PICK k \in Int : a = b + 17 * k
    BY <1>2 DEF Congruent
  <2> QED BY <2>1
<1>3. \A a \in Amplitude : a \in Int /\ (a % 17) = a
  BY DEF Amplitude
<1> QED BY <1>1, <1>2, <1>3

(* A product of amplitudes, and of products.                               *)
LEMMA TimesCongruent ==
  ASSUME NEW a \in Int, NEW b \in Int, NEW c \in Int, NEW d \in Int,
         Congruent(a, c), Congruent(b, d)
  PROVE  Times(a, b) \in Amplitude /\ Times(a, b) \in Int /\ Congruent(Times(a, b), c * d)
<1>1. a * b \in Int /\ c * d \in Int
  OBVIOUS
<1>2. Congruent(a * b, c * d)
  BY CongruentRules
<1>3. Times(a, b) \in Amplitude /\ Congruent(Times(a, b), a * b)
  BY <1>1, Remainders DEF Times
<1>4. Times(a, b) \in Int
  BY <1>3, Remainders
<1> QED BY <1>1, <1>2, <1>3, <1>4, CongruentRules

LEMMA CongruentAmplitudes ==
  ASSUME NEW a \in Amplitude, NEW b \in Amplitude, Congruent(a, b)
  PROVE  a = b
BY Remainders

LEMMA CongruentThrough ==
  ASSUME NEW a \in Int, NEW b \in Int, NEW c \in Int, Congruent(a, b), Congruent(b, c)
  PROVE  Congruent(a, c)
BY CongruentRules

LEMMA CongruentReduced ==
  ASSUME NEW a \in Int, NEW b \in Int, Congruent(a, b)
  PROVE  (a % 17) \in Amplitude /\ (a % 17) \in Int /\ Congruent((a % 17), b)
<1> DEFINE c == (a % 17)
<1>1. c \in Amplitude /\ Congruent(c, a)
  BY Remainders
<1>2. c \in Int
  BY <1>1, Remainders
<1> HIDE DEF c
<1>3. Congruent(c, b)
  BY <1>1, <1>2, CongruentThrough
<1> QED BY <1>1, <1>2, <1>3 DEF c

LEMMA TimesPlain ==
  ASSUME NEW u \in Int, NEW a \in Int
  PROVE  /\ Times(u, a) \in Amplitude /\ Times(u, a) \in Int /\ u * a \in Int
         /\ Congruent(Times(u, a), u * a)
<1>1. Congruent(u, u) /\ Congruent(a, a) /\ u * a \in Int
  BY Remainders
<1> QED BY <1>1, TimesCongruent

LEMMA TimesReduced ==
  ASSUME NEW u \in Int, NEW a \in Int
  PROVE  /\ Times(u, (a % 17)) \in Amplitude /\ Times(u, (a % 17)) \in Int /\ u * a \in Int
         /\ Congruent(Times(u, (a % 17)), u * a)
<1> DEFINE c == (a % 17)
<1>1. c \in Int /\ Congruent(c, a) /\ Congruent(u, u) /\ u * a \in Int
  BY Remainders
<1> HIDE DEF c
<1>2. Times(u, c) \in Amplitude /\ Times(u, c) \in Int /\ Congruent(Times(u, c), u * a)
  BY <1>1, TimesCongruent
<1> QED BY <1>1, <1>2 DEF c

-------------------------------------------------------------------------------
(* Powers and rotations: the same step, over and over.                     *)

\* h takes one step after the other, from base on.
Repeats(n, base, step, V, h) ==
  /\ h \in [0..n -> V]
  /\ h[0] = base
  /\ \A k \in 1..n : h[k] = step[h[k - 1]]

LEMMA RepeatsAgree ==
  ASSUME NEW base, NEW step, NEW V, NEW n \in Nat, NEW m \in Nat, n <= m,
         NEW h, Repeats(n, base, step, V, h), NEW g, Repeats(m, base, step, V, g)
  PROVE  h[n] = g[n]
<1> DEFINE G == {k \in Nat : k <= n => h[k] = g[k]}
<1>1. 0 \in G
  BY DEF Repeats
<1>2. ASSUME NEW k \in G PROVE k + 1 \in G
  <2>1. k \in Nat
    OBVIOUS
  <2>2. CASE k + 1 <= n
    <3>1. k + 1 \in 1..n /\ k + 1 \in 1..m /\ (k + 1) - 1 = k /\ k <= n
      BY <2>1, <2>2
    <3>2. h[k + 1] = step[h[k]] /\ g[k + 1] = step[g[k]]
      BY <3>1 DEF Repeats
    <3> QED BY <3>1, <3>2
  <2> QED BY <2>1, <2>2
<1>3. G \in SUBSET Nat
  OBVIOUS
<1>4. G = Nat
  <2> HIDE DEF G
  <2> QED BY <1>1, <1>2, <1>3, NumberInduction
<1> QED BY <1>4

SameSteps(n, step) == [k \in 1..n |-> step]
StepsDone(n, c) == [k \in 0..n |-> c[1..k]]

(* A fold of equal steps repeats them.                                     *)
LEMMA FoldRepeats ==
  ASSUME NEW n \in Nat, NEW V, NEW base \in V, NEW step \in [V -> V],
         NEW c, FoldsBy(n, base, SameSteps(n, step), V, c)
  PROVE  Repeats(n, base, step, V, StepsDone(n, c))
<1> DEFINE F == SameSteps(n, step)
           h == [k \in 0..n |-> c[1..k]]
<1>1. F \in [1..n -> [V -> V]] /\ \A k \in 1..n : F[k] = step
  BY DEF SameSteps
<1> HIDE DEF F
<1>2. /\ \A m \in 0..n : c[1..m] \in V
      /\ c[1..0] = base
      /\ \A m \in 1..n : c[1..m] = F[m][c[1..(m - 1)]]
  BY <1>1, FoldSteps DEF F
<1>3. h \in [0..n -> V] /\ h[0] = base
  BY <1>2
<1>4. ASSUME NEW k \in 1..n PROVE h[k] = step[h[k - 1]]
  <2>1. k \in 0..n /\ k - 1 \in 0..n
    BY <1>4
  <2> QED BY <1>1, <1>2, <2>1
<1> QED BY <1>3, <1>4 DEF Repeats, StepsDone

Multiplying(a) == [p \in Amplitude |-> Times(p, a)]

LEMMA PowerRepeats ==
  ASSUME NEW a \in Amplitude, NEW n \in Nat
  PROVE  \E h : Repeats(n, 1, Multiplying(a), Amplitude, h) /\ Power(a, n) = h[n]
<1> DEFINE seq == [k \in 1..n |-> k]
           F == SameSteps(n, Multiplying(a))
           Body(h) == [s \in SUBSET DOMAIN seq |->
                         IF s = {} THEN 1 ELSE Times(h[s \ {Max(s)}], a)]
           c == CHOOSE h : h = Body(h)
<1>1. DOMAIN seq = 1..n
  OBVIOUS
<1>2. Power(a, n) = c[DOMAIN seq]
  BY DEF Power, FoldLeft, MapThenFoldSet
<1>3. 1 \in Amplitude /\ Multiplying(a) \in [Amplitude -> Amplitude]
  <2>1. \A p \in Amplitude : Times(p, a) \in Amplitude
    BY Remainders, TimesCongruent
  <2> QED BY <2>1 DEF Amplitude, Multiplying
<1>4. F \in [1..n -> [Amplitude -> Amplitude]]
      /\ \A k \in 1..n, p \in Amplitude : F[k][p] = Times(p, a)
  BY <1>3 DEF Multiplying, SameSteps
<1> HIDE DEF F, seq
<1>5. PICK g \in [SUBSET (1..n) -> Amplitude] : LeftFolding(n, 1, F, g)
  BY <1>3, <1>4, LeftFold
<1>6. g = Body(g)
  <2>1. ASSUME NEW s \in SUBSET (1..n)
        PROVE  g[s] = IF s = {} THEN 1 ELSE Times(g[s \ {Max(s)}], a)
    <3>1. g[s] = IF s = {} THEN 1 ELSE F[Max(s)][g[s \ {Max(s)}]]
      BY <1>5 DEF LeftFolding
    <3>2. s # {} => Max(s) \in 1..n /\ g[s \ {Max(s)}] \in Amplitude
      BY <1>5, MaxIn
    <3> QED BY <1>4, <3>1, <3>2
  <2> QED BY <1>1, <2>1
<1>7. c = Body(c)
  <2> HIDE DEF Body
  <2> QED BY <1>6
<1>8. FoldsBy(n, 1, F, Amplitude, c)
  <2> HIDE DEF c
  <2>1. ASSUME NEW s \in SUBSET (1..n)
        PROVE  /\ s = {} => c[s] = 1
               /\ s # {} /\ c[s \ {Max(s)}] \in Amplitude => c[s] = F[Max(s)][c[s \ {Max(s)}]]
    <3>1. s # {} => Max(s) \in 1..n
      BY MaxIn
    <3>2. c[s] = IF s = {} THEN 1 ELSE Times(c[s \ {Max(s)}], a)
      BY <1>1, <1>7
    <3> QED BY <1>4, <3>1, <3>2
  <2> QED BY <2>1 DEF FoldsBy
<1> HIDE DEF c
<1>9. Repeats(n, 1, Multiplying(a), Amplitude, StepsDone(n, c))
  BY <1>3, <1>8, FoldRepeats DEF F
<1>10. StepsDone(n, c)[n] = c[1..n]
  BY DEF StepsDone
<1> QED BY <1>1, <1>2, <1>9, <1>10

LEMMA PowerSteps ==
  ASSUME NEW a \in Amplitude
  PROVE  /\ Power(a, 0) = 1
         /\ \A n \in Nat : /\ Power(a, n) \in Amplitude
                           /\ Power(a, n + 1) = Times(Power(a, n), a)
<1>1. Power(a, 0) = 1
  BY PowerRepeats DEF Repeats
<1>2. ASSUME NEW n \in Nat
      PROVE  Power(a, n) \in Amplitude /\ Power(a, n + 1) = Times(Power(a, n), a)
  <2>1. PICK h : Repeats(n, 1, Multiplying(a), Amplitude, h) /\ Power(a, n) = h[n]
    BY PowerRepeats
  <2>2. n + 1 \in Nat /\ n + 1 \in 1..(n + 1) /\ (n + 1) - 1 = n /\ n <= n + 1 /\ n \in 0..n
    OBVIOUS
  <2>3. PICK g : Repeats(n + 1, 1, Multiplying(a), Amplitude, g) /\ Power(a, n + 1) = g[n + 1]
    BY <2>2, PowerRepeats
  <2>4. h[n] = g[n] /\ h[n] \in Amplitude
    <3>1. h[n] \in Amplitude
      BY <2>1, <2>2 DEF Repeats
    <3>2. \A base, step, V : Repeats(n, base, step, V, h) /\ Repeats(n + 1, base, step, V, g)
                              => h[n] = g[n]
      BY <2>2, RepeatsAgree
    <3> QED BY <2>1, <2>3, <3>1, <3>2
  <2>5. g[n + 1] = Multiplying(a)[g[n]]
    BY <2>2, <2>3 DEF Repeats
  <2> QED BY <2>1, <2>3, <2>4, <2>5 DEF Multiplying
<1> QED BY <1>1, <1>2

LEMMA PowerSum ==
  ASSUME NEW a \in Amplitude, NEW m \in Nat, NEW n \in Nat
  PROVE  Power(a, m + n) = Times(Power(a, m), Power(a, n))
<1> DEFINE G == {k \in Nat : Power(a, m + k) = Times(Power(a, m), Power(a, k))}
<1>1. 0 \in G
  <2>1. m + 0 = m /\ Power(a, m) \in Amplitude /\ Power(a, 0) = 1
    BY PowerSteps
  <2>2. Times(Power(a, m), 1) = Power(a, m)
    BY <2>1 DEF Times, Amplitude
  <2> QED BY <2>1, <2>2
<1>2. ASSUME NEW k \in G PROVE k + 1 \in G
  <2> DEFINE p == Power(a, m)  q == Power(a, k)
  <2>1. k \in Nat /\ m + k \in Nat /\ m + (k + 1) = (m + k) + 1
    OBVIOUS
  <2>2. /\ p \in Amplitude /\ q \in Amplitude
        /\ Power(a, k + 1) = Times(q, a) /\ Power(a, m + (k + 1)) = Times(Times(p, q), a)
    BY <2>1, PowerSteps
  <2> HIDE DEF p, q
  <2>3. p \in Int /\ q \in Int /\ a \in Int /\ p * q \in Int /\ q * a \in Int
        /\ (p * q) * a \in Int /\ p * (q * a) \in Int /\ (p * q) * a = p * (q * a)
    BY <2>2 DEF Amplitude
  <2>4. /\ Times(p, q) \in Int /\ Congruent(Times(p, q), p * q)
        /\ Times(q, a) \in Int /\ Congruent(Times(q, a), q * a)
    BY <2>3, Remainders, TimesCongruent
  <2>5. /\ Times(Times(p, q), a) \in Amplitude /\ Congruent(Times(Times(p, q), a), (p * q) * a)
        /\ Times(p, Times(q, a)) \in Amplitude /\ Congruent(Times(p, Times(q, a)), p * (q * a))
    BY <2>3, <2>4, Remainders, TimesCongruent
  <2>6. Times(Times(p, q), a) = Times(p, Times(q, a))
    <3>1. Times(Times(p, q), a) \in Int /\ Times(p, Times(q, a)) \in Int
      BY <2>5, Remainders
    <3>2. Congruent(Times(Times(p, q), a), Times(p, Times(q, a)))
      BY <2>3, <2>5, <3>1, CongruentRules
    <3> QED BY <2>5, <3>2, CongruentAmplitudes
  <2> QED BY <2>1, <2>2, <2>6 DEF p
<1>3. G \in SUBSET Nat
  OBVIOUS
<1>4. G = Nat
  <2> HIDE DEF G
  <2> QED BY <1>1, <1>2, <1>3, NumberInduction
<1> QED BY <1>4

\* One iteration's rotation of N states' amplitudes, M of them marked.
Rotating(N, M) ==
  [ab \in Int \X Int |->
     LET sum == (N - M) * ab[1] - M * ab[2]
     IN <<sum - (N \div 2) * ab[1], sum + (N \div 2) * ab[2]>>]

LEMMA RotationType ==
  ASSUME NEW N \in Nat, NEW M \in Nat
  PROVE  Rotating(N, M) \in [Int \X Int -> Int \X Int]
<1>1. ASSUME NEW ab \in Int \X Int
      PROVE  Rotating(N, M)[ab] \in Int \X Int
  <2> DEFINE a == ab[1]  b == ab[2]  h == N \div 2
             sum == (N - M) * a - M * b
  <2>1. a \in Int /\ b \in Int /\ h \in Int
    OBVIOUS
  <2>2. Rotating(N, M)[ab] = <<sum - h * a, sum + h * b>>
    BY DEF Rotating
  <2> HIDE DEF a, b, h
  <2>3. sum - h * a \in Int /\ sum + h * b \in Int
    BY <2>1
  <2> HIDE DEF sum
  <2> QED BY <2>2, <2>3
<1> QED BY <1>1 DEF Rotating

LEMMA RotatedRepeats ==
  ASSUME NEW N \in Nat, NEW M \in Nat, NEW n \in Nat
  PROVE  \E h : Repeats(n, <<1, 1>>, Rotating(N, M), Int \X Int, h) /\ Rotated(n, N, M) = h[n]
<1> DEFINE seq == [k \in 1..n |-> k]
           F == SameSteps(n, Rotating(N, M))
           Turned(ab, k) == LET sum == (N - M) * ab[1] - M * ab[2]
                            IN <<sum - (N \div 2) * ab[1], sum + (N \div 2) * ab[2]>>
           Body(h) == [s \in SUBSET DOMAIN seq |->
                         IF s = {} THEN <<1, 1>> ELSE Turned(h[s \ {Max(s)}], seq[Max(s)])]
           c == CHOOSE h : h = Body(h)
<1>1. DOMAIN seq = 1..n
  OBVIOUS
<1>2. Rotated(n, N, M) = c[DOMAIN seq]
  BY DEF Rotated, FoldLeft, MapThenFoldSet
<1>3. <<1, 1>> \in Int \X Int /\ Rotating(N, M) \in [Int \X Int -> Int \X Int]
  BY RotationType
<1>4. F \in [1..n -> [Int \X Int -> Int \X Int]]
      /\ \A k \in 1..n, ab \in Int \X Int : \A j : F[k][ab] = Turned(ab, j)
  BY <1>3 DEF Rotating, SameSteps
<1> HIDE DEF F, seq, Turned
<1>5. PICK g \in [SUBSET (1..n) -> Int \X Int] : LeftFolding(n, <<1, 1>>, F, g)
  BY <1>3, <1>4, LeftFold
<1>6. g = Body(g)
  <2>1. ASSUME NEW s \in SUBSET (1..n)
        PROVE  g[s] = IF s = {} THEN <<1, 1>> ELSE Turned(g[s \ {Max(s)}], seq[Max(s)])
    <3>1. g[s] = IF s = {} THEN <<1, 1>> ELSE F[Max(s)][g[s \ {Max(s)}]]
      BY <1>5 DEF LeftFolding
    <3>2. s # {} => Max(s) \in 1..n /\ g[s \ {Max(s)}] \in Int \X Int
      BY <1>5, MaxIn
    <3> QED BY <1>4, <3>1, <3>2
  <2> QED BY <1>1, <2>1
<1>7. c = Body(c)
  <2> HIDE DEF Body
  <2> QED BY <1>6
<1>8. FoldsBy(n, <<1, 1>>, F, Int \X Int, c)
  <2> HIDE DEF c
  <2>1. ASSUME NEW s \in SUBSET (1..n)
        PROVE  /\ s = {} => c[s] = <<1, 1>>
               /\ s # {} /\ c[s \ {Max(s)}] \in Int \X Int
                    => c[s] = F[Max(s)][c[s \ {Max(s)}]]
    <3>1. s # {} => Max(s) \in 1..n
      BY MaxIn
    <3>2. c[s] = IF s = {} THEN <<1, 1>> ELSE Turned(c[s \ {Max(s)}], seq[Max(s)])
      BY <1>1, <1>7
    <3> QED BY <1>4, <3>1, <3>2
  <2> QED BY <2>1 DEF FoldsBy
<1> HIDE DEF c
<1>9. Repeats(n, <<1, 1>>, Rotating(N, M), Int \X Int, StepsDone(n, c))
  BY <1>3, <1>8, FoldRepeats DEF F
<1>10. StepsDone(n, c)[n] = c[1..n]
  BY DEF StepsDone
<1> QED BY <1>1, <1>2, <1>9, <1>10

LEMMA RotatedSteps ==
  ASSUME NEW N \in Nat, NEW M \in Nat
  PROVE  /\ Rotated(0, N, M) = <<1, 1>>
         /\ \A n \in Nat : /\ Rotated(n, N, M) \in Int \X Int
                           /\ Rotated(n + 1, N, M) = Rotating(N, M)[Rotated(n, N, M)]
<1>1. Rotated(0, N, M) = <<1, 1>>
  <2>1. 0 \in Nat
    OBVIOUS
  <2>2. PICK h : Repeats(0, <<1, 1>>, Rotating(N, M), Int \X Int, h) /\ Rotated(0, N, M) = h[0]
    BY <2>1, RotatedRepeats
  <2> QED BY <2>2 DEF Repeats
<1>2. ASSUME NEW n \in Nat
      PROVE  /\ Rotated(n, N, M) \in Int \X Int
             /\ Rotated(n + 1, N, M) = Rotating(N, M)[Rotated(n, N, M)]
  <2>1. PICK h : Repeats(n, <<1, 1>>, Rotating(N, M), Int \X Int, h) /\ Rotated(n, N, M) = h[n]
    BY RotatedRepeats
  <2>2. n + 1 \in Nat /\ n + 1 \in 1..(n + 1) /\ (n + 1) - 1 = n /\ n <= n + 1 /\ n \in 0..n
    OBVIOUS
  <2>3. PICK g : /\ Repeats(n + 1, <<1, 1>>, Rotating(N, M), Int \X Int, g)
                 /\ Rotated(n + 1, N, M) = g[n + 1]
    BY <2>2, RotatedRepeats
  <2>4. h[n] = g[n] /\ h[n] \in Int \X Int
    <3>1. h[n] \in Int \X Int
      BY <2>1, <2>2 DEF Repeats
    <3>2. \A base, step, V : Repeats(n, base, step, V, h) /\ Repeats(n + 1, base, step, V, g)
                              => h[n] = g[n]
      BY <2>2, RepeatsAgree
    <3> QED BY <2>1, <2>3, <3>1, <3>2
  <2>5. g[n + 1] = Rotating(N, M)[g[n]]
    BY <2>2, <2>3 DEF Repeats
  <2> QED BY <2>1, <2>3, <2>4, <2>5
<1> QED BY <1>1, <1>2

-------------------------------------------------------------------------------
(* The marked states in order, and circuits' operations one by one.        *)

Below(S, s) == {t \in S : t < s}

(* The sorted list has every marked state once.                            *)
LEMMA SortedStates ==
  ASSUME NEW list, ToSet(list) \in SUBSET Nat, IsFiniteSet(ToSet(list))
  PROVE  /\ Cardinality(ToSet(list)) \in Nat
         /\ Sorted(list) \in Bijection(1..Cardinality(ToSet(list)), ToSet(list))
         /\ Len(Sorted(list)) = Cardinality(ToSet(list))
<1> DEFINE S == ToSet(list)
           M == Cardinality(S)
           Rank(s) == Cardinality({t \in S : t < s})
           rank == [s \in S |-> Rank(s)]
           sorted == [k \in 1..M |-> CHOOSE s \in S : Rank(s) = k - 1]
<1>1. M \in Nat /\ S \in SUBSET Nat /\ IsFiniteSet(S)
  BY FS_CardinalityType
<1>2. Sorted(list) = sorted
  BY DEF Sorted
<1>a. \A s : Rank(s) = Cardinality(Below(S, s))
  BY DEF Below
<1> HIDE DEF S
<1>3. ASSUME NEW s \in S
      PROVE  Rank(s) \in 0..(M - 1) /\ \A t \in S : t < s => Rank(t) < Rank(s)
  <2>1. Below(S, s) \in SUBSET S /\ s \notin Below(S, s)
    BY <1>1 DEF Below
  <2>2. IsFiniteSet(Below(S, s)) /\ Cardinality(Below(S, s)) \in Nat
    BY <1>1, <2>1, FS_Subset, FS_CardinalityType
  <2>3. Cardinality(Below(S, s) \cup {s}) = Cardinality(Below(S, s)) + 1
    BY <2>1, <2>2, FS_AddElement
  <2>4. Below(S, s) \cup {s} \in SUBSET S
    BY <2>1
  <2>5. Cardinality(Below(S, s) \cup {s}) <= M
    BY <1>1, <2>4, FS_Subset
  <2>6. Rank(s) \in 0..(M - 1)
    BY <1>1, <1>a, <2>2, <2>3, <2>5
  <2>7. ASSUME NEW t \in S, t < s PROVE Rank(t) < Rank(s)
    <3>1. Below(S, t) \cup {t} \in SUBSET Below(S, s) /\ t \notin Below(S, t)
      <4>1. s \in Nat /\ t \in Nat /\ \A u \in S : u \in Nat
        BY <1>1
      <4>2. ASSUME NEW u \in S, u < t PROVE u < s
        BY <2>7, <4>1, <4>2
      <4>3. ~(t < t)
        BY <4>1
      <4> QED BY <2>7, <4>2, <4>3 DEF Below
    <3>2. IsFiniteSet(Below(S, t)) /\ Cardinality(Below(S, t)) \in Nat
      <4>1. Below(S, t) \in SUBSET S
        BY DEF Below
      <4> QED BY <1>1, <4>1, FS_Subset, FS_CardinalityType
    <3>3. Cardinality(Below(S, t) \cup {t}) = Cardinality(Below(S, t)) + 1
      BY <3>1, <3>2, FS_AddElement
    <3>4. Cardinality(Below(S, t) \cup {t}) <= Cardinality(Below(S, s))
      BY <2>2, <3>1, FS_Subset
    <3> QED BY <1>a, <2>2, <3>2, <3>3, <3>4
  <2> QED BY <2>6, <2>7
<1> HIDE DEF Rank
<1>4. rank \in [S -> 0..(M - 1)]
  BY <1>3
<1>5. \A s, t \in S : Rank(s) = Rank(t) => s = t
  <2> SUFFICES ASSUME NEW s \in S, NEW t \in S, Rank(s) = Rank(t), s # t PROVE FALSE
    OBVIOUS
  <2>1. s \in Nat /\ t \in Nat /\ Rank(s) \in Nat /\ Rank(t) \in Nat
    BY <1>1, <1>3
  <2>2. CASE s < t
    <3>1. Rank(s) < Rank(t)
      BY <1>3, <2>2
    <3> QED BY <2>1, <3>1
  <2>3. CASE t < s
    <3>1. Rank(t) < Rank(s)
      BY <1>3, <2>3
    <3> QED BY <2>1, <3>1
  <2> QED BY <2>1, <2>2, <2>3
<1>6. rank \in Injection(S, 0..(M - 1))
  BY <1>4, <1>5 DEF Injection, IsInjective
<1>7. IsFiniteSet(0..(M - 1)) /\ Cardinality(0..(M - 1)) = M
  <2>1. 0 \in Int /\ M - 1 \in Int /\ (0 > M - 1 => M = 0) /\ (M - 1) - 0 + 1 = M
    BY <1>1
  <2> HIDE DEF M
  <2> QED BY <2>1, FS_Interval
<1>8. rank \in Surjection(S, 0..(M - 1))
  <2> HIDE DEF rank, M
  <2> QED BY <1>6, <1>7, FS_Injection DEF M
<1>9. \A r \in 0..(M - 1) : \E s \in S : Rank(s) = r
  <2>1. \A s \in S : rank[s] = Rank(s)
    OBVIOUS
  <2> HIDE DEF rank
  <2> QED BY <1>8, <2>1 DEF Surjection
<1>10. ASSUME NEW k \in 1..M
       PROVE  sorted[k] \in S /\ Rank(sorted[k]) = k - 1
  <2>1. k - 1 \in 0..(M - 1)
    BY <1>1
  <2>2. \E s \in S : Rank(s) = k - 1
    BY <1>9, <2>1
  <2> QED BY <2>2
<1>11. sorted \in [1..M -> S]
  <2>1. \A k \in 1..M : sorted[k] \in S
    BY <1>10
  <2>2. sorted = [k \in 1..M |-> sorted[k]]
    OBVIOUS
  <2> HIDE DEF sorted
  <2> QED BY <2>1, <2>2
<1> HIDE DEF sorted
<1>12. ASSUME NEW j \in 1..M, NEW k \in 1..M, sorted[j] = sorted[k]
       PROVE  j = k
  <2>1. j - 1 = k - 1
    BY <1>10, <1>12
  <2> QED BY <1>1, <2>1
<1>13. ASSUME NEW s \in S PROVE \E k \in 1..M : sorted[k] = s
  <2>1. Rank(s) \in 0..(M - 1)
    BY <1>3
  <2>2. Rank(s) + 1 \in 1..M /\ (Rank(s) + 1) - 1 = Rank(s)
    BY <1>1, <2>1
  <2>3. sorted[Rank(s) + 1] \in S /\ Rank(sorted[Rank(s) + 1]) = Rank(s)
    BY <1>10, <2>2
  <2> QED BY <1>5, <2>2, <2>3
<1>14. sorted \in Bijection(1..M, S)
  BY <1>11, <1>12, <1>13 DEF Bijection, Injection, Surjection, IsInjective
<1>15. Len(sorted) = M
  BY <1>1, <1>11
<1> QED BY <1>1, <1>2, <1>14, <1>15 DEF S

LEMMA RepeatsExist ==
  ASSUME NEW n \in Nat, NEW V, NEW base \in V, NEW step \in [V -> V]
  PROVE  \E h : Repeats(n, base, step, V, h)
<1> DEFINE F == SameSteps(n, step)
<1>1. F \in [1..n -> [V -> V]]
  BY DEF SameSteps
<1> HIDE DEF F
<1>2. PICK g \in [SUBSET (1..n) -> V] : LeftFolding(n, base, F, g)
  BY <1>1, LeftFold
<1>3. FoldsBy(n, base, F, V, g)
  BY <1>2 DEF LeftFolding, FoldsBy
<1>4. Repeats(n, base, step, V, StepsDone(n, g))
  BY <1>3, FoldRepeats DEF F
<1> QED BY <1>4

-------------------------------------------------------------------------------
(* A circuit is a sequence of blocks.                                      *)

\* A sequence of A's followed by b.
Appending(A, b) == [x \in Seq(A) |-> x \o b]

\* Copies of b, one after the other.
Flattened(b, n) == FlattenSeq([k \in 1..n |-> b])

LEMMA FlattenRepeats ==
  ASSUME NEW A, NEW b \in Seq(A), NEW n \in Nat
  PROVE  \E h : Repeats(n, <<>>, Appending(A, b), Seq(A), h) /\ Flattened(b, n) = h[n]
<1> DEFINE seqs == [k \in 1..n |-> b]
           Body(f) == [i \in 1..Len(seqs) |-> IF i = 1 THEN seqs[i] ELSE f[i - 1] \o seqs[i]]
           flatten == CHOOSE f : f = Body(f)
<1>1. <<>> \in Seq(A) /\ Appending(A, b) \in [Seq(A) -> Seq(A)]
  BY DEF Appending
<1>2. PICK h : Repeats(n, <<>>, Appending(A, b), Seq(A), h)
  BY <1>1, RepeatsExist
<1>3. h \in [0..n -> Seq(A)] /\ h[0] = <<>> /\ \A i \in 1..n : h[i] = h[i - 1] \o b
  <2>1. h \in [0..n -> Seq(A)] /\ h[0] = <<>> /\ \A i \in 1..n : h[i] = Appending(A, b)[h[i - 1]]
    BY <1>2 DEF Repeats
  <2>2. ASSUME NEW i \in 1..n PROVE h[i] = h[i - 1] \o b
    <3>1. i - 1 \in 0..n
      OBVIOUS
    <3>2. h[i - 1] \in Seq(A)
      BY <2>1, <3>1
    <3> QED BY <2>1, <3>2 DEF Appending
  <2> QED BY <2>1, <2>2
<1>4. Len(seqs) = n /\ \A i \in 1..n : seqs[i] = b
  OBVIOUS
<1>5. CASE n = 0
  <2>1. Flattened(b, n) = seqs
    BY <1>4, <1>5 DEF Flattened, FlattenSeq
  <2>2. seqs = <<>>
    BY <1>5
  <2> QED BY <1>2, <1>3, <1>5, <2>1, <2>2
<1>6. CASE n # 0
  <2>1. Flattened(b, n) = flatten[n]
    <3>1. Flattened(b, n) = flatten[Len(seqs)]
      BY <1>4, <1>6 DEF Flattened, FlattenSeq
    <3> HIDE DEF flatten
    <3> QED BY <1>4, <3>1
  <2>2. \A f : Body(f) = [i \in 1..n |-> IF i = 1 THEN b ELSE f[i - 1] \o b]
    <3> HIDE DEF seqs
    <3> QED BY <1>4
  <2> HIDE DEF Body, seqs
  <2>3. \E f : f = Body(f)
    <3> DEFINE f == [i \in 1..n |-> h[i]]
    <3>1. ASSUME NEW i \in 1..n
          PROVE  f[i] = IF i = 1 THEN b ELSE f[i - 1] \o b
      <4>1. CASE i = 1
        <5>1. h[1] = h[0] \o b
          <6>1. 1 \in 1..n /\ 1 - 1 = 0
            BY <4>1
          <6> QED BY <1>3, <6>1
        <5>2. <<>> \o b = b
          OBVIOUS
        <5> QED BY <1>3, <4>1, <5>1, <5>2
      <4>2. CASE i # 1
        <5>1. i - 1 \in 1..n
          BY <4>2
        <5> QED BY <1>3, <4>2, <5>1
      <4> QED BY <4>1, <4>2
    <3>2. f = [i \in 1..n |-> f[i]]
      OBVIOUS
    <3> HIDE DEF f
    <3>3. f = [i \in 1..n |-> IF i = 1 THEN b ELSE f[i - 1] \o b]
      BY <3>1, <3>2
    <3> QED BY <2>2, <3>3
  <2>4. flatten = Body(flatten)
    BY <2>3
  <2> HIDE DEF flatten
  <2>5. \A i \in 1..n : flatten[i] = IF i = 1 THEN b ELSE flatten[i - 1] \o b
    BY <2>2, <2>4
  <2> DEFINE G == {m \in Nat : m + 1 <= n => flatten[m + 1] = h[m + 1]}
  <2>6. 0 \in G
    <3>1. 1 \in 1..n /\ 1 - 1 = 0
      BY <1>6
    <3>2. h[1] = <<>> \o b /\ flatten[1] = b
      BY <1>3, <2>5, <3>1
    <3>3. <<>> \o b = b
      OBVIOUS
    <3> QED BY <3>2, <3>3
  <2>7. ASSUME NEW m \in G PROVE m + 1 \in G
    <3>1. m \in Nat /\ m + 1 \in Nat
      OBVIOUS
    <3>2. CASE (m + 1) + 1 <= n
      <4>1. (m + 1) + 1 \in 1..n /\ (m + 1) + 1 # 1 /\ ((m + 1) + 1) - 1 = m + 1 /\ m + 1 <= n
        BY <3>1, <3>2
      <4>2. flatten[m + 1] = h[m + 1]
        BY <4>1
      <4>3. flatten[(m + 1) + 1] = flatten[m + 1] \o b
        BY <2>5, <4>1
      <4>4. h[(m + 1) + 1] = h[m + 1] \o b
        BY <1>3, <4>1
      <4> QED BY <3>1, <4>2, <4>3, <4>4
    <3> QED BY <3>1, <3>2
  <2>8. G \in SUBSET Nat
    OBVIOUS
  <2>9. G = Nat
    <3> HIDE DEF G
    <3> QED BY <2>6, <2>7, <2>8, NumberInduction
  <2>10. flatten[n] = h[n]
    <3>1. n - 1 \in Nat /\ (n - 1) + 1 = n /\ (n - 1) + 1 <= n
      BY <1>6
    <3>2. n - 1 \in G
      BY <2>9, <3>1
    <3>3. flatten[(n - 1) + 1] = h[(n - 1) + 1]
      BY <3>1, <3>2
    <3> QED BY <3>1, <3>3
  <2> QED BY <1>2, <2>1, <2>10
<1> QED BY <1>5, <1>6

LEMMA FlattenSteps ==
  ASSUME NEW A, NEW b \in Seq(A)
  PROVE  /\ Flattened(b, 0) = <<>>
         /\ \A n \in Nat : /\ Flattened(b, n) \in Seq(A)
                           /\ Flattened(b, n + 1) = Flattened(b, n) \o b
<1>1. Flattened(b, 0) = <<>>
  <2>1. 0 \in Nat
    OBVIOUS
  <2>2. PICK h : Repeats(0, <<>>, Appending(A, b), Seq(A), h) /\ Flattened(b, 0) = h[0]
    BY <2>1, FlattenRepeats
  <2> QED BY <2>2 DEF Repeats
<1>2. ASSUME NEW n \in Nat
      PROVE  Flattened(b, n) \in Seq(A) /\ Flattened(b, n + 1) = Flattened(b, n) \o b
  <2>1. PICK h : Repeats(n, <<>>, Appending(A, b), Seq(A), h) /\ Flattened(b, n) = h[n]
    BY FlattenRepeats
  <2>2. n + 1 \in Nat /\ n + 1 \in 1..(n + 1) /\ (n + 1) - 1 = n /\ n <= n + 1 /\ n \in 0..n
    OBVIOUS
  <2>3. PICK g : Repeats(n + 1, <<>>, Appending(A, b), Seq(A), g) /\ Flattened(b, n + 1) = g[n + 1]
    BY <2>2, FlattenRepeats
  <2>4. h[n] = g[n] /\ h[n] \in Seq(A)
    <3>1. h[n] \in Seq(A)
      BY <2>1, <2>2 DEF Repeats
    <3>2. \A base, step, V : Repeats(n, base, step, V, h) /\ Repeats(n + 1, base, step, V, g)
                              => h[n] = g[n]
      BY <2>2, RepeatsAgree
    <3> QED BY <2>1, <2>3, <3>1, <3>2
  <2>5. g[n + 1] = Appending(A, b)[g[n]]
    BY <2>2, <2>3 DEF Repeats
  <2>6. Appending(A, b)[g[n]] = g[n] \o b
    BY <2>4 DEF Appending
  <2> QED BY <2>1, <2>3, <2>4, <2>5, <2>6
<1> QED BY <1>1, <1>2

-------------------------------------------------------------------------------
(* Circuits one after the other.                                           *)

LEMMA JoinedCircuits ==
  ASSUME NEW A, NEW s \in Seq(A), NEW t \in Seq(A)
  PROVE  /\ Len(s) \in Nat /\ Len(t) \in Nat /\ s \o t \in Seq(A)
         /\ Len(s \o t) = Len(s) + Len(t)
         /\ \A i \in 1..Len(s) : (s \o t)[i] = s[i]
         /\ \A i \in 1..Len(t) : (s \o t)[Len(s) + i] = t[i]
<1> DEFINE m == Len(s)  n == Len(t)
<1>1. m \in Nat /\ n \in Nat /\ s \o t \in Seq(A) /\ Len(s \o t) = m + n
  OBVIOUS
<1>2. \A i \in 1..m : (s \o t)[i] = s[i]
  OBVIOUS
<1>3. ASSUME NEW i \in 1..n PROVE (s \o t)[m + i] = t[i]
  <2>1. m + i \in 1..(m + n) /\ m + i > m /\ (m + i) - m = i
    BY <1>1
  <2> QED BY <2>1
<1> QED BY <1>1, <1>2, <1>3

(* The blocks of a circuit of valid operations hold valid operations.      *)
LEMMA ValidBlocks ==
  ASSUME NEW A, NEW R, NEW s \in Seq(A), NEW t \in Seq(A), s \o t \in Seq(R)
  PROVE  s \in Seq(R) /\ t \in Seq(R)
<1> DEFINE m == Len(s)  n == Len(t)
<1>1. /\ m \in Nat /\ n \in Nat /\ Len(s \o t) = m + n
      /\ \A i \in 1..m : (s \o t)[i] = s[i]
      /\ \A i \in 1..n : (s \o t)[m + i] = t[i]
  BY JoinedCircuits
<1>2. \A i \in 1..(m + n) : (s \o t)[i] \in R
  BY <1>1
<1>3. \A i \in 1..m : i \in 1..(m + n)
  BY <1>1
<1>4. \A i \in 1..n : m + i \in 1..(m + n)
  BY <1>1
<1>5. (\A i \in 1..m : s[i] \in R) /\ \A i \in 1..n : t[i] \in R
  BY <1>1, <1>2, <1>3, <1>4
<1> QED BY <1>5

(* A circuit of two blocks, of no operation, and of one.                   *)
LEMMA CircuitsJoin ==
  ASSUME NEW A \in Seq(RunOperations), NEW B \in Seq(RunOperations), NEW v \in Vectors
  PROVE  /\ AfterCircuit(A, v) \in Vectors
         /\ AfterCircuit(A \o B, v) = AfterCircuit(B, AfterCircuit(A, v))
<1> DEFINE m == Len(A)  n == Len(B)  C == A \o B
<1>1. /\ m \in Nat /\ n \in Nat /\ C \in Seq(RunOperations) /\ Len(C) = m + n
      /\ \A i \in 1..m : C[i] = A[i]
      /\ \A i \in 1..n : C[m + i] = B[i]
  BY JoinedCircuits
<1> HIDE DEF C
<1>2. PICK g : Track(A, v, g) /\ AfterCircuit(A, v) = g[m]
  BY CircuitTracks
<1>3. PICK h : Track(C, v, h) /\ AfterCircuit(C, v) = h[Len(C)]
  BY <1>1, CircuitTracks
<1>4. g[m] \in Vectors
  BY <1>1, <1>2 DEF Track
<1>5. PICK k : Track(B, g[m], k) /\ AfterCircuit(B, g[m]) = k[n]
  BY <1>4, CircuitTracks
<1>6. /\ g[0] = v /\ \A i \in 1..m : g[i] = Effect(A[i], g[i - 1])
      /\ h[0] = v /\ \A i \in 1..(m + n) : h[i] = Effect(C[i], h[i - 1])
      /\ k[0] = g[m] /\ \A i \in 1..n : k[i] = Effect(B[i], k[i - 1])
  BY <1>1, <1>2, <1>3, <1>5 DEF Track
<1> HIDE DEF m, n
<1> DEFINE G == {i \in Nat : i <= m => h[i] = g[i]}
<1>7. G = Nat
  <2>1. 0 \in G
    BY <1>6
  <2>2. ASSUME NEW i \in G PROVE i + 1 \in G
    <3>1. i \in Nat
      OBVIOUS
    <3>2. CASE i + 1 <= m
      <4>1. i + 1 \in 1..m /\ i + 1 \in 1..(m + n) /\ (i + 1) - 1 = i /\ i <= m
        BY <1>1, <3>1, <3>2
      <4>2. h[i] = g[i]
        BY <4>1
      <4>3. h[i + 1] = Effect(C[i + 1], h[i]) /\ g[i + 1] = Effect(A[i + 1], g[i])
        BY <1>6, <4>1
      <4> QED BY <1>1, <3>1, <4>1, <4>2, <4>3
    <3> QED BY <3>1, <3>2
  <2>3. G \in SUBSET Nat
    OBVIOUS
  <2> HIDE DEF G
  <2> QED BY <2>1, <2>2, <2>3, NumberInduction
<1>8. h[m] = g[m]
  <2>1. m \in G
    BY <1>1, <1>7
  <2> QED BY <1>1, <2>1
<1> HIDE DEF G
<1> DEFINE F == {i \in Nat : i <= n => h[m + i] = k[i]}
<1>9. F = Nat
  <2>1. 0 \in F
    <3>1. m + 0 = m
      BY <1>1
    <3> QED BY <1>6, <1>8, <3>1
  <2>2. ASSUME NEW i \in F PROVE i + 1 \in F
    <3>1. i \in Nat
      OBVIOUS
    <3>2. CASE i + 1 <= n
      <4>1. /\ i + 1 \in 1..n /\ m + (i + 1) \in 1..(m + n) /\ (i + 1) - 1 = i /\ i <= n
            /\ (m + (i + 1)) - 1 = m + i
        BY <1>1, <3>1, <3>2
      <4>2. h[m + i] = k[i]
        BY <4>1
      <4>3. h[m + (i + 1)] = Effect(C[m + (i + 1)], h[m + i]) /\ k[i + 1] = Effect(B[i + 1], k[i])
        <5>1. h[m + (i + 1)] = Effect(C[m + (i + 1)], h[(m + (i + 1)) - 1])
          BY <1>6, <4>1
        <5>2. k[i + 1] = Effect(B[i + 1], k[(i + 1) - 1])
          BY <1>6, <4>1
        <5> QED BY <4>1, <5>1, <5>2
      <4> QED BY <1>1, <3>1, <4>1, <4>2, <4>3
    <3> QED BY <3>1, <3>2
  <2>3. F \in SUBSET Nat
    OBVIOUS
  <2> HIDE DEF F
  <2> QED BY <2>1, <2>2, <2>3, NumberInduction
<1>10. h[m + n] = k[n]
  <2>1. n \in F
    BY <1>1, <1>9
  <2> QED BY <1>1, <2>1
<1> QED BY <1>1, <1>2, <1>3, <1>4, <1>5, <1>10 DEF m, n, C

LEMMA ShortCircuits ==
  ASSUME NEW v \in Vectors
  PROVE  /\ AfterCircuit(<<>>, v) = v
         /\ \A o \in RunOperations : AfterCircuit(<<o>>, v) = Effect(o, v)
<1>1. AfterCircuit(<<>>, v) = v
  <2>1. <<>> \in Seq(RunOperations) /\ Len(<<>>) = 0
    OBVIOUS
  <2>2. PICK g : Track(<<>>, v, g) /\ AfterCircuit(<<>>, v) = g[Len(<<>>)]
    BY <2>1, CircuitTracks
  <2> QED BY <2>1, <2>2 DEF Track
<1>2. ASSUME NEW o \in RunOperations PROVE AfterCircuit(<<o>>, v) = Effect(o, v)
  <2> DEFINE ops == <<o>>
  <2>1. ops \in Seq(RunOperations) /\ Len(ops) = 1 /\ ops[1] = o
    OBVIOUS
  <2> HIDE DEF ops
  <2>2. PICK g : Track(ops, v, g) /\ AfterCircuit(ops, v) = g[Len(ops)]
    BY <2>1, CircuitTracks
  <2>3. g[0] = v /\ \A i \in 1..1 : g[i] = Effect(ops[i], g[i - 1])
    BY <2>1, <2>2 DEF Track
  <2>4. g[1] = Effect(ops[1], g[0])
    <3>1. 1 \in 1..1 /\ 1 - 1 = 0
      OBVIOUS
    <3> QED BY <2>3, <3>1
  <2> QED BY <2>1, <2>2, <2>3, <2>4 DEF ops
<1> QED BY <1>1, <1>2

-------------------------------------------------------------------------------
(* The arithmetic of a search.                                             *)

(* The sum of a vector that is y on S and x elsewhere.                     *)
LEMMA TwoValues ==
  ASSUME NEW D, IsFiniteSet(D), NEW S \in SUBSET D, NEW x \in Int, NEW y \in Int, NEW f,
         \A s \in D : f[s] = IF s \in S THEN y ELSE x
  PROVE  SumFunctionOnSet(f, D) = (Cardinality(D) - Cardinality(S)) * x + Cardinality(S) * y
<1> DEFINE Good == {T \in SUBSET D :
                      SumFunctionOnSet(f, T) = Cardinality(T \ S) * x + Cardinality(T \cap S) * y}
<1>1. ASSUME NEW T \in SUBSET D
      PROVE  /\ IsFiniteSet(T) /\ \A s \in T : f[s] \in Int
             /\ IsFiniteSet(T \ S) /\ IsFiniteSet(T \cap S)
             /\ Cardinality(T \ S) \in Nat /\ Cardinality(T \cap S) \in Nat
  <2>1. IsFiniteSet(T)
    BY FS_Subset
  <2>2. IsFiniteSet(T \ S) /\ IsFiniteSet(T \cap S)
    BY <2>1, FS_Difference, FS_Intersection
  <2> QED BY <2>1, <2>2, FS_CardinalityType
<1>2. ASSUME NEW T \in SUBSET D, \A e \in T : T \ {e} \in Good
      PROVE  T \in Good
  <2>1. CASE T = {}
    <3>1. SumFunctionOnSet(f, T) = 0
      BY <1>1, <2>1, SumType
    <3>2. Cardinality(T \ S) = 0 /\ Cardinality(T \cap S) = 0
      <4>1. T \ S = {} /\ T \cap S = {}
        BY <2>1
      <4> QED BY <4>1, FS_EmptySet
    <3>3. 0 * x + 0 * y = 0
      OBVIOUS
    <3>4. SumFunctionOnSet(f, T) = Cardinality(T \ S) * x + Cardinality(T \cap S) * y
      BY <3>1, <3>2, <3>3
    <3> QED BY <3>4
  <2>2. CASE T # {}
    <3>1. PICK e \in T : TRUE
      BY <2>2
    <3> DEFINE a == Cardinality((T \ {e}) \ S)  b == Cardinality((T \ {e}) \cap S)
               total == SumFunctionOnSet(f, T)  rest == SumFunctionOnSet(f, T \ {e})
    <3>2. total = f[e] + rest /\ rest = a * x + b * y
      BY <1>1, <1>2, <3>1, SumSplit
    <3>3. T \ {e} \in SUBSET D
      OBVIOUS
    <3>4. a \in Nat /\ b \in Nat
      BY <1>1, <3>3
    <3>5. CASE e \in S
      <4>1. (T \ {e}) \ S = T \ S /\ T \cap S = ((T \ {e}) \cap S) \cup {e}
            /\ e \notin (T \ {e}) \cap S
        BY <3>1, <3>5
      <4>2. Cardinality(T \cap S) = b + 1 /\ Cardinality(T \ S) = a
        BY <1>1, <3>3, <4>1, FS_AddElement
      <4>3. f[e] = y
        BY <3>1, <3>5
      <4> HIDE DEF a, b, total, rest
      <4>4. total = a * x + (b + 1) * y
        BY <3>2, <3>4, <4>3
      <4> QED BY <4>2, <4>4 DEF total
    <3>6. CASE e \notin S
      <4>1. (T \ {e}) \cap S = T \cap S /\ T \ S = ((T \ {e}) \ S) \cup {e}
            /\ e \notin (T \ {e}) \ S
        BY <3>1, <3>6
      <4>2. Cardinality(T \cap S) = b /\ Cardinality(T \ S) = a + 1
        BY <1>1, <3>3, <4>1, FS_AddElement
      <4>3. f[e] = x
        BY <3>1, <3>6
      <4> HIDE DEF a, b, total, rest
      <4>4. total = (a + 1) * x + b * y
        BY <3>2, <3>4, <4>3
      <4> QED BY <4>2, <4>4 DEF total
    <3> QED BY <3>5, <3>6
  <2> QED BY <2>1, <2>2
<1>3. D \in Good
  <2>1. \A T \in SUBSET D : (\A e \in T : T \ {e} \in Good) => T \in Good
    BY <1>2
  <2>2. \A K : (\A T \in SUBSET D : (\A e \in T : T \ {e} \in K) => T \in K)
               => SUBSET D \subseteq K
    BY SubsetInduction
  <2> HIDE DEF Good
  <2> QED BY <2>1, <2>2
<1>4. D \cap S = S /\ Cardinality(D \ S) = Cardinality(D) - Cardinality(S)
  <2>1. D \cap S = S
    OBVIOUS
  <2> QED BY <2>1, FS_Difference
<1> QED BY <1>3, <1>4

(* Powers of a half in the field are inverses of powers of two.            *)
LEMMA HalfPowers ==
  ASSUME NEW n \in 0..NumQubits
  PROVE  /\ 2^n \in Int /\ Power(Half, n) \in Amplitude /\ InversePower2(n) = Power(Half, n)
         /\ Congruent(Power(Half, n) * 2^n, 1)
<1> DEFINE G == {m \in Nat : m <= NumQubits =>
                   /\ Half^m \in Int /\ 2^m \in Int
                   /\ Power(Half, m) = (Half^m % 17) /\ Congruent(Half^m * 2^m, 1)}
<1>1. Half \in Amplitude /\ Half = 9
  BY DEF Half, Amplitude
<1>2. 0 \in G
  <2>1. Half^0 = 1 /\ 2^0 = 1 /\ Power(Half, 0) = 1
    BY <1>1, PowersAssumption, PowerSteps
  <2>2. Congruent(1 * 1, 1)
    BY Remainders
  <2> QED BY <2>1, <2>2
<1>3. ASSUME NEW m \in G PROVE m + 1 \in G
  <2>1. m \in Nat
    OBVIOUS
  <2>2. CASE m + 1 <= NumQubits
    <3> DEFINE h == Half^m  t == 2^m
    <3>1. m <= NumQubits /\ m \in 0..NumQubits
      BY <2>1, <2>2, PowersAssumption
    <3>2. h \in Int /\ t \in Int /\ Power(Half, m) = (h % 17) /\ Congruent(h * t, 1)
      BY <3>1
    <3>3. Half^(m + 1) = Half * h /\ 2^(m + 1) = 2 * t
      BY <3>1, PowersAssumption
    <3>4. Power(Half, m + 1) = Times(Power(Half, m), Half)
      BY <1>1, <2>1, PowerSteps
    <3> HIDE DEF h, t
    <3>5. Half * h \in Int /\ 2 * t \in Int /\ h * t \in Int /\ 9 * h = h * 9
      BY <1>1, <3>2
    <3>6. Times((h % 17), Half) = ((Half * h) % 17)
      <4>1. (h % 17) \in Int /\ Congruent((h % 17), h) /\ Half \in Int /\ Congruent(Half, Half)
        BY <1>1, <3>2, Remainders
      <4>2. Congruent((h % 17) * Half, h * Half)
        BY <3>2, <4>1, CongruentRules
      <4>3. (h % 17) * Half \in Int /\ h * Half \in Int /\ h * Half = Half * h
        BY <1>1, <3>2, <4>1
      <4> QED BY <4>2, <4>3, Remainders DEF Times
    <3>7. Congruent((Half * h) * (2 * t), 1)
      <4> DEFINE x == h * t
      <4>1. (Half * h) * (2 * t) = 18 * x
        BY <1>1, <3>2
      <4>2. x \in Int /\ Congruent(x, 1)
        BY <3>2, <3>5
      <4> HIDE DEF x
      <4>3. 18 * x = x + 17 * x /\ 18 * x \in Int
        BY <4>2
      <4>4. Congruent(18 * x, x)
        BY <4>2, <4>3 DEF Congruent
      <4>5. Congruent(18 * x, 1)
        BY <4>2, <4>3, <4>4, CongruentRules
      <4> QED BY <4>1, <4>5
    <3> QED BY <2>1, <3>2, <3>3, <3>4, <3>5, <3>6, <3>7
  <2> QED BY <2>1, <2>2
<1>4. G = Nat
  <2>1. G \in SUBSET Nat
    OBVIOUS
  <2> HIDE DEF G
  <2> QED BY <1>2, <1>3, <2>1, NumberInduction
<1>5. n \in G /\ n <= NumQubits
  BY <1>4, PowersAssumption
<1> DEFINE h == Half^n  t == 2^n
<1>6. h \in Int /\ t \in Int /\ Power(Half, n) = (h % 17) /\ Congruent(h * t, 1)
  BY <1>5
<1>7. InversePower2(n) = Power(Half, n)
  BY <1>6 DEF InversePower2
<1> HIDE DEF h, t, G
<1>8. Power(Half, n) \in Amplitude /\ Congruent(Power(Half, n) * t, 1)
  <2>1. /\ (h % 17) \in Amplitude /\ (h % 17) \in Int /\ Congruent((h % 17), h)
        /\ Congruent(t, t)
    BY <1>6, Remainders
  <2>2. Congruent((h % 17) * t, h * t) /\ (h % 17) * t \in Int /\ h * t \in Int
    <3> DEFINE e == (h % 17)
    <3>1. e \in Int /\ Congruent(e, h)
      BY <2>1
    <3> HIDE DEF e
    <3>2. e * t \in Int /\ h * t \in Int /\ Congruent(e * t, h * t)
      BY <1>6, <2>1, <3>1, CongruentTimes
    <3> QED BY <3>2 DEF e
  <2>3. Congruent((h % 17) * t, 1)
    BY <1>6, <2>2, CongruentRules
  <2> QED BY <1>6, <2>1, <2>3
<1> QED BY <1>6, <1>7, <1>8 DEF t

(* An inversion about the mean of amplitudes u times a and, for the marked *)
(* states, minus u times b.                                                *)
LEMMA RotationStep ==
  ASSUME NEW u \in Int, NEW p \in Int, NEW h \in Int, NEW d \in Int, NEW sum \in Int,
         NEW a \in Int, Congruent(p * d, 1), Congruent(2 * h, p)
  PROVE  /\ Congruent(2 * ((u * sum) * h) - u * a, (u * p) * (sum - d * a))
         /\ Congruent(2 * ((u * sum) * h) + u * a, (u * p) * (sum + d * a))
<1> DEFINE v == u * sum  w == u * a
<1>1. v \in Int /\ w \in Int /\ p * d \in Int /\ 2 * h \in Int
  OBVIOUS
<1>2. 2 * (v * h) = v * (2 * h) /\ v * (2 * h) \in Int /\ v * p \in Int
  BY <1>1
<1>3. Congruent(v * (2 * h), v * p)
  <2> DEFINE e == 2 * h
  <2>1. e \in Int /\ Congruent(e, p) /\ Congruent(v, v)
    BY <1>1, Remainders
  <2> HIDE DEF e
  <2>2. Congruent(v * e, v * p)
    BY <1>1, <2>1, CongruentTimes
  <2> QED BY <2>2 DEF e
<1>4. Congruent(w * (p * d), w) /\ w * (p * d) \in Int
  <2>1. Congruent(w * (p * d), w * 1)
    <3> DEFINE e == p * d
    <3>1. e \in Int /\ Congruent(e, 1) /\ Congruent(w, w)
      BY <1>1, Remainders
    <3> HIDE DEF e
    <3>2. Congruent(w * e, w * 1)
      BY <1>1, <3>1, CongruentTimes
    <3> QED BY <3>2 DEF e
  <2>2. w * 1 = w
    BY <1>1
  <2> QED BY <1>1, <2>1, <2>2
<1>5. Congruent(w, w * (p * d))
  BY <1>1, <1>4, CongruentRules
<1>6. /\ (u * p) * (sum - d * a) = v * p - w * (p * d)
      /\ (u * p) * (sum + d * a) = v * p + w * (p * d)
  <2>1. (u * p) * (sum - d * a) = (u * p) * sum - (u * p) * (d * a)
    OBVIOUS
  <2>2. (u * p) * (sum + d * a) = (u * p) * sum + (u * p) * (d * a)
    OBVIOUS
  <2>3. (u * p) * sum = (u * sum) * p
    OBVIOUS
  <2>4. (u * p) * (d * a) = (u * a) * (p * d)
    OBVIOUS
  <2> QED BY <2>1, <2>2, <2>3, <2>4
<1> HIDE DEF v, w
<1>7. /\ Congruent(v * (2 * h) - w, v * p - w * (p * d))
      /\ Congruent(v * (2 * h) + w, v * p + w * (p * d))
  <2> DEFINE e == v * (2 * h)  f == v * p  g == w * (p * d)
  <2>1. e \in Int /\ f \in Int /\ g \in Int /\ Congruent(e, f) /\ Congruent(w, g)
    BY <1>2, <1>3, <1>4, <1>5
  <2> HIDE DEF e, f, g
  <2>2. Congruent(e - w, f - g) /\ Congruent(e + w, f + g)
    BY <1>1, <2>1, CongruentSums
  <2> QED BY <2>2 DEF e, f, g
<1> QED BY <1>2, <1>6, <1>7 DEF v, w

-------------------------------------------------------------------------------
(* What the operations of a search do to a vector.                         *)

LEMMA SearchEffects ==
  ASSUME NEW v \in Vectors
  PROVE  /\ \A s : Effect(PhaseFlip(s), v) = [v EXCEPT ![s] = Minus(0, v[s])]
         /\ \A form : Effect(InversionAboutMean(form), v)
              = [s \in States!Indices |->
                   Minus(2 * Times(Total(v), InversePower2(NumQubits)), v[s])]
         /\ \A q : Effect(H(q), v) = Machine!Backend!Applied(Machine!Hadamard, <<q>>, v)
<1>1. /\ \A a, b : Machine!Minus(a, b) = Minus(a, b) /\ Machine!Times(a, b) = Times(a, b)
      /\ Machine!InversePower2(NumQubits) = InversePower2(NumQubits)
      /\ Machine!Total(v) = Total(v) /\ Machine!States = States!Indices
  BY SameTotal, SameVectors DEF Machine!Minus, Minus, Machine!Times, Times,
     Machine!InversePower2, InversePower2, Machine!Half, Half
<1>2. ASSUME NEW s PROVE Effect(PhaseFlip(s), v) = [v EXCEPT ![s] = Minus(0, v[s])]
  <2> DEFINE o == PhaseFlip(s)
  <2>1. o.name = "PhaseFlip" /\ o.state = s
    BY DEF PhaseFlip
  <2> HIDE DEF o
  <2>2. Machine!Backend!Result(o, v) = [v EXCEPT ![o.state] = Machine!Minus(0, v[o.state])]
    BY <2>1, MachineAssumptions, Machine!VectorResults
  <2>3. Effect(o, v) = [v EXCEPT ![s] = Minus(0, v[s])]
    BY <1>1, <2>1, <2>2, SameVectors
  <2> QED BY <2>3 DEF o
<1>3. ASSUME NEW form
      PROVE  Effect(InversionAboutMean(form), v)
               = [s \in States!Indices |->
                    Minus(2 * Times(Total(v), InversePower2(NumQubits)), v[s])]
  <2> DEFINE o == InversionAboutMean(form)
  <2>1. o.name = "Inversion"
    BY DEF InversionAboutMean
  <2> HIDE DEF o
  <2>2. Machine!Backend!Result(o, v)
          = [s \in Machine!States |->
               Machine!Minus(2 * Machine!Times(Machine!Total(v), Machine!InversePower2(NumQubits)),
                             v[s])]
    BY <2>1, MachineAssumptions, Machine!VectorResults
  <2>3. Effect(o, v) = [s \in States!Indices |->
                          Minus(2 * Times(Total(v), InversePower2(NumQubits)), v[s])]
    BY <1>1, <2>2, SameVectors
  <2> QED BY <2>3 DEF o
<1>4. ASSUME NEW q
      PROVE  Effect(H(q), v) = Machine!Backend!Applied(Machine!Hadamard, <<q>>, v)
  <2> DEFINE o == H(q)
  <2>1. o.name = "H" /\ o.qubits = <<q>>
    BY DEF H
  <2> HIDE DEF o
  <2>2. Machine!Backend!Result(o, v) = Machine!Backend!Applied(Machine!Hadamard, o.qubits, v)
    BY <2>1, MachineAssumptions, Machine!GateResults
  <2>3. Effect(o, v) = Machine!Backend!Applied(Machine!Hadamard, <<q>>, v)
    BY <2>1, <2>2, SameVectors
  <2> QED BY <2>3 DEF o
<1> QED BY <1>2, <1>3, <1>4

-------------------------------------------------------------------------------
(* The superposition a search starts from.                                 *)

\* The vector after a Hadamard gate on each of the first k qubits.
Layer(k) ==
  [s \in States!Indices |->
     IF (s % 2^(NumQubits - k)) = 0 THEN Power(InvSqrt2, k) ELSE 0]

LEMMA LayerType ==
  ASSUME NEW k \in Nat
  PROVE  Layer(k) \in Vectors /\ Power(InvSqrt2, k) \in Amplitude
<1>1. InvSqrt2 \in Amplitude /\ 0 \in Amplitude
  BY DEF InvSqrt2, Amplitude
<1>2. Power(InvSqrt2, k) \in Amplitude
  BY <1>1, PowerSteps
<1> QED BY <1>1, <1>2 DEF Layer, Vectors

LEMMA LayerStep ==
  ASSUME NEW k \in 0..(NumQubits - 1), H(k) \in RunOperations
  PROVE  Effect(H(k), Layer(k)) = Layer(k + 1)
<1> DEFINE m == 2^(NumQubits - (k + 1))  p == Power(InvSqrt2, k)  v == Layer(k)
           w == Effect(H(k), v)
<1>1. k \in Nat /\ v \in Vectors /\ p \in Amplitude /\ w \in Vectors /\ Layer(k + 1) \in Vectors
  <2>1. NumQubits \in Nat /\ k \in Nat /\ k + 1 \in Nat
    BY PowersAssumption
  <2> QED BY <2>1, LayerType, SameVectors
<1>2. /\ k \in Machine!Qubits /\ Machine!Mask(k) = m /\ m \in Nat \ {0}
      /\ 2^(NumQubits - k) = 2 * m
  <2>1. k \in Machine!Qubits /\ NumQubits - 1 - k = NumQubits - (k + 1)
        /\ NumQubits - (k + 1) \in 0..NumQubits /\ (NumQubits - (k + 1)) + 1 = NumQubits - k
    BY PowersAssumption DEF Machine!Qubits
  <2>2. Machine!Mask(k) \in Nat \ {0}
    BY <2>1, MachineAssumptions, Machine!Masks
  <2>3. Machine!Mask(k) = m
    BY <2>1 DEF Machine!Mask
  <2>4. 2^((NumQubits - (k + 1)) + 1) = 2 * m
    BY <2>1, PowersAssumption
  <2> QED BY <2>1, <2>2, <2>3, <2>4
<1>3. \A s \in States!Indices : v[s] = IF (s % (2 * m)) = 0 THEN p ELSE 0
  <2> HIDE DEF m, p
  <2> QED BY <1>2 DEF Layer, p
<1>4. \A s \in States!Indices :
        Layer(k + 1)[s] = IF (s % m) = 0 THEN Power(InvSqrt2, k + 1) ELSE 0
  BY DEF Layer
<1>5. Power(InvSqrt2, k + 1) = ((3 * p) % 17)
  <2>1. InvSqrt2 \in Amplitude
    BY DEF InvSqrt2, Amplitude
  <2>2. Power(InvSqrt2, k + 1) = Times(p, InvSqrt2)
    BY <1>1, <2>1, PowerSteps
  <2> HIDE DEF p
  <2>3. p * 3 = 3 * p
    BY <1>1 DEF Amplitude
  <2> QED BY <2>2, <2>3 DEF Times, InvSqrt2
<1>6. ASSUME NEW s \in States!Indices
      PROVE  \E t \in States!Indices, u \in States!Indices, sign \in {3, 14} :
               /\ (t % (2 * m)) = (s % m)
               /\ (u % (2 * m)) = (s % m) + m
               /\ w[s] = ((3 * v[t] + sign * v[u]) % 17)
  <2>1. s \in Machine!States /\ v \in Machine!Vectors /\ Machine!States = States!Indices
    BY <1>1, SameVectors
  <2>2. \E t \in Machine!States, u \in Machine!States, sign \in {3, 14} :
          /\ (t % (2 * Machine!Mask(k))) = (s % Machine!Mask(k))
          /\ (u % (2 * Machine!Mask(k))) = (s % Machine!Mask(k)) + Machine!Mask(k)
          /\ Machine!Backend!Applied(Machine!Hadamard, <<k>>, v)[s]
               = ((3 * v[t] + sign * v[u]) % 17)
    <3> HIDE DEF v
    <3> QED BY <1>2, <2>1, MachineAssumptions, Machine!HadamardAt
  <2>3. w = Machine!Backend!Applied(Machine!Hadamard, <<k>>, v)
    BY <1>1, SearchEffects
  <2> HIDE DEF v, w, m
  <2> QED BY <1>2, <2>1, <2>2, <2>3
<1> HIDE DEF m, p, v, w
<1>7. ASSUME NEW s \in States!Indices
      PROVE  w[s] = Layer(k + 1)[s]
  <2>1. PICK t \in States!Indices, u \in States!Indices, sign \in {3, 14} :
               /\ (t % (2 * m)) = (s % m)
               /\ (u % (2 * m)) = (s % m) + m
               /\ w[s] = ((3 * v[t] + sign * v[u]) % 17)
    BY <1>6
  <2>2. (s % m) \in Nat
    <3>1. s \in Int
      BY DEF States!Indices
    <3> QED BY <1>2, <3>1
  <2>3. v[u] = 0
    <3>1. (s % m) + m # 0
      BY <1>2, <2>2
    <3> QED BY <1>3, <2>1, <3>1
  <2>4. v[t] = IF (s % m) = 0 THEN p ELSE 0
    BY <1>3, <2>1
  <2>5. w[s] = ((3 * v[t]) % 17)
    <3>1. v[t] \in Int /\ sign * 0 = 0 /\ 3 * v[t] + 0 = 3 * v[t]
      BY <1>1, <2>1, <2>4 DEF Amplitude
    <3> QED BY <2>1, <2>3, <3>1
  <2>6. CASE (s % m) = 0
    BY <1>4, <1>5, <2>4, <2>5, <2>6
  <2>7. CASE (s % m) # 0
    <3>1. w[s] = ((3 * 0) % 17)
      BY <2>4, <2>5, <2>7
    <3> QED BY <1>4, <2>7, <3>1
  <2> QED BY <2>6, <2>7
<1>8. w = Layer(k + 1)
  <2>1. \A x, y \in Vectors : (\A s \in States!Indices : x[s] = y[s]) => x = y
    BY DEF Vectors
  <2> QED BY <1>1, <1>7, <2>1
<1> QED BY <1>8 DEF w, v

\* The circuit that superposes all states.
Superposition == [k \in 1..NumQubits |-> H(k - 1)]

LEMMA Superposed ==
  ASSUME Superposition \in Seq(RunOperations)
  PROVE  /\ States!BasisVector(0, 1) \in Vectors
         /\ AfterCircuit(Superposition, States!BasisVector(0, 1))
              = [s \in States!Indices |-> Power(InvSqrt2, NumQubits)]
<1> DEFINE n == NumQubits  zero == States!BasisVector(0, 1)
<1>1. n \in Nat /\ Len(Superposition) = n /\ \A k \in 1..n : Superposition[k] = H(k - 1)
  BY PowersAssumption DEF Superposition
<1>2. \A k \in 1..n : H(k - 1) \in RunOperations
  <2> HIDE DEF n
  <2>1. \A k \in 1..n : Superposition[k] \in RunOperations
    BY <1>1
  <2> QED BY <1>1, <2>1
<1>3. zero = Layer(0) /\ zero \in Vectors
  <2>1. 2^n \in Nat \ {0}
    <3>1. n \in 0..(NumQubits + 1)
      BY <1>1
    <3> QED BY <3>1, MachineAssumptions, Machine!Powers
  <2>2. InvSqrt2 \in Amplitude
    BY DEF InvSqrt2, Amplitude
  <2>3. Power(InvSqrt2, 0) = 1
    BY <2>2, PowerSteps
  <2>4. ASSUME NEW s \in States!Indices PROVE (s % 2^(n - 0)) = s
    <3> DEFINE N == 2^n
    <3>1. s \in 0..(N - 1) /\ N \in Nat \ {0} /\ n - 0 = n
      BY <1>1, <2>1 DEF States!Indices, States!StateCount
    <3> HIDE DEF N
    <3>2. (s % N) = s
      <4>1. ((N * 0 + s) % N) = s
        BY <3>1, DivisionUnique
      <4>2. N * 0 + s = s
        BY <3>1
      <4> QED BY <4>1, <4>2
    <3> QED BY <3>1, <3>2 DEF N
  <2>5. zero = Layer(0)
    BY <2>3, <2>4 DEF Layer, States!BasisVector
  <2> QED BY <2>5, LayerType
<1>4. PICK g : Track(Superposition, zero, g) /\ AfterCircuit(Superposition, zero) = g[n]
  BY <1>1, <1>3, CircuitTracks
<1>5. g[0] = zero /\ \A k \in 1..n : g[k] = Effect(H(k - 1), g[k - 1])
  BY <1>1, <1>4 DEF Track
<1> HIDE DEF zero, n
<1> DEFINE G == {k \in Nat : k <= n => g[k] = Layer(k)}
<1>6. G = Nat
  <2>1. 0 \in G
    BY <1>3, <1>5
  <2>2. ASSUME NEW k \in G PROVE k + 1 \in G
    <3>1. k \in Nat
      OBVIOUS
    <3>2. CASE k + 1 <= n
      <4>1. k + 1 \in 1..n /\ (k + 1) - 1 = k /\ k <= n /\ k \in 0..(n - 1)
        BY <1>1, <3>1, <3>2
      <4>2. g[k] = Layer(k)
        BY <4>1
      <4>3. g[k + 1] = Effect(H(k), g[k]) /\ H(k) \in RunOperations
        <5>1. g[k + 1] = Effect(H((k + 1) - 1), g[(k + 1) - 1]) /\ H((k + 1) - 1) \in RunOperations
          BY <1>2, <1>5, <4>1
        <5> QED BY <4>1, <5>1
      <4>4. g[k + 1] = Layer(k + 1)
        BY <4>1, <4>2, <4>3, LayerStep DEF n
      <4> QED BY <3>1, <4>4
    <3> QED BY <3>1, <3>2
  <2>3. G \in SUBSET Nat
    OBVIOUS
  <2> HIDE DEF G
  <2> QED BY <2>1, <2>2, <2>3, NumberInduction
<1>7. g[n] = Layer(n)
  <2>1. n \in G
    BY <1>1, <1>6
  <2> QED BY <1>1, <2>1
<1>8. Layer(n) = [s \in States!Indices |-> Power(InvSqrt2, n)]
  <2>1. n - n = 0 /\ 2^0 = 1
    BY <1>1, PowersAssumption
  <2>2. \A s \in States!Indices : (s % 2^(NumQubits - n)) = 0
    <3>1. \A s \in States!Indices : (s % 1) = 0
      BY DEF States!Indices
    <3> QED BY <2>1, <3>1 DEF n
  <2> QED BY <2>2 DEF Layer
<1> QED BY <1>3, <1>4, <1>7, <1>8 DEF zero, n

-------------------------------------------------------------------------------
(* One iteration of a search.                                              *)

\* The vector that is y on the states of S and x on the others.
Marks(S, x, y) == [s \in States!Indices |-> IF s \in S THEN y ELSE x]

\* The oracle: a phase flip of each of M marked states.
Flips(marked, M) == [k \in 1..M |-> PhaseFlip(marked[k])]

LEMMA MarksType ==
  ASSUME NEW S, NEW x \in Amplitude, NEW y \in Amplitude
  PROVE  Marks(S, x, y) \in Vectors
BY DEF Marks, Vectors

LEMMA Negated ==
  ASSUME NEW y \in Amplitude
  PROVE  Minus(0, y) \in Amplitude /\ Minus(0, y) \in Int /\ Congruent(Minus(0, y), 0 - y)
<1>1. y \in Int /\ 0 - y \in Int
  BY DEF Amplitude
<1>2. Minus(0, y) = ((0 - y) % 17)
  BY DEF Minus
<1> QED BY <1>1, <1>2, Remainders

LEMMA Flipped ==
  ASSUME NEW S \in SUBSET States!Indices, NEW M \in Nat, NEW marked \in Bijection(1..M, S),
         Flips(marked, M) \in Seq(RunOperations), NEW x \in Amplitude, NEW y \in Amplitude
  PROVE  AfterCircuit(Flips(marked, M), Marks(S, x, y)) = Marks(S, x, Minus(0, y))
<1> DEFINE z == Minus(0, y)  ops == Flips(marked, M)
           Done(k) == {marked[j] : j \in 1..k}
           Partly(k) == [s \in States!Indices |->
                          IF s \in Done(k) THEN z ELSE IF s \in S THEN y ELSE x]
<1>1. z \in Amplitude
  BY Negated
<1>2. Len(ops) = M /\ \A k \in 1..M : ops[k] = PhaseFlip(marked[k])
  BY DEF Flips
<1>3. Marks(S, x, y) \in Vectors
  BY MarksType
<1>4. PICK g : Track(ops, Marks(S, x, y), g) /\ AfterCircuit(ops, Marks(S, x, y)) = g[M]
  BY <1>2, <1>3, CircuitTracks
<1>5. /\ g[0] = Marks(S, x, y)
      /\ \A k \in 1..M : g[k] = Effect(PhaseFlip(marked[k]), g[k - 1])
  BY <1>2, <1>4 DEF Track
<1>6. /\ \A k \in 1..M : marked[k] \in S
      /\ \A j, k \in 1..M : marked[j] = marked[k] => j = k
      /\ \A s \in S : \E k \in 1..M : marked[k] = s
  BY DEF Bijection, Injection, Surjection, IsInjective
<1> HIDE DEF z, ops
<1>7. ASSUME NEW k \in Nat PROVE Partly(k) \in Vectors
  BY <1>1 DEF Vectors
<1>8. Partly(0) = Marks(S, x, y)
  <2>1. Done(0) = {}
    OBVIOUS
  <2> HIDE DEF Done
  <2> QED BY <2>1 DEF Marks
<1>9. Partly(M) = Marks(S, x, z)
  <2>1. Done(M) = S
    BY <1>6
  <2> HIDE DEF Done
  <2> QED BY <2>1 DEF Marks
<1>10. ASSUME NEW k \in Nat, k + 1 <= M
       PROVE  Effect(PhaseFlip(marked[k + 1]), Partly(k)) = Partly(k + 1)
  <2> DEFINE m == marked[k + 1]
  <2>1. k + 1 \in 1..M /\ m \in S
    BY <1>6, <1>10
  <2>2. m \notin Done(k)
    <3> SUFFICES ASSUME NEW j \in 1..k, marked[j] = m PROVE FALSE
      OBVIOUS
    <3>1. j \in 1..M /\ j # k + 1
      BY <1>10
    <3> QED BY <1>6, <2>1, <3>1
  <2>3. Done(k + 1) = Done(k) \cup {m}
    <3>1. 1..(k + 1) = (1..k) \cup {k + 1}
      OBVIOUS
    <3> QED BY <3>1
  <2> HIDE DEF Done, m
  <2>4. Partly(k)[m] = y /\ m \in States!Indices
    BY <2>1, <2>2
  <2>5. Effect(PhaseFlip(m), Partly(k)) = [Partly(k) EXCEPT ![m] = Minus(0, Partly(k)[m])]
    <3>1. Partly(k) \in Vectors
      BY <1>7
    <3> HIDE DEF Partly
    <3> QED BY <3>1, SearchEffects
  <2>6. Minus(0, Partly(k)[m]) = z
    BY <2>4 DEF z
  <2>7. [Partly(k) EXCEPT ![m] = z] = Partly(k + 1)
    BY <2>3
  <2> HIDE DEF Partly
  <2> QED BY <2>5, <2>6, <2>7 DEF m
<1> HIDE DEF Partly, Done
<1> DEFINE G == {k \in Nat : k <= M => g[k] = Partly(k)}
<1>11. G = Nat
  <2>1. 0 \in G
    BY <1>5, <1>8
  <2>2. ASSUME NEW k \in G PROVE k + 1 \in G
    <3>1. k \in Nat
      OBVIOUS
    <3>2. CASE k + 1 <= M
      <4>1. k + 1 \in 1..M /\ (k + 1) - 1 = k /\ k <= M
        BY <3>1, <3>2
      <4>2. g[k] = Partly(k)
        BY <4>1
      <4>3. g[k + 1] = Effect(PhaseFlip(marked[k + 1]), g[(k + 1) - 1])
        BY <1>5, <4>1
      <4>4. Effect(PhaseFlip(marked[k + 1]), Partly(k)) = Partly(k + 1)
        BY <1>10, <3>1, <3>2
      <4> QED BY <3>1, <4>1, <4>2, <4>3, <4>4
    <3> QED BY <3>1, <3>2
  <2>3. G \in SUBSET Nat
    OBVIOUS
  <2> HIDE DEF G
  <2> QED BY <2>1, <2>2, <2>3, NumberInduction
<1>12. g[M] = Partly(M)
  <2>1. M \in G
    BY <1>11
  <2> QED BY <2>1
<1> QED BY <1>4, <1>9, <1>12 DEF z, ops

LEMMA StatesCounted ==
  /\ 2^NumQubits \in Nat \ {0} /\ IsFiniteSet(States!Indices)
  /\ Cardinality(States!Indices) = 2^NumQubits
<1> DEFINE N == 2^NumQubits
<1>1. N \in Nat \ {0}
  <2>1. NumQubits \in 0..(NumQubits + 1)
    BY PowersAssumption
  <2> QED BY <2>1, MachineAssumptions, Machine!Powers
<1>2. States!Indices = 0..(N - 1)
  BY DEF States!Indices, States!StateCount
<1> HIDE DEF N
<1>3. 0 \in Int /\ N - 1 \in Int /\ ~(0 > N - 1) /\ (N - 1) - 0 + 1 = N
  BY <1>1
<1>4. Cardinality(0..(N - 1)) = (N - 1) - 0 + 1 /\ IsFiniteSet(0..(N - 1))
  BY <1>3, FS_Interval
<1> QED BY <1>1, <1>2, <1>3, <1>4 DEF N

LEMMA Inverted ==
  ASSUME NEW S \in SUBSET States!Indices, NEW x \in Amplitude, NEW z \in Amplitude, NEW form
  PROVE  LET M == Cardinality(S)
             mean == Times((((2^NumQubits - M) * x + M * z) % 17), Power(Half, NumQubits))
         IN Effect(InversionAboutMean(form), Marks(S, x, z))
              = Marks(S, Minus(2 * mean, x), Minus(2 * mean, z))
<1> DEFINE M == Cardinality(S)  N == 2^NumQubits  v == Marks(S, x, z)
           total == (N - M) * x + M * z
           mean == Times((total % 17), Power(Half, NumQubits))
<1>1. v \in Vectors /\ x \in Int /\ z \in Int
  BY MarksType DEF Amplitude
<1>2. DOMAIN v = States!Indices /\ \A s \in States!Indices : v[s] = IF s \in S THEN z ELSE x
  BY DEF Marks
<1>3. SumFunctionOnSet(v, States!Indices) = total
  <2>1. SumFunctionOnSet(v, States!Indices)
          = (Cardinality(States!Indices) - Cardinality(S)) * x + Cardinality(S) * z
    <3> HIDE DEF v
    <3> QED BY <1>1, <1>2, StatesCounted, TwoValues
  <2> QED BY <2>1, StatesCounted
<1>4. Total(v) = (total % 17)
  BY <1>2, <1>3 DEF Total, SumFunction
<1>5. InversePower2(NumQubits) = Power(Half, NumQubits)
  <2>1. NumQubits \in 0..NumQubits
    BY PowersAssumption
  <2> QED BY <2>1, HalfPowers
<1>6. Effect(InversionAboutMean(form), v)
        = [s \in States!Indices |-> Minus(2 * mean, v[s])]
  <2>1. Effect(InversionAboutMean(form), v)
          = [s \in States!Indices |->
               Minus(2 * Times(Total(v), InversePower2(NumQubits)), v[s])]
    <3> HIDE DEF v
    <3> QED BY <1>1, SearchEffects
  <2> HIDE DEF v, total
  <2> QED BY <1>4, <1>5, <2>1
<1> HIDE DEF mean, total
<1>7. [s \in States!Indices |-> Minus(2 * mean, v[s])]
        = Marks(S, Minus(2 * mean, x), Minus(2 * mean, z))
  <2> HIDE DEF v
  <2> QED BY <1>2 DEF Marks
<1> QED BY <1>6, <1>7 DEF mean, total

\* Amplitudes x and z, once an oracle turned the second, and their mean: p and h
\* are the inverses of d and of twice d, and u2 is the factor of the next ones.
Searching(N, M, a, b, u, u2, p, h, d, x, z, mean) ==
  /\ Congruent(p * d, 1) /\ Congruent(2 * h, p) /\ Congruent(u2, u * p)
  /\ x = Times(u, (a % 17)) /\ z = Minus(0, Times(u, (b % 17)))
  /\ mean = Times((((N - M) * x + M * z) % 17), h)

(* An iteration on amplitudes u times a and u times b.                     *)
LEMMA Amplified ==
  ASSUME NEW N \in Nat, NEW M \in Nat, NEW a \in Int, NEW b \in Int,
         NEW u \in Amplitude, NEW u2 \in Amplitude, NEW p \in Int, NEW h \in Int, NEW d \in Int,
         NEW x, NEW z, NEW mean, Searching(N, M, a, b, u, u2, p, h, d, x, z, mean)
  PROVE  LET sum == (N - M) * a - M * b
         IN /\ x \in Amplitude /\ z \in Amplitude
            /\ Minus(2 * mean, x) = Times(u2, ((sum - d * a) % 17))
            /\ Minus(2 * mean, z) = Times(u2, ((sum + d * b) % 17))
<1> DEFINE sum == (N - M) * a - M * b  total == (N - M) * x + M * z
<1>0. /\ Congruent(p * d, 1) /\ Congruent(2 * h, p) /\ Congruent(u2, u * p)
      /\ x = Times(u, (a % 17)) /\ z = Minus(0, Times(u, (b % 17)))
      /\ mean = Times((((N - M) * x + M * z) % 17), h)
  BY DEF Searching
<1>1. u \in Int /\ u2 \in Int /\ N - M \in Int
  BY DEF Amplitude
<1>2. x \in Amplitude /\ x \in Int /\ Congruent(x, u * a)
  BY <1>0, <1>1, TimesReduced
<1>3. z \in Amplitude /\ z \in Int /\ Congruent(z, 0 - u * b)
  <2> DEFINE y == Times(u, (b % 17))
  <2>1. y \in Amplitude /\ y \in Int /\ Congruent(y, u * b) /\ u * b \in Int
    BY <1>1, TimesReduced
  <2> HIDE DEF y
  <2>2. z \in Amplitude /\ z \in Int /\ Congruent(z, 0 - y) /\ 0 - y \in Int /\ 0 - u * b \in Int
    BY <1>0, <2>1, Negated DEF y
  <2>3. Congruent(0, 0)
    BY Remainders
  <2> DEFINE e == u * b
  <2>4. e \in Int /\ Congruent(y, e) /\ 0 - e \in Int
    BY <2>1
  <2> HIDE DEF e
  <2>5. Congruent(0 - y, 0 - e)
    BY <2>1, <2>3, <2>4, CongruentSums
  <2>6. Congruent(z, 0 - e)
    BY <2>2, <2>4, <2>5, CongruentThrough
  <2> QED BY <2>2, <2>6 DEF e
<1>4. sum \in Int /\ d * a \in Int /\ d * b \in Int /\ u * a \in Int /\ u * b \in Int
  BY <1>1
<1>5. total \in Int /\ u * sum \in Int /\ Congruent(total, u * sum)
  <2> DEFINE k == N - M
  <2>1. k \in Int
    BY <1>1
  <2>2. k * x \in Int /\ k * (u * a) \in Int /\ M * z \in Int /\ M * (0 - u * b) \in Int
        /\ 0 - u * b \in Int
    <3> HIDE DEF k
    <3> QED BY <1>1, <1>2, <1>3, <1>4, <2>1
  <2>3. Congruent(k * x, k * (u * a)) /\ Congruent(M * z, M * (0 - u * b))
    <3> DEFINE e == u * a  f == 0 - u * b
    <3>1. e \in Int /\ f \in Int /\ Congruent(x, e) /\ Congruent(z, f)
      BY <1>2, <1>3, <1>4, <2>2
    <3> HIDE DEF k, e, f
    <3>2. Congruent(k, k) /\ Congruent(M, M) /\ M \in Int
      BY <2>1, Remainders
    <3>3. Congruent(k * x, k * e)
      BY <1>2, <2>1, <3>1, <3>2, CongruentTimes
    <3>4. Congruent(M * z, M * f)
      BY <1>3, <3>1, <3>2, CongruentTimes
    <3> QED BY <3>3, <3>4 DEF e, f
  <2>4. Congruent(k * x + M * z, k * (u * a) + M * (0 - u * b))
    <3> DEFINE e == k * x  f == M * z  e2 == k * (u * a)  f2 == M * (0 - u * b)
    <3>1. e \in Int /\ f \in Int /\ e2 \in Int /\ f2 \in Int /\ Congruent(e, e2)
          /\ Congruent(f, f2)
      BY <2>2, <2>3
    <3> HIDE DEF e, f, e2, f2
    <3>2. Congruent(e + f, e2 + f2)
      BY <3>1, CongruentSums
    <3> QED BY <3>2 DEF e, f, e2, f2
  <2>5. k * (u * a) + M * (0 - u * b) = u * sum
    <3> HIDE DEF k
    <3>1. k * (u * a) = u * (k * a)
      BY <1>1, <2>1
    <3>2. M * (0 - u * b) = 0 - u * (M * b)
      BY <1>1
    <3>3. u * (k * a - M * b) = u * (k * a) - u * (M * b)
      <4> DEFINE r == k * a  t == M * b
      <4>1. r \in Int /\ t \in Int
        BY <1>1, <2>1
      <4> HIDE DEF r, t
      <4>2. u * (r - t) = u * r - u * t
        BY <1>1, <4>1
      <4> QED BY <4>2 DEF r, t
    <3>4. u * (k * a) \in Int /\ u * (M * b) \in Int
      BY <1>1, <2>1
    <3> QED BY <3>1, <3>2, <3>3, <3>4 DEF k
  <2>6. u * sum \in Int
    BY <1>1, <1>4
  <2> HIDE DEF sum, k
  <2> QED BY <2>2, <2>4, <2>5, <2>6 DEF k
<1> HIDE DEF sum, total
<1>6. mean \in Int /\ Congruent(mean, (u * sum) * h)
  <2> DEFINE e == u * sum  f == (total % 17)
  <2>1. e \in Int /\ Congruent(total, e)
    BY <1>5
  <2> HIDE DEF e
  <2>2. f \in Int /\ Congruent(f, e)
    BY <1>5, <2>1, CongruentReduced
  <2>3. mean = Times(f, h)
    BY <1>0 DEF total
  <2> HIDE DEF f
  <2>4. Congruent(h, h)
    BY Remainders
  <2>5. mean \in Int /\ Congruent(mean, e * h)
    BY <2>1, <2>2, <2>3, <2>4, TimesCongruent
  <2> QED BY <2>5 DEF e
<1> DEFINE w == (u * sum) * h
<1>7. w \in Int /\ 2 * w \in Int /\ 2 * mean \in Int /\ Congruent(2 * mean, 2 * w)
  <2>1. w \in Int
    BY <1>5
  <2>2. Congruent(mean, w)
    BY <1>6
  <2> HIDE DEF w
  <2> DEFINE two == 2
  <2>3. two \in Int /\ Congruent(two, two)
    BY Remainders
  <2> HIDE DEF two
  <2>a. two * mean \in Int /\ two * w \in Int /\ Congruent(two * mean, two * w)
    BY <1>6, <2>1, <2>2, <2>3, CongruentTimes
  <2>4. 2 * mean \in Int /\ 2 * w \in Int /\ Congruent(2 * mean, 2 * w)
    BY <2>a DEF two
  <2> QED BY <2>1, <2>4
<1>8. /\ Congruent(2 * w - u * a, (u * p) * (sum - d * a))
      /\ Congruent(2 * w + u * b, (u * p) * (sum + d * b))
  BY <1>0, <1>1, <1>4, RotationStep
<1> HIDE DEF w
<1>9. ASSUME NEW e \in Int, NEW q \in Int, NEW f \in Int, Congruent(e, q),
             Congruent(q, (u * p) * f)
      PROVE  (e % 17) = Times(u2, (f % 17))
  <2> DEFINE g == u * p  e2 == (e % 17)  t == Times(u2, (f % 17))  m == g * f
  <2>1. g \in Int /\ Congruent(u2, g) /\ Congruent(q, m)
    BY <1>0, <1>1, <1>9
  <2>2. Congruent(f, f)
    BY Remainders
  <2>3. t \in Amplitude /\ t \in Int /\ u2 * f \in Int /\ Congruent(t, u2 * f)
    BY <1>1, TimesReduced
  <2> HIDE DEF g, t
  <2>4. u2 * f \in Int /\ m \in Int /\ Congruent(u2 * f, m)
    BY <1>1, <2>1, <2>2, CongruentTimes
  <2> DEFINE r == u2 * f
  <2>5. r \in Int /\ m \in Int /\ Congruent(r, m) /\ Congruent(t, r)
    BY <2>3, <2>4
  <2> HIDE DEF r, m
  <2>6. Congruent(t, m)
    BY <2>3, <2>5, CongruentThrough
  <2>7. Congruent(m, t)
    BY <2>3, <2>5, <2>6, CongruentRules
  <2>8. Congruent(e, m)
    BY <1>9, <2>1, <2>5, CongruentThrough
  <2>9. Congruent(e, t)
    BY <2>3, <2>5, <2>7, <2>8, CongruentThrough
  <2>10. e2 \in Amplitude /\ Congruent(e2, t)
    BY <2>3, <2>9, CongruentReduced
  <2> HIDE DEF e2
  <2>11. e2 = t
    BY <2>3, <2>10, CongruentAmplitudes
  <2> QED BY <2>11 DEF e2, t
<1>10. Minus(2 * mean, x) = Times(u2, ((sum - d * a) % 17))
  <2>1. Congruent(2 * mean - x, 2 * w - u * a)
    <3> DEFINE e == u * a  f == 2 * mean  g == 2 * w
    <3>1. e \in Int /\ f \in Int /\ g \in Int /\ Congruent(f, g) /\ Congruent(x, e)
      BY <1>2, <1>4, <1>7
    <3> HIDE DEF e, f, g
    <3>2. Congruent(f - x, g - e)
      BY <1>2, <3>1, CongruentSums
    <3> QED BY <3>2 DEF e, f, g
  <2>2. 2 * mean - x \in Int /\ 2 * w - u * a \in Int /\ sum - d * a \in Int
    BY <1>2, <1>4, <1>7
  <2>3. ((2 * mean - x) % 17) = Times(u2, ((sum - d * a) % 17))
    BY <1>8, <1>9, <2>1, <2>2
  <2> QED BY <2>3 DEF Minus
<1>11. Minus(2 * mean, z) = Times(u2, ((sum + d * b) % 17))
  <2>1. Congruent(2 * mean - z, 2 * w - (0 - u * b))
    <3> DEFINE e == 0 - u * b  f == 2 * mean  g == 2 * w
    <3>1. e \in Int /\ f \in Int /\ g \in Int /\ Congruent(f, g) /\ Congruent(z, e)
      BY <1>3, <1>4, <1>7
    <3> HIDE DEF e, f, g
    <3>2. Congruent(f - z, g - e)
      BY <1>3, <3>1, CongruentSums
    <3> QED BY <3>2 DEF e, f, g
  <2>2. 2 * mean - z \in Int /\ 2 * w + u * b \in Int /\ sum + d * b \in Int
        /\ 2 * w - (0 - u * b) = 2 * w + u * b
    BY <1>3, <1>4, <1>7
  <2>3. ((2 * mean - z) % 17) = Times(u2, ((sum + d * b) % 17))
    BY <1>8, <1>9, <2>1, <2>2
  <2> QED BY <2>3 DEF Minus
<1> QED BY <1>2, <1>3, <1>10, <1>11 DEF sum

\* The common factor of the amplitudes after j iterations.
Unit(j) == Times(Power(InvSqrt2, NumQubits), Power(Half, (NumQubits - 1) * j))

\* The vector after j iterations.
Searched(S, j) ==
  LET ab == Rotated(j, 2^NumQubits, Cardinality(S))
  IN Marks(S, Times(Unit(j), (ab[1] % 17)), Times(Unit(j), (ab[2] % 17)))

LEMMA UnitSteps ==
  ASSUME NumQubits >= 1
  PROVE  /\ Power(Half, NumQubits - 1) \in Int /\ Power(Half, NumQubits) \in Int
         /\ 2^NumQubits \div 2 \in Int
         /\ Congruent(Power(Half, NumQubits - 1) * (2^NumQubits \div 2), 1)
         /\ Congruent(2 * Power(Half, NumQubits), Power(Half, NumQubits - 1))
         /\ \A j \in Nat : /\ Unit(j) \in Amplitude
                           /\ Congruent(Unit(j + 1), Unit(j) * Power(Half, NumQubits - 1))
<1> DEFINE n == NumQubits  p == Power(Half, n - 1)  h == Power(Half, n)  d == 2^(n - 1)
           c == Power(InvSqrt2, n)
<1>1. /\ n \in Nat /\ n - 1 \in Nat /\ n - 1 \in 0..n /\ n \in 0..n /\ (n - 1) + 1 = n
      /\ Half \in Amplitude /\ InvSqrt2 \in Amplitude /\ Half = 9
  BY PowersAssumption DEF Half, InvSqrt2, Amplitude
<1>2. p \in Amplitude /\ h \in Amplitude /\ c \in Amplitude /\ p \in Int /\ h \in Int /\ c \in Int
  <2>1. p \in Amplitude /\ h \in Amplitude /\ c \in Amplitude
    BY <1>1, PowerSteps
  <2> HIDE DEF p, h, c
  <2> QED BY <2>1 DEF Amplitude
<1>3. d \in Int /\ Congruent(p * d, 1)
  BY <1>1, HalfPowers
<1>4. 2^n = 2 * d
  BY <1>1, PowersAssumption
<1>5. 2^n \div 2 = d
  <2> HIDE DEF d
  <2> QED BY <1>3, <1>4
<1>6. h = Times(p, Half)
  BY <1>1, PowerSteps
<1>7. Congruent(2 * h, p)
  <2> HIDE DEF p, h
  <2> DEFINE e == p * 9
  <2>1. e \in Int /\ Congruent(h, e)
    BY <1>1, <1>2, <1>6, TimesPlain
  <2>2. 2 * e = p + 17 * p
    BY <1>2
  <2> HIDE DEF e
  <2>3. Congruent(2, 2)
    BY Remainders
  <2>4. 2 * h \in Int /\ 2 * e \in Int /\ Congruent(2 * h, 2 * e)
    BY <1>2, <2>1, <2>3, CongruentTimes
  <2>5. Congruent(2 * e, p)
    BY <1>2, <2>2 DEF Congruent
  <2> QED BY <1>2, <2>4, <2>5, CongruentThrough
<1>8. ASSUME NEW j \in Nat
      PROVE  Unit(j) \in Amplitude /\ Congruent(Unit(j + 1), Unit(j) * p)
  <2> DEFINE q == Power(Half, (n - 1) * j)  q2 == Power(Half, (n - 1) * (j + 1))
  <2>1. (n - 1) * j \in Nat /\ (n - 1) * (j + 1) = (n - 1) * j + (n - 1)
    <3> DEFINE m == n - 1
    <3>1. m \in Nat
      BY <1>1
    <3> HIDE DEF m
    <3>2. m * j \in Nat /\ m * (j + 1) = m * j + m
      BY <3>1
    <3> QED BY <3>2 DEF m
  <2>2. q \in Amplitude /\ q2 = Times(q, p)
    <3> DEFINE e == (n - 1) * j  f == n - 1
    <3>1. e \in Nat /\ f \in Nat /\ (n - 1) * (j + 1) = e + f
      BY <1>1, <2>1
    <3> HIDE DEF e, f
    <3>2. Power(Half, e) \in Amplitude /\ Power(Half, e + f) = Times(Power(Half, e), Power(Half, f))
      BY <1>1, <3>1, PowerSteps, PowerSum
    <3> QED BY <3>1, <3>2 DEF e, f
  <2>3. Unit(j) = Times(c, q) /\ Unit(j + 1) = Times(c, q2)
    BY DEF Unit
  <2> HIDE DEF n, p, c, q, q2
  <2>a. q \in Int
    BY <2>2 DEF Amplitude
  <2>4. q2 \in Int /\ Congruent(q2, q * p) /\ q * p \in Int
    BY <1>2, <2>2, <2>a, TimesPlain
  <2>5. Unit(j) \in Amplitude /\ Unit(j) \in Int /\ c * q \in Int /\ Congruent(Unit(j), c * q)
    BY <1>2, <2>3, <2>a, TimesPlain
  <2>6. Unit(j + 1) \in Int /\ Congruent(Unit(j + 1), c * (q * p))
    <3> DEFINE e == q * p
    <3>1. e \in Int /\ Congruent(q2, e) /\ Congruent(c, c)
      BY <1>2, <2>4, Remainders
    <3> HIDE DEF e
    <3>2. Unit(j + 1) \in Int /\ Congruent(Unit(j + 1), c * e)
      BY <1>2, <2>3, <2>4, <3>1, TimesCongruent
    <3> QED BY <3>2 DEF e
  <2> DEFINE e == c * q  f == Unit(j)
  <2>7. e \in Int /\ f \in Int /\ Congruent(f, e) /\ c * (q * p) = e * p
    BY <1>2, <2>5, <2>a
  <2> HIDE DEF e, f
  <2>8. Congruent(e, f) /\ Congruent(p, p)
    BY <1>2, <2>7, CongruentRules, Remainders
  <2>9. e * p \in Int /\ f * p \in Int /\ Congruent(e * p, f * p)
    BY <1>2, <2>7, <2>8, CongruentTimes
  <2>10. Congruent(Unit(j + 1), e * p)
    BY <2>6, <2>7
  <2>11. Congruent(Unit(j + 1), f * p)
    <3> DEFINE r == e * p  t == f * p
    <3>1. r \in Int /\ t \in Int /\ Congruent(r, t) /\ Congruent(Unit(j + 1), r)
      BY <2>9, <2>10
    <3> HIDE DEF r, t
    <3>2. Congruent(Unit(j + 1), t)
      BY <2>6, <3>1, CongruentThrough
    <3> QED BY <3>2 DEF t
  <2> QED BY <2>5, <2>11 DEF f
<1> QED BY <1>2, <1>3, <1>5, <1>7, <1>8

(* An iteration, the oracle and the inversion.                             *)
LEMMA SearchIteration ==
  ASSUME NumQubits >= 1, NEW S \in SUBSET States!Indices, NEW j \in Nat, NEW form,
         NEW marked \in Bijection(1..Cardinality(S), S),
         GroverIteration(Flips(marked, Cardinality(S)), form) \in Seq(RunOperations)
  PROVE  /\ Searched(S, j) \in Vectors
         /\ AfterCircuit(GroverIteration(Flips(marked, Cardinality(S)), form), Searched(S, j))
              = Searched(S, j + 1)
<1> DEFINE M == Cardinality(S)  N == 2^NumQubits  d == N \div 2
           p == Power(Half, NumQubits - 1)  h == Power(Half, NumQubits)
           ab == Rotated(j, N, M)  a == ab[1]  b == ab[2]
           sum == (N - M) * a - M * b
           u == Unit(j)  u2 == Unit(j + 1)
           x == Times(u, (a % 17))  y == Times(u, (b % 17))  z == Minus(0, y)
           mean == Times((((N - M) * x + M * z) % 17), h)
           flips == Flips(marked, M)  last == InversionAboutMean(form)
           v == Searched(S, j)
<1>1. N \in Nat /\ M \in Nat /\ IsFiniteSet(S)
  BY StatesCounted, FS_Subset, FS_CardinalityType
<1>2. /\ ab \in Int \X Int /\ a \in Int /\ b \in Int
      /\ Rotated(j + 1, N, M) = <<sum - d * a, sum + d * b>>
  <2>1. /\ ab \in Int \X Int
        /\ Rotated(j + 1, N, M) = Rotating(N, M)[ab]
    <3> HIDE DEF N, M
    <3> QED BY <1>1, RotatedSteps
  <2>2. Rotating(N, M)[ab] = <<sum - d * a, sum + d * b>>
    <3> HIDE DEF N, M, ab
    <3> QED BY <2>1 DEF Rotating
  <2> QED BY <2>1, <2>2
<1>3. /\ p \in Int /\ h \in Int /\ d \in Int /\ Congruent(p * d, 1) /\ Congruent(2 * h, p)
      /\ u \in Amplitude /\ u2 \in Amplitude /\ Congruent(u2, u * p)
  <2>1. j + 1 \in Nat
    OBVIOUS
  <2> QED BY <2>1, UnitSteps
<1>4. x \in Amplitude /\ y \in Amplitude /\ z \in Amplitude /\ v = Marks(S, x, y)
  <2>1. \A e \in Int : Times(u, e) \in Amplitude
    <3> HIDE DEF u
    <3>1. u \in Int
      BY <1>3 DEF Amplitude
    <3> QED BY <3>1, Remainders, TimesCongruent
  <2>2. (a % 17) \in Int /\ (b % 17) \in Int
    <3> HIDE DEF a, b
    <3> QED BY <1>2
  <2>3. x \in Amplitude /\ y \in Amplitude
    <3> HIDE DEF u, a, b
    <3> QED BY <2>1, <2>2
  <2>4. z \in Amplitude
    <3> HIDE DEF y
    <3> QED BY <2>3, Negated
  <2>5. v = Marks(S, x, y)
    BY DEF Searched
  <2> QED BY <2>3, <2>4, <2>5
<1>5. v \in Vectors /\ Marks(S, x, z) \in Vectors
  <2> HIDE DEF v, x, y, z
  <2> QED BY <1>4, MarksType
<1>6. flips \in Seq(RunOperations) /\ <<last>> \in Seq(RunOperations) /\ last \in RunOperations
      /\ GroverIteration(flips, form) = flips \o <<last>>
  <2>1. GroverIteration(flips, form) = flips \o <<last>>
    BY DEF GroverIteration
  <2>2. flips \in Seq(ToSet(flips)) /\ <<last>> \in Seq({last})
    <3>1. M \in Nat /\ flips = [k \in 1..M |-> PhaseFlip(marked[k])]
      BY <1>1 DEF Flips
    <3> HIDE DEF flips, M
    <3> QED BY <3>1 DEF ToSet
  <2> DEFINE A == ToSet(flips) \cup {last}
  <2>3. flips \in Seq(A) /\ <<last>> \in Seq(A)
    <3> HIDE DEF flips, last
    <3> QED BY <2>2
  <2> HIDE DEF flips, last, A
  <2>4. flips \in Seq(RunOperations) /\ <<last>> \in Seq(RunOperations)
    <3>1. flips \o <<last>> \in Seq(RunOperations)
      BY <2>1 DEF flips
    <3> QED BY <2>3, <3>1, ValidBlocks
  <2>5. Len(<<last>>) = 1 /\ <<last>>[1] = last
    OBVIOUS
  <2>6. last \in RunOperations
    BY <2>4, <2>5
  <2> QED BY <2>1, <2>4, <2>6
<1> HIDE DEF flips, last, v
<1>7. AfterCircuit(flips, v) = Marks(S, x, z)
  <2>1. AfterCircuit(flips, Marks(S, x, y)) = Marks(S, x, z)
    <3> HIDE DEF x, y, M
    <3> QED BY <1>1, <1>4, <1>6, Flipped DEF flips, M
  <2> QED BY <1>4, <2>1
<1>8. AfterCircuit(<<last>>, Marks(S, x, z)) = Marks(S, Minus(2 * mean, x), Minus(2 * mean, z))
  <2>1. AfterCircuit(<<last>>, Marks(S, x, z)) = Effect(last, Marks(S, x, z))
    <3> DEFINE w == Marks(S, x, z)
    <3> HIDE DEF w
    <3>1. w \in Vectors
      BY <1>5 DEF w
    <3>2. AfterCircuit(<<last>>, w) = Effect(last, w)
      BY <1>6, <3>1, ShortCircuits
    <3> QED BY <3>2 DEF w
  <2>2. Effect(InversionAboutMean(form), Marks(S, x, z))
          = Marks(S, Minus(2 * mean, x), Minus(2 * mean, z))
    <3> HIDE DEF x, z
    <3> QED BY <1>4, Inverted
  <2> QED BY <2>1, <2>2 DEF last
<1>9. /\ Minus(2 * mean, x) = Times(u2, ((sum - d * a) % 17))
      /\ Minus(2 * mean, z) = Times(u2, ((sum + d * b) % 17))
  <2> HIDE DEF N, M, a, b, u, u2, p, h, d
  <2>1. x = Times(u, (a % 17)) /\ z = Minus(0, Times(u, (b % 17)))
        /\ mean = Times((((N - M) * x + M * z) % 17), h)
    OBVIOUS
  <2>2. N \in Nat /\ M \in Nat /\ a \in Int /\ b \in Int
    BY <1>1, <1>2
  <2> HIDE DEF x, z, mean
  <2>3. /\ Minus(2 * mean, x) = Times(u2, ((((N - M) * a - M * b) - d * a) % 17))
        /\ Minus(2 * mean, z) = Times(u2, ((((N - M) * a - M * b) + d * b) % 17))
    <3>1. Searching(N, M, a, b, u, u2, p, h, d, x, z, mean)
      BY <1>3, <2>1 DEF Searching
    <3>2. p \in Int /\ h \in Int /\ d \in Int /\ u \in Amplitude /\ u2 \in Amplitude
      BY <1>3
    <3> QED BY ONLY <2>2, <3>1, <3>2, Amplified
  <2> QED BY <2>3
<1>10. Searched(S, j + 1)
         = Marks(S, Times(u2, ((sum - d * a) % 17)), Times(u2, ((sum + d * b) % 17)))
  <2> DEFINE next == Rotated(j + 1, N, M)
  <2>1. Searched(S, j + 1) = Marks(S, Times(u2, (next[1] % 17)), Times(u2, (next[2] % 17)))
    BY DEF Searched
  <2>2. next[1] = sum - d * a /\ next[2] = sum + d * b
    <3> HIDE DEF sum, d, a, b, N, M
    <3> QED BY <1>2
  <2> HIDE DEF next, sum, d, a, b, u2
  <2> QED BY <2>1, <2>2
<1> HIDE DEF x, z, mean, sum, d, a, b, u2
<1>11. AfterCircuit(flips \o <<last>>, v) = AfterCircuit(<<last>>, AfterCircuit(flips, v))
  BY <1>5, <1>6, CircuitsJoin
<1> QED BY <1>5, <1>6, <1>7, <1>8, <1>9, <1>10, <1>11 DEF flips, M, v

(* The iterations of a search, one after the other.                        *)
LEMMA SearchRun ==
  ASSUME NumQubits >= 1, NEW S \in SUBSET States!Indices, NEW form,
         NEW marked \in Bijection(1..Cardinality(S), S), NEW j \in Nat,
         GroverIteration(Flips(marked, Cardinality(S)), form) \in Seq(RunOperations)
  PROVE  AfterCircuit(Flattened(GroverIteration(Flips(marked, Cardinality(S)), form), j),
                      Searched(S, 0))
           = Searched(S, j)
<1> DEFINE b == GroverIteration(Flips(marked, Cardinality(S)), form)
           G == {k \in Nat : AfterCircuit(Flattened(b, k), Searched(S, 0)) = Searched(S, k)}
<1>1. \A k \in Nat : /\ Searched(S, k) \in Vectors
                     /\ AfterCircuit(b, Searched(S, k)) = Searched(S, k + 1)
  BY SearchIteration
<1>2. b \in Seq(RunOperations)
  OBVIOUS
<1> HIDE DEF b
<1>3. /\ Flattened(b, 0) = <<>>
      /\ \A k \in Nat : /\ Flattened(b, k) \in Seq(RunOperations)
                        /\ Flattened(b, k + 1) = Flattened(b, k) \o b
  BY <1>2, FlattenSteps
<1>4. 0 \in G
  <2>1. 0 \in Nat
    OBVIOUS
  <2>2. Searched(S, 0) \in Vectors
    BY <1>1, <2>1
  <2>3. AfterCircuit(<<>>, Searched(S, 0)) = Searched(S, 0)
    BY <2>2, ShortCircuits
  <2> QED BY <1>3, <2>3
<1>5. ASSUME NEW k \in G PROVE k + 1 \in G
  <2>1. k \in Nat /\ k + 1 \in Nat /\ 0 \in Nat
    OBVIOUS
  <2>2. AfterCircuit(Flattened(b, k), Searched(S, 0)) = Searched(S, k)
    OBVIOUS
  <2>3. AfterCircuit(Flattened(b, k) \o b, Searched(S, 0))
          = AfterCircuit(b, AfterCircuit(Flattened(b, k), Searched(S, 0)))
    <3>1. Searched(S, 0) \in Vectors /\ Flattened(b, k) \in Seq(RunOperations)
      BY <1>1, <1>3, <2>1
    <3> HIDE DEF G
    <3> QED BY <1>2, <3>1, CircuitsJoin
  <2> QED BY <1>1, <1>3, <2>1, <2>2, <2>3
<1>6. G = Nat
  <2>1. G \in SUBSET Nat
    OBVIOUS
  <2> HIDE DEF G
  <2> QED BY <1>4, <1>5, <2>1, NumberInduction
<1>7. j \in G
  BY <1>6
<1> QED BY <1>7 DEF b

-------------------------------------------------------------------------------
(* The circuit makeGrover builds.                                          *)

(* The number of iterations is a number, and 0 if there is one state.      *)
LEMMA IterationsCounted ==
  ASSUME NEW N \in Nat \ {0}, NEW M \in Nat \ {0}
  PROVE  /\ GroverIterationCount(N, M) \in Nat
         /\ N = 1 => GroverIterationCount(N, M) = 0
<1> DEFINE Enough(k) == 160000 * (k + 1) * (k + 1) * M > 98696 * N
           Fits(k) == 160000 * k * k * M <= 98696 * N
           Ks == {k \in Nat : Enough(k)}
           K == GroverIterationCount(N, M)
<1>0. N >= 1 /\ M >= 1
  OBVIOUS
<1>1. ASSUME NEW k \in Nat
      PROVE  160000 * k * k * M \in Nat /\ 160000 * k * k * M >= 160000 * k * k
             /\ (k >= 1 => k * k >= k)
  <2> DEFINE q == k * k
  <2>1. q \in Nat /\ 160000 * k * k = 160000 * q
    OBVIOUS
  <2>2. k >= 1 => q >= k
    OBVIOUS
  <2> HIDE DEF q
  <2>3. 160000 * q \in Nat
    BY <2>1
  <2> DEFINE r == 160000 * q
  <2>4. r \in Nat
    BY <2>3
  <2> HIDE DEF r
  <2>5. r * M \in Nat /\ r * M >= r
    BY <1>0, <2>4
  <2>6. 160000 * k * k * M = r * M
    BY <2>1 DEF r
  <2> QED BY <2>1, <2>2, <2>5, <2>6 DEF r, q
<1>2. N \in Ks
  <2>1. N + 1 \in Nat /\ N + 1 >= 1
    OBVIOUS
  <2> DEFINE q == (N + 1) * (N + 1)
  <2>2. q >= N + 1 /\ q \in Nat
    BY <1>1, <2>1
  <2>3. 160000 * (N + 1) * (N + 1) = 160000 * q
    OBVIOUS
  <2> HIDE DEF q
  <2>4. 160000 * q > 98696 * N
    BY <2>2
  <2>5. 160000 * (N + 1) * (N + 1) * M >= 160000 * q
        /\ 160000 * (N + 1) * (N + 1) * M \in Nat
    BY <1>1, <2>1, <2>3
  <2> DEFINE t == 160000 * (N + 1) * (N + 1) * M
  <2>6. t >= 160000 * q /\ t \in Nat
    BY <2>5
  <2> HIDE DEF t
  <2>7. t > 98696 * N
    BY <2>2, <2>4, <2>6
  <2> QED BY <2>7 DEF t
<1>3. PICK k \in Ks : \A m \in Ks : k <= m
  <2>1. Ks \in SUBSET Nat /\ Ks # {}
    BY <1>2
  <2> HIDE DEF Ks
  <2> QED BY <2>1, LeastNumber
<1>4. k \in Nat /\ Enough(k) /\ k <= N
  BY <1>2, <1>3
<1>5. Fits(k)
  <2>1. CASE k = 0
    <3>1. 160000 * 0 * 0 * M = 0
      BY <1>0
    <3> QED BY <1>0, <2>1, <3>1
  <2>2. CASE k # 0
    <3>1. k - 1 \in Nat /\ (k - 1) + 1 = k /\ ~(k <= k - 1)
      BY <1>4, <2>2
    <3>2. ~Enough(k - 1)
      <4>1. k - 1 \notin Ks
        BY <1>3, <3>1
      <4> HIDE DEF Enough
      <4> QED BY <3>1, <4>1
    <3>3. ~(160000 * k * k * M > 98696 * N)
      BY <3>1, <3>2
    <3>4. 160000 * k * k * M \in Nat /\ 98696 * N \in Nat
      BY <1>1, <1>4
    <3> QED BY <3>3, <3>4
  <2> QED BY <2>1, <2>2
<1>6. K \in 0..N /\ Fits(K) /\ Enough(K)
  <2>1. k \in 0..N
    BY <1>4
  <2> HIDE DEF Fits, Enough, Ks
  <2>2. \E j \in 0..N : Fits(j) /\ Enough(j)
    BY <1>4, <1>5, <2>1
  <2>3. K = CHOOSE j \in 0..N : Fits(j) /\ Enough(j)
    BY DEF GroverIterationCount, Fits, Enough
  <2> HIDE DEF K
  <2> QED BY <2>2, <2>3
<1> HIDE DEF K
<1>7. ASSUME N = 1, K # 0 PROVE FALSE
  <2>1. K \in Nat /\ K >= 1
    BY <1>6, <1>7
  <2> DEFINE q == K * K
  <2>2. q >= K /\ q \in Nat /\ 160000 * K * K = 160000 * q
    BY <1>1, <2>1
  <2>3. 160000 * K * K * M >= 160000 * K * K /\ 160000 * K * K * M \in Nat
    BY <1>1, <2>1
  <2> DEFINE t == 160000 * K * K * M
  <2>4. t >= 160000 * q /\ t \in Nat /\ t <= 98696 * 1
    BY <1>6, <1>7, <2>2, <2>3
  <2> HIDE DEF q, t
  <2> QED BY <2>1, <2>2, <2>4
<1> QED BY <1>6, <1>7 DEF K

\* Where a circuit inverts about the mean.
Inversions(ops) == {k \in DOMAIN ops : ops[k].name = "Inversion"}

LEMMA OwnElements ==
  ASSUME NEW n \in Nat, NEW s, s = [k \in 1..n |-> s[k]]
  PROVE  Len(s) = n /\ s \in Seq(ToSet(s))
<1>1. \A k \in 1..n : s[k] \in ToSet(s)
  BY DEF ToSet
<1>2. s \in [1..n -> ToSet(s)]
  BY <1>1
<1> QED BY <1>2

LEMMA InversionsCounted ==
  ASSUME NEW A, NEW M \in Nat, NEW marked, NEW form,
         GroverIteration(Flips(marked, M), form) \in Seq(A), NEW n \in Nat,
         Superposition \in Seq(A)
  PROVE  /\ IsFiniteSet(Inversions(Superposition
                           \o Flattened(GroverIteration(Flips(marked, M), form), n)))
         /\ Cardinality(Inversions(Superposition
                           \o Flattened(GroverIteration(Flips(marked, M), form), n))) = n
<1> DEFINE b == GroverIteration(Flips(marked, M), form)
           C(k) == Superposition \o Flattened(b, k)
           G == {k \in Nat : IsFiniteSet(Inversions(C(k))) /\ Cardinality(Inversions(C(k))) = k}
<1>1. /\ Len(b) = M + 1 /\ b[M + 1].name = "Inversion"
      /\ \A k \in 1..M : b[k].name = "PhaseFlip"
  <2> DEFINE flips == Flips(marked, M)  last == InversionAboutMean(form)
  <2>1. flips = [k \in 1..M |-> PhaseFlip(marked[k])]
    BY DEF Flips
  <2>2. Len(flips) = M /\ flips \in Seq(ToSet(flips)) /\ \A k \in 1..M : flips[k].name = "PhaseFlip"
    BY <2>1, OwnElements DEF PhaseFlip
  <2>3. last.name = "Inversion" /\ <<last>> \in Seq({last}) /\ Len(<<last>>) = 1 /\ <<last>>[1] = last
    BY DEF InversionAboutMean
  <2> DEFINE B == ToSet(flips) \cup {last}
  <2> HIDE DEF flips, last
  <2>4. flips \in Seq(B) /\ <<last>> \in Seq(B)
    BY <2>2, <2>3
  <2> HIDE DEF B
  <2>5. /\ Len(flips \o <<last>>) = Len(flips) + Len(<<last>>)
        /\ \A i \in 1..Len(flips) : (flips \o <<last>>)[i] = flips[i]
        /\ \A i \in 1..Len(<<last>>) : (flips \o <<last>>)[Len(flips) + i] = <<last>>[i]
    BY <2>4, JoinedCircuits
  <2>6. 1 \in 1..Len(<<last>>)
    BY <2>3
  <2>7. (flips \o <<last>>)[M + 1] = last
    BY <2>2, <2>3, <2>5, <2>6
  <2>8. b = flips \o <<last>>
    BY DEF GroverIteration, flips, last
  <2> HIDE DEF b
  <2> QED BY <2>2, <2>3, <2>5, <2>7, <2>8
<1>2. \A k \in DOMAIN Superposition : Superposition[k].name # "Inversion"
  BY DEF Superposition, H
<1>3. b \in Seq(A)
  OBVIOUS
<1> HIDE DEF b
<1>4. /\ Flattened(b, 0) = <<>>
      /\ \A k \in Nat : /\ Flattened(b, k) \in Seq(A)
                        /\ Flattened(b, k + 1) = Flattened(b, k) \o b
  BY <1>3, FlattenSteps
<1>5. \A k \in Nat : C(k) \in Seq(A)
  BY <1>4
<1>6. ASSUME NEW k \in Nat PROVE C(k + 1) = C(k) \o b
  <2> DEFINE f == Flattened(b, k)
  <2>1. f \in Seq(A) /\ Flattened(b, k + 1) = f \o b
    BY <1>4
  <2> HIDE DEF f
  <2>2. (Superposition \o f) \o b = Superposition \o (f \o b)
    BY <1>3, <2>1, ConcatAssociative
  <2> QED BY <2>1, <2>2 DEF f
<1>7. C(0) = Superposition
  <2>1. Superposition \o <<>> = Superposition
    OBVIOUS
  <2> QED BY <1>4, <2>1
<1> HIDE DEF C
<1>8. 0 \in G
  <2>1. Inversions(C(0)) = {}
    BY <1>2, <1>7 DEF Inversions
  <2> QED BY <2>1, FS_EmptySet
<1>9. ASSUME NEW s \in Seq(A)
      PROVE  Len(s) \in Nat /\ Inversions(s \o b) = Inversions(s) \cup {Len(s) + (M + 1)}
             /\ Len(s) + (M + 1) \notin Inversions(s)
  <2> DEFINE m == Len(s)  t == s \o b
  <2>1. /\ m \in Nat /\ t \in Seq(A) /\ Len(t) = m + (M + 1)
        /\ \A i \in 1..m : t[i] = s[i]
        /\ \A i \in 1..(M + 1) : t[m + i] = b[i]
    <3> USE DEF t, m
    <3>1. /\ Len(s) \in Nat /\ s \o b \in Seq(A) /\ Len(s \o b) = Len(s) + Len(b)
          /\ \A i \in 1..Len(s) : (s \o b)[i] = s[i]
          /\ \A i \in 1..Len(b) : (s \o b)[Len(s) + i] = b[i]
      BY <1>3, JoinedCircuits
    <3> QED BY <1>1, <3>1
  <2>2. DOMAIN t = 1..(m + (M + 1)) /\ DOMAIN s = 1..m
    <3> HIDE DEF t
    <3> QED BY <2>1
  <2> HIDE DEF m, t
  <2>3. ASSUME NEW i \in 1..(m + (M + 1)), t[i].name = "Inversion"
        PROVE  i \in Inversions(s) \cup {m + (M + 1)}
    <3>1. CASE i <= m
      <4>1. i \in 1..m
        BY <3>1
      <4> QED BY <2>1, <2>2, <2>3, <4>1 DEF Inversions
    <3>2. CASE i > m /\ i # m + (M + 1)
      <4>1. i - m \in 1..M /\ i - m \in 1..(M + 1) /\ m + (i - m) = i
        BY <2>1, <3>2
      <4>2. t[m + (i - m)] = b[i - m] /\ b[i - m].name = "PhaseFlip"
        BY <1>1, <2>1, <4>1
      <4>3. t[i].name = "PhaseFlip"
        BY <4>1, <4>2
      <4> QED BY <2>3, <4>3
    <3> QED BY <2>1, <3>1, <3>2
  <2>4. ASSUME NEW i \in Inversions(s) PROVE i \in Inversions(t)
    <3>1. i \in 1..m /\ s[i].name = "Inversion" /\ i \in 1..(m + (M + 1))
      BY <2>1, <2>2 DEF Inversions
    <3> QED BY <2>1, <2>2, <3>1 DEF Inversions
  <2>5. m + (M + 1) \in Inversions(t)
    <3>1. M + 1 \in 1..(M + 1) /\ m + (M + 1) \in 1..(m + (M + 1))
      BY <2>1
    <3>2. t[m + (M + 1)] = b[M + 1]
      BY <2>1, <3>1
    <3> QED BY <1>1, <2>2, <3>1, <3>2 DEF Inversions
  <2>6. m + (M + 1) \notin Inversions(s)
    <3>1. m + (M + 1) \notin 1..m
      BY <2>1
    <3> QED BY <2>2, <3>1 DEF Inversions
  <2>7. \A i \in Inversions(t) : i \in 1..(m + (M + 1)) /\ t[i].name = "Inversion"
    BY <2>2 DEF Inversions
  <2>8. Inversions(t) = Inversions(s) \cup {m + (M + 1)}
    BY <2>3, <2>4, <2>5, <2>7
  <2> QED BY <2>1, <2>6, <2>8 DEF m, t
<1>10. ASSUME NEW k \in G PROVE k + 1 \in G
  <2>1. k \in Nat /\ IsFiniteSet(Inversions(C(k))) /\ Cardinality(Inversions(C(k))) = k
    OBVIOUS
  <2> DEFINE s == C(k)  x == Len(s) + (M + 1)
  <2>2. s \in Seq(A)
    BY <1>5, <2>1
  <2>3. Inversions(C(k + 1)) = Inversions(s) \cup {x} /\ x \notin Inversions(s)
    <3>1. C(k + 1) = s \o b
      BY <1>6, <2>1
    <3> HIDE DEF s
    <3> QED BY <1>9, <2>2, <3>1
  <2>4. IsFiniteSet(Inversions(s)) /\ Cardinality(Inversions(s)) = k
    BY <2>1
  <2> HIDE DEF s, x
  <2>5. /\ IsFiniteSet(Inversions(s) \cup {x})
        /\ Cardinality(Inversions(s) \cup {x}) = k + 1
    BY <2>3, <2>4, FS_AddElement
  <2>6. k + 1 \in Nat
    BY <2>1
  <2> QED BY <2>3, <2>5, <2>6
<1>11. G = Nat
  <2>1. G \in SUBSET Nat
    OBVIOUS
  <2> HIDE DEF G
  <2> QED BY <1>8, <1>10, <2>1, NumberInduction
<1>12. n \in G
  BY <1>11
<1> QED BY <1>12 DEF C, b

(* A search is a superposition and iterations, each the phase flips of the *)
(* marked states in order and an inversion.                                *)
LEMMA SearchBuilt ==
  ASSUME NEW list \in Seq(States!Indices), list # <<>>, NEW form
  PROVE  LET S == ToSet(list)
             M == Cardinality(S)
             b == GroverIteration(Flips(Sorted(list), M), form)
         IN /\ S \in SUBSET States!Indices /\ M \in Nat \ {0}
            /\ Sorted(list) \in Bijection(1..M, S)
            /\ Grover(NumQubits, list, form).operations
                 = Superposition \o Flattened(b, GroverIterationCount(2^NumQubits, M))
<1> DEFINE S == ToSet(list)  M == Cardinality(S)  marked == Sorted(list)
           N == 2^NumQubits  K == GroverIterationCount(N, M)
           b == GroverIteration(Flips(marked, M), form)
           valid == {state_ \in ToSet(list) : state_ < 2^NumQubits}
<1>1. S \in SUBSET States!Indices /\ S # {}
  <2>1. Len(list) \in Nat /\ Len(list) # 0 /\ \A i \in 1..Len(list) : list[i] \in States!Indices
        /\ DOMAIN list = 1..Len(list)
    OBVIOUS
  <2>2. 1 \in 1..Len(list)
    BY <2>1
  <2> QED BY <2>1, <2>2 DEF ToSet
<1>2. IsFiniteSet(S) /\ S \in SUBSET Nat
  BY <1>1, IndicesFinite, FS_Subset
<1>3. M \in Nat \ {0}
  <2> HIDE DEF S
  <2>1. M \in Nat /\ M # 0
    BY <1>1, <1>2, FS_CardinalityType, FS_EmptySet
  <2> QED BY <2>1
<1>4. marked \in Bijection(1..M, S) /\ Len(marked) = M
  BY <1>2, SortedStates
<1>5. marked # <<>>
  BY <1>3, <1>4
<1>6. valid = S
  <2>1. N \in Nat /\ States!Indices = 0..(N - 1)
    BY StatesCounted DEF States!Indices, States!StateCount
  <2>2. \A s \in S : s < N
    <3> HIDE DEF S, N
    <3> QED BY <1>1, <2>1
  <2> QED BY <2>2
<1>7. Cardinality(valid) = M
  <2> HIDE DEF valid, S
  <2> QED BY <1>6
<1>8. ~(Cardinality(valid) < Len(marked))
  <2> HIDE DEF valid, marked, M
  <2> QED BY <1>3, <1>4, <1>7
<1>9. Grover(NumQubits, list, form).operations
        = [k \in 1..NumQubits |-> H(k - 1)] \o
          FlattenSeq([k \in 1..GroverIterationCount(N, Len(marked)) |->
            GroverIteration([j \in 1..Cardinality(valid) |-> PhaseFlip(marked[j])], form)])
  BY <1>5, <1>8 DEF Grover
<1> HIDE DEF valid, marked, N
<1>10. Grover(NumQubits, list, form).operations = Superposition \o Flattened(b, K)
  BY <1>4, <1>7, <1>9 DEF Superposition, Flattened, Flips
<1> QED BY <1>1, <1>3, <1>4, <1>10 DEF marked, N

(* A search takes the zero state to the rotated one.                       *)
LEMMA SearchFinds ==
  ASSUME NEW list \in Seq(States!Indices), list # <<>>, NEW form,
         Grover(NumQubits, list, form).operations \in Seq(RunOperations)
  PROVE  LET ops == Grover(NumQubits, list, form).operations
             K == Cardinality(Inversions(ops))
         IN AfterCircuit(ops, States!BasisVector(0, 1)) = Searched(ToSet(list), K)
<1> DEFINE ops == Grover(NumQubits, list, form).operations
           S == ToSet(list)  M == Cardinality(S)  marked == Sorted(list)  N == 2^NumQubits
           K == GroverIterationCount(N, M)
           b == GroverIteration(Flips(marked, M), form)
           F == Flattened(b, K)
           zero == States!BasisVector(0, 1)
<1>1. /\ S \in SUBSET States!Indices /\ M \in Nat \ {0} /\ marked \in Bijection(1..M, S)
      /\ ops = Superposition \o F
  BY SearchBuilt
<1>2. N \in Nat \ {0} /\ NumQubits \in Nat
  BY StatesCounted, PowersAssumption
<1>3. K \in Nat /\ (K # 0 => NumQubits >= 1)
  <2> HIDE DEF N, M
  <2>1. K \in Nat /\ (N = 1 => K = 0)
    BY <1>1, <1>2, IterationsCounted
  <2>2. NumQubits = 0 => N = 1
    BY PowersAssumption DEF N
  <2> QED BY <1>2, <2>1, <2>2
<1> DEFINE A == ToSet(Superposition) \cup ToSet(b)
<1>4. Superposition \in Seq(A) /\ b \in Seq(A)
  <2>1. Superposition \in Seq(ToSet(Superposition))
    <3>1. Superposition = [k \in 1..NumQubits |-> Superposition[k]]
      BY DEF Superposition
    <3> QED BY <1>2, <3>1, OwnElements
  <2>2. b \in Seq(ToSet(b))
    <3> DEFINE flips == Flips(marked, M)  last == InversionAboutMean(form)
               B == ToSet(flips) \cup {last}
    <3>1. flips \in Seq(ToSet(flips)) /\ <<last>> \in Seq({last})
      <4>1. flips = [k \in 1..M |-> PhaseFlip(marked[k])]
        BY DEF Flips
      <4> HIDE DEF M, marked
      <4>2. flips = [k \in 1..M |-> flips[k]] /\ M \in Nat
        BY <1>1, <4>1
      <4>3. <<last>> \in Seq({last})
        OBVIOUS
      <4> HIDE DEF flips
      <4> QED BY <4>2, <4>3, OwnElements
    <3> HIDE DEF flips, last
    <3>2. flips \in Seq(B) /\ <<last>> \in Seq(B)
      BY <3>1
    <3> HIDE DEF B
    <3>3. flips \o <<last>> \in Seq(B)
      BY <3>2
    <3>4. b = flips \o <<last>>
      BY DEF GroverIteration, flips, last
    <3> HIDE DEF b
    <3>5. b \in Seq(B)
      BY <3>3, <3>4
    <3> QED BY <3>5 DEF ToSet
  <2> HIDE DEF b
  <2> QED BY <2>1, <2>2
<1>5. F \in Seq(A) /\ Flattened(b, 0) = <<>>
      /\ \A k \in Nat : Flattened(b, k) \in Seq(A) /\ Flattened(b, k + 1) = Flattened(b, k) \o b
  <2> HIDE DEF b, A, K
  <2> QED BY <1>3, <1>4, FlattenSteps
<1>6. Superposition \in Seq(RunOperations) /\ F \in Seq(RunOperations)
  <2>1. Superposition \o F \in Seq(RunOperations)
    BY <1>1
  <2> HIDE DEF F, A
  <2> QED BY <1>4, <1>5, <2>1, ValidBlocks
<1>7. K # 0 => b \in Seq(RunOperations)
  <2> HIDE DEF b, A, K
  <2> SUFFICES ASSUME K # 0 PROVE b \in Seq(RunOperations)
    OBVIOUS
  <2>1. K - 1 \in Nat /\ (K - 1) + 1 = K
    BY <1>3
  <2>2. F = Flattened(b, K - 1) \o b /\ Flattened(b, K - 1) \in Seq(A)
    BY <1>5, <2>1
  <2>3. Flattened(b, K - 1) \o b \in Seq(RunOperations)
    BY <1>6, <2>2
  <2> QED BY <1>4, <2>2, <2>3, ValidBlocks
<1>8. Cardinality(Inversions(ops)) = K
  <2>1. Cardinality(Inversions(Superposition \o F)) = K
    <3> HIDE DEF M, K, marked, A
    <3> QED BY <1>1, <1>3, <1>4, InversionsCounted
  <2> QED BY <1>1, <2>1
<1>9. zero \in Vectors
      /\ AfterCircuit(Superposition, zero)
           = [s \in States!Indices |-> Power(InvSqrt2, NumQubits)]
  BY <1>6, Superposed
<1>10. Searched(S, 0) = [s \in States!Indices |-> Power(InvSqrt2, NumQubits)]
  <2> DEFINE c == Power(InvSqrt2, NumQubits)
  <2>1. c \in Amplitude /\ Power(Half, 0) = 1
    <3>1. InvSqrt2 \in Amplitude /\ Half \in Amplitude
      BY DEF InvSqrt2, Half, Amplitude
    <3> QED BY <1>2, <3>1, PowerSteps
  <2>2. Unit(0) = Times(c, 1)
    <3>1. (NumQubits - 1) * 0 = 0
      BY <1>2
    <3> QED BY <2>1, <3>1 DEF Unit
  <2> HIDE DEF c
  <2>3. Times(c, 1) = c /\ (1 % 17) = 1
    BY <2>1 DEF Times, Amplitude
  <2>4. Rotated(0, N, M) = <<1, 1>>
    <3> HIDE DEF N, M
    <3> QED BY <1>1, <1>2, RotatedSteps
  <2>5. Searched(S, 0) = Marks(S, Times(Unit(0), (Rotated(0, N, M)[1] % 17)),
                                  Times(Unit(0), (Rotated(0, N, M)[2] % 17)))
    BY DEF Searched
  <2>6. Searched(S, 0) = Marks(S, c, c)
    <3> HIDE DEF N, M, S
    <3> QED BY <2>2, <2>3, <2>4, <2>5
  <2> QED BY <2>6 DEF Marks, c
<1>11. AfterCircuit(F, Searched(S, 0)) = Searched(S, K)
  <2>1. CASE K = 0
    <3>1. Searched(S, 0) \in Vectors
      <4>1. Power(InvSqrt2, NumQubits) \in Amplitude
        BY <1>2, LayerType
      <4> QED BY <1>10, <4>1 DEF Vectors
    <3>2. AfterCircuit(<<>>, Searched(S, 0)) = Searched(S, 0)
      BY <3>1, ShortCircuits
    <3> HIDE DEF K, b
    <3> QED BY <1>5, <2>1, <3>2
  <2>2. CASE K # 0
    <3> HIDE DEF S, marked, K
    <3> QED BY <1>1, <1>3, <1>7, <2>2, SearchRun
  <2> QED BY <2>1, <2>2
<1> HIDE DEF F, zero, K, S
<1>12. AfterCircuit(Superposition \o F, zero) = AfterCircuit(F, AfterCircuit(Superposition, zero))
  BY <1>6, <1>9, CircuitsJoin
<1> HIDE DEF ops
<1> QED BY <1>1, <1>8, <1>9, <1>10, <1>11, <1>12 DEF ops, S, zero

(* A run's result is returned only when its batch ends.                    *)
LEMMA OnlyEndReturns ==
  ASSUME SimulationInv, Next, AtEnd, outcome' = "returned"
  PROVE  EndRun
<1>1. /\ running # NoCircuit /\ outcome = "returned" /\ request = Register!NoRequest
      /\ position > Len(running.operations) /\ Register!NoRequest.name = "None"
  BY DEF AtEnd, InRun, Register!NoRequest
<1>2. position \in Int /\ Len(running.operations) \in Nat
  <2>1. running \in CircuitsRun /\ OnTrack
    BY <1>1 DEF SimulationInv, InRun
  <2>2. Len(running.operations) \in Nat
    BY <2>1, CircuitsAssumption
  <2> QED BY <2>1, <2>2 DEF OnTrack
<1>3. ~ClientCalls
  BY <1>1 DEF ClientCalls
<1>4. ~Execute
  BY <1>1, <1>2 DEF Execute
<1>5. ~Operate
  BY <1>1 DEF Operate, Register!ApplyGate, Register!ApplySwap,
     Register!ApplyPhaseFlipBasisState, Register!ApplyInversionAboutMean, Register!Over
<1>6. ~OperationThrows /\ ~EndBatchThrows /\ ~Unwind
  BY <1>1 DEF OperationThrows, EndBatchThrows, Unwind
<1> QED BY <1>3, <1>4, <1>5, <1>6 DEF Next, Step, SetAmplitude, Run

(* A run of makeGrover from the zero state leaves one amplitude on the     *)
(* marked states and one on the others, those of Grover's plane rotation:  *)
(* for any number of qubits and any list of marked states.                 *)
THEOREM SearchesRotate == Spec => GroverRotates
<1> DEFINE Found ==
      Completes("grover") /\ States!AmplitudesOf(state) = States!BasisVector(0, 1)
      => LET N == 2^NumQubits
             marked == ToSet(running.marked)
             ab == Rotated(Diffusions, N, Cardinality(marked))
             unit == Times(Power(InvSqrt2, NumQubits),
                           Power(Half, (NumQubits - 1) * Diffusions))
         IN States!AmplitudesOf(state') =
              [s \in States!Indices |->
                 Times(unit, ab[IF s \in marked THEN 2 ELSE 1] % 17)]
<1>1. ASSUME SimulationInv, Next, Completes("grover"),
             States!AmplitudesOf(state) = States!BasisVector(0, 1)
      PROVE  States!AmplitudesOf(state') = Searched(ToSet(running.marked), Diffusions)
  <2>1. AtEnd /\ running.name = "grover" /\ outcome' = "returned"
    BY <1>1 DEF Completes
  <2>2. EndRun
    BY <1>1, <2>1, OnlyEndReturns
  <2>3. States!AmplitudesOf(state')
          = AfterCircuit(running.operations, States!BasisVector(0, 1))
    BY <1>1, <2>2, EndRunStep
  <2>4. running \in CircuitsRun
    BY <1>1, <2>1 DEF SimulationInv, AtEnd, InRun
  <2>5. /\ running.marked \in Seq(States!Indices) /\ running.marked # <<>>
        /\ running.operations \in Seq(RunOperations)
    BY <2>1, <2>4, SearchesAssumption, CircuitsAssumption
  <2>6. PICK form \in BOOLEAN :
          running.operations = Grover(NumQubits, running.marked, form).operations
    BY <2>1, <2>4, SearchesAssumption
  <2>7. Diffusions = Cardinality(Inversions(running.operations))
    BY DEF Diffusions, Inversions
  <2> DEFINE list == running.marked  ops == running.operations
  <2>8. list \in Seq(States!Indices) /\ list # <<>>
        /\ Grover(NumQubits, list, form).operations \in Seq(RunOperations)
    BY <2>5, <2>6
  <2>9. AfterCircuit(Grover(NumQubits, list, form).operations, States!BasisVector(0, 1))
          = Searched(ToSet(list), Cardinality(Inversions(Grover(NumQubits, list, form).operations)))
    <3> HIDE DEF list
    <3> QED BY <2>8, SearchFinds
  <2> QED BY <2>3, <2>6, <2>7, <2>9
<1>2. \A S, j : Searched(S, j)
        = LET ab == Rotated(j, 2^NumQubits, Cardinality(S))
              unit == Times(Power(InvSqrt2, NumQubits), Power(Half, (NumQubits - 1) * j))
          IN [s \in States!Indices |->
                Times(unit, ab[IF s \in S THEN 2 ELSE 1] % 17)]
  <2> SUFFICES ASSUME NEW S, NEW j
               PROVE  Searched(S, j)
                        = LET ab == Rotated(j, 2^NumQubits, Cardinality(S))
                              unit == Times(Power(InvSqrt2, NumQubits),
                                            Power(Half, (NumQubits - 1) * j))
                          IN [s \in States!Indices |->
                                Times(unit, ab[IF s \in S THEN 2 ELSE 1] % 17)]
    OBVIOUS
  <2> DEFINE ab == Rotated(j, 2^NumQubits, Cardinality(S))  unit == Unit(j)
  <2>1. Searched(S, j) = [s \in States!Indices |->
          IF s \in S THEN Times(unit, (ab[2] % 17)) ELSE Times(unit, (ab[1] % 17))]
    BY DEF Searched, Marks
  <2> HIDE DEF ab, unit
  <2>2. \A s : (IF s \in S THEN Times(unit, (ab[2] % 17)) ELSE Times(unit, (ab[1] % 17)))
                 = Times(unit, ab[IF s \in S THEN 2 ELSE 1] % 17)
    OBVIOUS
  <2> QED BY <2>1, <2>2 DEF ab, unit, Unit
<1>3. ASSUME SimulationInv, [Next]_vars PROVE [Found]_vars
  <2>1. CASE Next
    <3>1. ASSUME Completes("grover"), States!AmplitudesOf(state) = States!BasisVector(0, 1)
          PROVE  States!AmplitudesOf(state') = Searched(ToSet(running.marked), Diffusions)
      BY <1>1, <1>3, <2>1, <3>1
    <3> QED BY <1>2, <3>1
  <2>2. CASE UNCHANGED vars
    BY <2>2
  <2> QED BY <1>3, <2>1, <2>2
<1> HIDE DEF Found
<1>4. Spec => [][Found]_vars
  BY <1>3, SimulationAlways, PTL DEF Spec
<1> QED BY <1>4, PTL DEF GroverRotates, Found
===============================================================================
