------------------------------- MODULE Simulation -----------------------------
(***************************************************************************)
(* The simulator (sim/simulator.cpp): a client holds a state, changes it,  *)
(* and replaces it by what the run of a circuit on it leaves.  A run works *)
(* on a register made from the state, one operation of the circuit after   *)
(* the other, in one batch of the back end.  Any operation may throw, and  *)
(* so may the flush at the end of the batch; the run then ends without a   *)
(* result.                                                                 *)
(***************************************************************************)
EXTENDS Circuits

CONSTANTS
  NumQubits,
  InitialStates,  \* the states clients begin with
  CircuitsRun,    \* the circuits clients run
  Updates,        \* pairs of a state and the amplitude a client gives it
  MaxCalls        \* bound on the calls of a behaviour

VARIABLES
  state,      \* the client's QuantumState
  running,    \* the circuit being run, or NoCircuit
  position,   \* the next of its operations
  batchDepth, \* of the register's back end
  stored, affineScale, affineBias, affineOverlayActive, cachedSum,
  request, outcome, thrown, left   \* of the register, see QuantumRegister

Register == INSTANCE QuantumRegister WITH
  Operations <- {}, Initial <- {}, MaxOperations <- MaxCalls, MayThrow <- FALSE
States == INSTANCE QuantumState

registerVars ==
  <<stored, affineScale, affineBias, affineOverlayActive, cachedSum>>
callVars == <<request, outcome, thrown>>
vars == <<state, running, position, batchDepth, registerVars, callVars, left>>

RunOperations == UNION {ToSet(circuit.operations) : circuit \in CircuitsRun}

ASSUME StatesAssumption == \A initial \in InitialStates : States!Constructed(initial)
ASSUME UpdatesAssumption == Updates \subseteq States!Indices \X Amplitude
ASSUME CallsAssumption == MaxCalls \in Nat

\* The operations a circuit can hold, their arguments valid: one the register
\* refuses does no more than throw, as any other may.
ASSUME CircuitsAssumption ==
  /\ \A circuit \in CircuitsRun :
       circuit.name # "None" /\ circuit.operations \in Seq(RunOperations)
  /\ \A o \in RunOperations :
       /\ Register!WellFormed(o)
       /\ o.name \in {"H", "X", "CP", "CNOT", "Gate", "Swap", "PhaseFlip", "Inversion"}

\* A search is what appendGrover makes of a list of states.
ASSUME SearchesAssumption ==
  \A circuit \in CircuitsRun :
    circuit.name = "grover" =>
      /\ circuit.marked \in Seq(States!Indices) /\ circuit.marked # <<>>
      /\ \E form \in BOOLEAN :
           circuit.operations = Grover(NumQubits, circuit.marked, form).operations

\* Powers of two, and of the amplitudes a half and 1/sqrt(2).
ASSUME PowersAssumption ==
  /\ NumQubits \in Nat /\ InversePower2(NumQubits) \in Amplitude
  /\ \A n \in 0..NumQubits : InvSqrt2 ^ n \in Int
  /\ 2^0 = 1 /\ \A n \in 0..NumQubits : 2^(n + 1) = 2 * 2^n
  /\ Half^0 = 1 /\ \A n \in 0..NumQubits : Half^(n + 1) = Half * Half^n

NoCircuit == [name |-> "None", operations |-> <<>>]
NoRegister == States!NewRegister([s \in States!Indices |-> 0])

-------------------------------------------------------------------------------
(* The register of a run.                                                  *)

Becomes(reg) ==
  /\ stored' = reg.stored
  /\ affineScale' = reg.scale
  /\ affineBias' = reg.bias
  /\ affineOverlayActive' = reg.overlay
  /\ cachedSum' = reg.sum

CurrentRegister(depth) ==
  [stored |-> stored, scale |-> affineScale, bias |-> affineBias,
   overlay |-> affineOverlayActive, sum |-> cachedSum, batchDepth |-> depth]

\* The register is destroyed, or moved into the result.
Release ==
  /\ running' = NoCircuit
  /\ position' = 1
  /\ batchDepth' = 0
  /\ Becomes(NoRegister)
  /\ UNCHANGED <<request, thrown, left>>

-------------------------------------------------------------------------------
(* The client.                                                             *)

ClientCalls ==
  /\ running = NoCircuit
  /\ left > 0
  /\ left' = left - 1

SetAmplitude(s, a) ==
  /\ ClientCalls
  /\ state' = States!SetAmplitude(state, s, a)
  /\ UNCHANGED <<running, position, batchDepth, registerVars, callVars>>

\* run, up to its first operation: the register, and the batch.
Run(circuit) ==
  /\ ClientCalls
  /\ running' = circuit
  /\ position' = 1
  /\ LET reg == States!Materialize(state)
     IN Becomes(reg) /\ batchDepth' = reg.batchDepth + 1
  /\ outcome' = "returned"
  /\ UNCHANGED <<state, request, thrown>>

-------------------------------------------------------------------------------
(* A run.                                                                  *)

InRun == running # NoCircuit /\ outcome = "returned"

\* Slip: the position is not moved on.
ExecuteAgain ==
  /\ InRun /\ request = Register!NoRequest
  /\ position <= Len(running.operations)
  /\ request' = running.operations[position]
  /\ UNCHANGED <<position, state, running, batchDepth, registerVars, outcome, thrown, left>>

\* executeOperation calls the register.
Execute ==
  /\ InRun /\ request = Register!NoRequest
  /\ position <= Len(running.operations)
  /\ request' = running.operations[position]
  /\ position' = position + 1
  /\ UNCHANGED <<state, running, batchDepth, registerVars, outcome, thrown, left>>

Operate ==
  /\ InRun
  /\ \/ Register!ApplyGate
     \/ Register!ApplySwap
     \/ Register!ApplyPhaseFlipBasisState
     \/ Register!ApplyInversionAboutMean
  /\ UNCHANGED <<state, running, position, batchDepth>>

\* An invalid argument, or the back end: the register is not read again.
OperationThrows ==
  /\ InRun /\ request # Register!NoRequest
  /\ request' = Register!NoRequest
  /\ outcome' = "threw"
  /\ UNCHANGED <<state, running, position, batchDepth, registerVars, thrown, left>>

AtEnd ==
  /\ InRun /\ request = Register!NoRequest
  /\ position > Len(running.operations)

\* Slip: the batch is not ended.
EndRunBatchOpen ==
  /\ AtEnd
  /\ state' = States!FromRegister(CurrentRegister(batchDepth))
  /\ Release
  /\ outcome' = "returned"

\* The batch ends, and the register becomes the result.
EndRun ==
  /\ AtEnd
  /\ state' = States!FromRegister(CurrentRegister(batchDepth - 1))
  /\ Release
  /\ outcome' = "returned"

\* The last flush throws, the batch being over.
EndBatchThrows ==
  /\ AtEnd
  /\ batchDepth = 1 /\ batchDepth' = 0
  /\ outcome' = "threw"
  /\ UNCHANGED <<state, running, position, registerVars, request, thrown, left>>

\* The handler ends the batch, if it is open, and throws on.
Unwind ==
  /\ running # NoCircuit /\ outcome = "threw"
  /\ Release
  /\ UNCHANGED <<state, outcome>>

-------------------------------------------------------------------------------
Init ==
  /\ state \in InitialStates
  /\ running = NoCircuit /\ position = 1 /\ batchDepth = 0
  /\ stored = NoRegister.stored
  /\ affineScale = 1 /\ affineBias = 0 /\ affineOverlayActive = FALSE
  /\ cachedSum = Register!NoSum
  /\ request = Register!NoRequest /\ outcome = "returned" /\ thrown = FALSE
  /\ left = MaxCalls

Step ==
  \/ Execute
  \/ Operate
  \/ OperationThrows
  \/ EndRun
  \/ EndBatchThrows
  \/ Unwind

Next ==
  \/ \E update \in Updates : SetAmplitude(update[1], update[2])
  \/ \E circuit \in CircuitsRun : Run(circuit)
  \/ Step

Spec == Init /\ [][Next]_vars /\ WF_vars(Step)

-------------------------------------------------------------------------------
(* Properties.                                                             *)

\* The vector v, which TLC evaluates here, and not at every use.
Evaluated(v) == CHOOSE w \in {v} : w = v

(* Reading a state amplitude by amplitude, exporting it, adding up its     *)
(* probability, measuring it and making a register of it show the same     *)
(* vector, whatever kind the state is of and whatever overlay the run that *)
(* made it left; except that a basis state never throws when measured, and *)
(* that a sample of 0 takes others to state 0.                             *)
ViewsAgree ==
  LET shown == Evaluated(States!AmplitudesOf(state))
      reg == States!Materialize(state)
      probability == States!ProbabilityOf(state)
  IN running = NoCircuit =>
     /\ \A s \in States!Indices :
          /\ States!AmplitudeOf(state, s) = shown[s]
          /\ States!RegisterAmplitude(reg, s) = shown[s]
     /\ probability = States!TotalProbability(shown)
     /\ \A rnd \in States!Samples(shown) \cap 1..probability :
          /\ States!Measure(state, rnd) = States!Sampled(shown, rnd)
          /\ States!Measure(state, rnd) = States!RegisterMeasure(reg, rnd)

\* One operation after the other.
AfterCircuit(operations, v) ==
  FoldLeft(LAMBDA w, o : Evaluated(Register!Backend!Result(o, w)), v, operations)

(* What a client sees of its state changes only by the amplitudes it sets, *)
(* and by whole circuits: a run never shows half of one, one that throws   *)
(* leaves no trace, and no overlay or sum of an earlier run gets into a    *)
(* later one.                                                              *)
ActsOnVector ==
  [][ \/ \E update \in Updates :
           /\ SetAmplitude(update[1], update[2])
           /\ States!AmplitudesOf(state)' =
                [States!AmplitudesOf(state) EXCEPT ![update[1]] = update[2]]
      \/ /\ running # NoCircuit
         /\ States!AmplitudesOf(state)' =
              AfterCircuit(running.operations, States!AmplitudesOf(state))
    ]_(States!AmplitudesOf(state))

\* A run of a circuit of that name returns its result in this step.
Completes(name) == AtEnd /\ running.name = name /\ outcome' = "returned"

Power(a, n) == FoldLeft(LAMBDA p, k : Times(p, a), 1, [k \in 1..n |-> k])

\* exp(2 pi i / 2^n).
RootOfUnity(n) == Power(RootOfUnity16, 2^(4 - n))

(* A run of makeQft takes a vector to its discrete Fourier transform, the  *)
(* most significant qubit first in both.                                   *)
QftIsFourier ==
  [][ Completes("qft") =>
        \A k \in States!Indices :
          LET before == States!AmplitudesOf(state)
              Root(j) == Power(RootOfUnity(NumQubits), (j * k) % 2^NumQubits)
          IN States!AmplitudesOf(state')[k] =
               Times(Power(InvSqrt2, NumQubits),
                     Total([j \in States!Indices |-> Times(Root(j), before[j])]))
    ]_vars

\* Unmarked and marked amplitudes of N states, scaled to integers by (N/2)^n
\* and the root of N, after n oracles and inversions about the mean.
Rotated(n, N, M) ==
  LET Turned(ab, k) ==
        LET sum == (N - M) * ab[1] - M * ab[2]
        IN <<sum - (N \div 2) * ab[1], sum + (N \div 2) * ab[2]>>
  IN FoldLeft(Turned, <<1, 1>>, [k \in 1..n |-> k])

Diffusions ==
  Cardinality({k \in DOMAIN running.operations : running.operations[k].name = "Inversion"})

(* From the zero state, a run of makeGrover leaves one amplitude on all    *)
(* marked states and one on all others, those of the plane rotation that   *)
(* Grover's iteration is, whichever form the diffusion takes.              *)
GroverRotates ==
  [][ Completes("grover")
        /\ States!AmplitudesOf(state) = States!BasisVector(0, 1)
      => LET N == 2^NumQubits
             marked == ToSet(running.marked)
             ab == Rotated(Diffusions, N, Cardinality(marked))
             unit == Times(Power(InvSqrt2, NumQubits),
                           Power(Half, (NumQubits - 1) * Diffusions))
         IN States!AmplitudesOf(state') =
              [s \in States!Indices |->
                 Times(unit, ab[IF s \in marked THEN 2 ELSE 1] % 17)]
    ]_vars

(* The iterations makeGrover chooses bring the marked states at least half *)
(* of the probability, if at most half of the states are marked.           *)
GroverAmplifies ==
  running.name = "grover" =>
    LET N == 2^NumQubits
        M == Cardinality(ToSet(running.marked))
        ab == Rotated(Diffusions, N, M)
    IN 2 * M <= N => M * ab[2] * ab[2] >= (N - M) * ab[1] * ab[1]

(* The register a run returns has no batch open: it is written back, and   *)
(* so is what later runs do to copies of it.                               *)
BatchClosed == state.kind = "Register" => state.reg.batchDepth = 0

(* Every run ends.                                                         *)
RunsEnd == running # NoCircuit ~> running = NoCircuit
===============================================================================
