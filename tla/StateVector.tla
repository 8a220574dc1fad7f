------------------------------ MODULE StateVector -----------------------------
(***************************************************************************)
(* What a storage back end promises: a vector of 2^NumQubits amplitudes on *)
(* which every operation acts as linear algebra says, however the vector   *)
(* is stored.  An operation that throws may have acted on a part of the    *)
(* vector, but on both amplitudes of a pair or on neither.                 *)
(***************************************************************************)
EXTENDS Gates

CONSTANTS
  NumQubits,
  Operations,  \* the operations clients call
  Initial,     \* the vectors a behaviour starts from
  MayThrow     \* an operation may throw half way

VARIABLES
  psi,
  request      \* the operation called and not yet over, or NoRequest

NoRequest == [name |-> "None"]

-------------------------------------------------------------------------------
States == 0..(2^NumQubits - 1)

\* Qubit 0 is the most significant bit of a state.
Mask(q) == 2^(NumQubits - 1 - q)
Bit(s, q) == (s \div Mask(q)) % 2

\* The row of a gate on the listed qubits that state s falls in.
Row(s, qubits) ==
  MapThenSumSet(LAMBDA i : Bit(s, qubits[i]) * 2^(Len(qubits) - i), DOMAIN qubits)

\* State s with its target bits replaced by those of a column.
WithColumn(s, qubits, col) ==
  s + MapThenSumSet(LAMBDA i :
        (((col \div 2^(Len(qubits) - i)) % 2) - Bit(s, qubits[i])) * Mask(qubits[i]),
        DOMAIN qubits)

Applied(gate, qubits, v) ==
  [s \in States |->
     Total([col \in DOMAIN gate |->
              gate[Row(s, qubits)][col] * v[WithColumn(s, qubits, col)]])]

Mean(v) == Times(Total(v), InversePower2(NumQubits))

BasisVector(state, value) == [s \in States |-> IF s = state THEN value ELSE 0]

\* The matrix that exchanges two qubits.
Exchange ==
  Matrix(<< <<1, 0, 0, 0>>, <<0, 0, 1, 0>>, <<0, 1, 0, 0>>, <<0, 0, 0, 1>> >>)

\* The operation's effect on the whole vector.
Result(o, v) ==
  CASE o.name = "H"    -> Applied(Hadamard, o.qubits, v)
    [] o.name = "X"    -> Applied(PauliX, o.qubits, v)
    [] o.name = "CNOT" -> Applied(ControlledNot, o.qubits, v)
    [] o.name = "CP"   -> Applied(ControlledPhaseShift(o.phase), o.qubits, v)
    [] o.name = "Swap" -> Applied(Exchange, o.qubits, v)
    [] o.name = "Gate" -> Applied(o.matrix, o.qubits, v)
    [] o.name = "PhaseFlip"     -> [v EXCEPT ![o.state] = Minus(0, @)]
    [] o.name = "SetAmplitude"  -> [v EXCEPT ![o.state] = o.value]
    [] o.name = "Inversion"     -> [s \in States |-> Minus(2 * Mean(v), v[s])]
    [] o.name = "InversionMean" -> [s \in States |-> Minus(2 * o.mean, v[s])]
    [] o.name = "Affine"    -> [s \in States |-> Plus(Times(o.scale, v[s]), o.bias)]
    [] o.name = "InitBasis" -> BasisVector(o.state, o.value)
    [] o.name = "Load"      -> o.vector

\* The state whose amplitude changes together with that of s.
Partner(o, s) ==
  IF o.name \in {"H", "X", "CNOT"}
  THEN LET target == o.qubits[Len(o.qubits)]
       IN IF Bit(s, target) = 0 THEN s + Mask(target) ELSE s - Mask(target)
  ELSE s

-------------------------------------------------------------------------------
Init == psi \in Initial /\ request = NoRequest

Request(o) ==
  /\ request = NoRequest
  /\ request' = o
  /\ psi' = psi

Return ==
  /\ request # NoRequest
  /\ psi' = Result(request, psi)
  /\ request' = NoRequest

Throw ==
  /\ MayThrow
  /\ request # NoRequest
  /\ psi' \in [States -> Amplitude]
  /\ LET result == Result(request, psi)
     IN \A s \in States :
          \/ \A t \in {s, Partner(request, s)} : psi'[t] = psi[t]
          \/ \A t \in {s, Partner(request, s)} : psi'[t] = result[t]
  /\ request' = NoRequest

Next ==
  \/ \E o \in Operations : Request(o)
  \/ Return
  \/ Throw

Spec == Init /\ [][Next]_<<psi, request>>
===============================================================================
