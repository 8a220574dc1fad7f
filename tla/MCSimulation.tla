----------------------------- MODULE MCSimulation -----------------------------
(* A small instance of Simulation for TLC. *)
EXTENDS Simulation

Vector == [s \in States!Indices |-> (5 * s + 3) % 17]

ClientStates ==
  {States!Basis(0), States!BasisAmplitude(5, I),
   States!UniformSubset(States!SparsePattern \o <<0, 3, 6>>),
   States!FromAmplitudes(Vector)}

GroverCircuit(list, form) ==
  [name |-> "grover", marked |-> list,
   operations |-> Grover(NumQubits, list, form).operations]

\* What is appended of a search whose second marked state is refused, and then
\* operations of every kind that meet an overlay.
Prefix == Grover(NumQubits, <<2, 2^NumQubits>>, FALSE).operations
Mixed == Prefix \o
  <<InversionAboutMean(FALSE), PhaseFlip(3), InversionAboutMean(FALSE),
    InversionAboutMean(TRUE), PhaseFlip(1), InversionAboutMean(FALSE),
    [name |-> "X", qubits |-> <<0>>], [name |-> "CNOT", qubits |-> <<1, 0>>],
    InversionAboutMean(FALSE),
    [name |-> "Gate", qubits |-> <<1, 0>>,
     matrix |-> [row \in 0..3 |-> [col \in 0..3 |-> 4 * row + col + 1]]],
    InversionAboutMean(FALSE), SwapQubits(0, NumQubits - 1), InversionAboutMean(FALSE)>>

Programs ==
  {[name |-> "qft", operations |-> Qft(NumQubits)],
   GroverCircuit(<<5>>, FALSE), GroverCircuit(<<9, 3, 9>>, TRUE),
   GroverCircuit(<<0, 1, 2, 4, 8, 11, 13, 14>>, FALSE),
   [name |-> "mixed", operations |-> Mixed]}

AmplitudeUpdates == {<<6, 2>>}
===============================================================================
