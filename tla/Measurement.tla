------------------------------ MODULE Measurement ------------------------------
(***************************************************************************)
(* Probabilities and the sampling of a state (DenseStateBackend and its    *)
(* like): the first state at which the probabilities add up to the sample. *)
(* Amplitudes have no magnitude here; each stands for its own probability, *)
(* a number from 0 to 16 that is 0 for the amplitude 0 only.  Samples are  *)
(* in the same unit, and vectors have any total.                           *)
(***************************************************************************)
EXTENDS Amplitudes, FiniteSetsExt

NoState == -1   \* the sampling throws

TotalProbability(v) == SumFunction(v)

Cumulative(v, s) == SumFunctionOnSet(v, {t \in DOMAIN v : t <= s})

Sampled(v, rnd) ==
  LET reached == {s \in DOMAIN v : rnd <= Cumulative(v, s)}
  IN IF reached = {} THEN NoState ELSE Min(reached)

\* Samples between two of these yield the same state.
Samples(v) ==
  {0} \cup UNION {{Cumulative(v, s), Cumulative(v, s) + 1} : s \in DOMAIN v}
===============================================================================
