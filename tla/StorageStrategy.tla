---------------------------- MODULE StorageStrategy ----------------------------
(***************************************************************************)
(* Which back end a register gets (storage/factory and core/state_space.h) *)
(* and how many states it counts.  The machine's integers have CONSTANT    *)
(* widths, so that their edges can be met with few qubits.  An unsigned    *)
(* count of states is narrower than the index of a state: 2^32 of them     *)
(* count as none.                                                          *)
(***************************************************************************)
EXTENDS Naturals

CONSTANTS
  IndexBits,      \* of a StateIndex and of size_t
  CountBits,      \* of unsigned int, the back ends' numStates_
  DoubleBytes,    \* sizeof(double)
  AutoThreshold   \* autoThresholdBytes

ASSUME WidthsAssumption ==
  /\ IndexBits \in Nat \ {0} /\ CountBits \in 1..IndexBits
  /\ DoubleBytes \in Nat \ {0} /\ AutoThreshold \in Nat

\* Powers of two multiply.
ASSUME PowersAssumption ==
  /\ 2^1 = 2 /\ \A n \in 0..IndexBits : 2^n \in Nat \ {0}
  /\ \A m, n \in 0..IndexBits : m + n <= IndexBits => 2^(m + n) = 2^m * 2^n

\* checkedStateCount throws for more qubits.
Supported(qubits) == qubits <= IndexBits - 1

\* numStates_ once checkedStateCount is assigned to it.
NumStates(qubits) == 2^qubits % 2^CountBits

\* The bytes of all amplitudes, in size_t.
EstimatedBytes(qubits) == (2^qubits * 2 * DoubleBytes) % 2^IndexBits

\* Slip: the codecs are taken for available.
ResolveUnchecked(request) ==
  CASE request.strategy # "Auto" -> request.strategy
    [] request.strategy = "Auto" /\ EstimatedBytes(request.qubits) < AutoThreshold -> "Dense"
    [] OTHER -> "Blosc"

Resolve(request) ==
  CASE request.strategy # "Auto" -> request.strategy
    [] request.strategy = "Auto" /\ EstimatedBytes(request.qubits) < AutoThreshold -> "Dense"
    [] OTHER -> IF "Blosc" \in request.build THEN "Blosc"
                ELSE IF "Zfp" \in request.build THEN "Zfp" ELSE "Dense"

IsAvailable(strategy, build) == strategy \in {"Dense", "Auto"} \cup build

\* The back end of a selection, or "None" if it throws.
CreateSelection(request) ==
  IF /\ request.strategy = "Auto" => Supported(request.qubits)
     /\ IsAvailable(Resolve(request), request.build)
  THEN Resolve(request) ELSE "None"
===============================================================================
