---------------------------- MODULE QuantumRegister ---------------------------
(***************************************************************************)
(* The register (register/quantum_register.cpp) over a storage back end.   *)
(* Inversions about the mean are not carried out: the register keeps an    *)
(* affine overlay, logical = scale * stored + bias, and stores it through  *)
(* the back end when a gate needs the stored vector.  It also caches the   *)
(* sum of the logical amplitudes and updates it where that is cheap.  The  *)
(* back end is the state vector it promises to be; a call to it may throw, *)
(* having changed a part of the vector.  A read that throws ends an        *)
(* operation before it changed anything and is left out.                   *)
(***************************************************************************)
EXTENDS Gates

CONSTANTS
  NumQubits,
  Operations,     \* the operations clients call
  Initial,        \* the vectors a behaviour starts from
  MaxOperations,  \* bound on the calls of a behaviour
  MayThrow        \* a back end call may throw half way

VARIABLES
  stored,         \* the back end's vector
  affineScale, affineBias, affineOverlayActive,
  cachedSum,      \* cachedLogicalAmplitudeSum_, NoSum for nullopt
  request,        \* the operation the client called, or NoRequest
  outcome,        \* how the last call ended: "returned" or "threw"
  thrown,         \* a call threw since the sum was last forgotten
  left            \* calls left to the client

overlayVars == <<affineScale, affineBias, affineOverlayActive>>
vars == <<stored, overlayVars, cachedSum, request, outcome, thrown, left>>

Backend == INSTANCE StateVector WITH psi <- stored

States == 0..(2^NumQubits - 1)
NumStates == 2^NumQubits
NoSum == -1
NoRequest == [name |-> "None"]

-------------------------------------------------------------------------------
(* What the register's checks let through; what they refuse is thrown at   *)
(* the client before anything changed, and left out.                       *)

Qubits == 0..(NumQubits - 1)
QubitLists(k) == Injection(1..k, Qubits)

\* A gate comes with a matrix of the dimension of its list of qubits.
WellFormed(o) ==
  \/ o \in [name : {"H", "X"}, qubits : QubitLists(1)]
  \/ o \in [name : {"CNOT", "Swap"}, qubits : QubitLists(2)]
  \/ o \in [name : {"CP"}, qubits : QubitLists(2), phase : Amplitude]
  \/ \E k \in 0..NumQubits :
       o \in [name : {"Gate"}, qubits : QubitLists(k),
             matrix : [Rows(2^k) -> [Rows(2^k) -> Amplitude]]]
  \/ o \in [name : {"PhaseFlip"}, state : States]
  \/ o \in [name : {"SetAmplitude"}, state : States, value : Amplitude]
  \/ o \in [name : {"Inversion"}, materialized : BOOLEAN]
  \/ o \in [name : {"InversionMean"}, mean : Amplitude, materialized : BOOLEAN]
  \/ o \in [name : {"Load"}, vector : [States -> Amplitude]]

ASSUME OperationsAssumption == \A o \in Operations : WellFormed(o)
ASSUME InitialAssumption == Initial \subseteq [States -> Amplitude]
ASSUME BoundsAssumption == MaxOperations \in Nat

\* Doubling powers of two, and the inverse of one.
ASSUME PowersAssumption ==
  /\ NumQubits \in Nat /\ InversePower2(NumQubits) \in Amplitude
  /\ 2^0 = 1 /\ \A n \in 0..NumQubits : 2^(n + 1) = 2 * 2^n

-------------------------------------------------------------------------------
(* The overlay and the sum.                                                *)

ApplyAffineOverlay(a) ==
  IF affineOverlayActive THEN Plus(Times(affineScale, a), affineBias) ELSE a

Quotient(a, b) == CHOOSE c \in Amplitude : Times(b, c) = a

\* Slip: a logical amplitude is stored as it is.
RemoveNothing(a) == a

RemoveAffineOverlay(a) ==
  IF affineOverlayActive THEN Quotient(Minus(a, affineBias), affineScale) ELSE a

\* visitLogicalAmplitudeChunks: what the register's readers see.
Logical == [s \in States |-> ApplyAffineOverlay(stored[s])]

LogicalAmplitudeSum ==
  IF cachedSum # NoSum THEN cachedSum ELSE Total(Logical)

ResetAffineOverlay ==
  /\ affineScale' = 1
  /\ affineBias' = 0
  /\ affineOverlayActive' = FALSE

AffineTransform == [name |-> "Affine", scale |-> affineScale, bias |-> affineBias]

\* The stored vector once flushAffineOverlay is through.
Materialized ==
  IF affineOverlayActive THEN Backend!Result(AffineTransform, stored) ELSE stored

\* The vectors a back end call can leave behind when it throws.
Torn(o, v) ==
  LET result == Backend!Result(o, v)
  IN {[s \in States |-> IF s \in done THEN result[s] ELSE v[s]] :
        done \in {D \in SUBSET States : \A s \in D : Backend!Partner(o, s) \in D}}

\* The register's sum becomes sum in a call that throws, or does not.
SumAfter(sum, throws) ==
  /\ cachedSum' = sum
  /\ outcome' = IF throws THEN "threw" ELSE "returned"
  /\ thrown' = IF sum = NoSum THEN FALSE ELSE thrown \/ throws

\* A back end call returns, or throws half way.
Returns(o, v) == stored' = Backend!Result(o, v)
Throws(o, v) == MayThrow /\ stored' \in Torn(o, v)

\* flushAffineOverlay throws: the overlay stays.
FlushThrows ==
  /\ affineOverlayActive
  /\ Throws(AffineTransform, stored)
  /\ UNCHANGED overlayVars

-------------------------------------------------------------------------------
(* Operations.                                                             *)

Start(o) ==
  /\ request = NoRequest
  /\ request' = o
  /\ left > 0
  /\ left' = left - 1
  /\ UNCHANGED <<stored, overlayVars, cachedSum, outcome, thrown>>

\* The operation called is one of those named, and is over.
Over(names) ==
  /\ request.name \in names
  /\ request' = NoRequest
  /\ left' = left

\* Every gate stores the overlay first and forgets the sum last.
ApplyGate ==
  /\ Over({"H", "X", "CP", "CNOT", "Gate"})
  /\ \/ /\ Returns(request, Materialized)
        /\ ResetAffineOverlay
        /\ SumAfter(NoSum, FALSE)
     \/ FlushThrows /\ SumAfter(cachedSum, TRUE)
     \/ /\ Throws(request, Materialized)
        /\ ResetAffineOverlay
        /\ SumAfter(cachedSum, TRUE)

\* Three controlled nots; those after the first find no overlay and no sum.
ApplySwap ==
  /\ Over({"Swap"})
  /\ LET there == [name |-> "CNOT", qubits |-> request.qubits]
         back == [name |-> "CNOT", qubits |-> <<request.qubits[2], request.qubits[1]>>]
         one == Backend!Result(there, Materialized)
         two == Backend!Result(back, one)
     IN \/ FlushThrows /\ SumAfter(cachedSum, TRUE)
        \/ /\ Throws(there, Materialized)
           /\ ResetAffineOverlay
           /\ SumAfter(cachedSum, TRUE)
        \/ /\ Throws(back, one) \/ Throws(there, two)
           /\ ResetAffineOverlay
           /\ SumAfter(NoSum, TRUE)
        \/ /\ Returns(there, two)
           /\ ResetAffineOverlay
           /\ SumAfter(NoSum, FALSE)

\* The sum is adjusted before the back end is called.
ApplyPhaseFlipBasisState ==
  /\ Over({"PhaseFlip"})
  /\ LET logical == Logical[request.state]
         call == IF affineOverlayActive
                 THEN [name |-> "SetAmplitude", state |-> request.state,
                       value |-> RemoveAffineOverlay(Minus(0, logical))]
                 ELSE request
         sum == IF cachedSum = NoSum THEN NoSum ELSE Minus(cachedSum, 2 * logical)
     IN \/ Returns(call, stored) /\ SumAfter(sum, FALSE)
        \/ Throws(call, stored) /\ SumAfter(sum, TRUE)
  /\ UNCHANGED overlayVars

\* Slip: the sum is not forgotten.
SetAmplitudeKeepingSum ==
  /\ Over({"SetAmplitude"})
  /\ LET call == [request EXCEPT !.value = RemoveAffineOverlay(@)]
     IN Returns(call, stored) /\ SumAfter(cachedSum, FALSE)
  /\ UNCHANGED overlayVars

SetAmplitude ==
  /\ Over({"SetAmplitude"})
  /\ LET call == [request EXCEPT !.value = RemoveAffineOverlay(@)]
     IN \/ Returns(call, stored) /\ SumAfter(NoSum, FALSE)
        \/ Throws(call, stored) /\ SumAfter(cachedSum, TRUE)
  /\ UNCHANGED overlayVars

\* The sum of the vector after an inversion about mean.
InvertedSum(sum, mean) ==
  IF sum = NoSum THEN NoSum ELSE Minus(2 * Times(mean, NumStates), sum)

\* Slip: the scale is complemented, not negated.
InvertComplementing(sum, mean) ==
  /\ SumAfter(InvertedSum(sum, mean), FALSE)
  /\ affineScale' = Minus(1, IF affineOverlayActive THEN affineScale ELSE 1)
  /\ affineBias' = Minus(2 * mean, IF affineOverlayActive THEN affineBias ELSE 0)
  /\ affineOverlayActive' = TRUE
  /\ UNCHANGED stored

Invert(sum, mean) ==
  /\ SumAfter(InvertedSum(sum, mean), FALSE)
  /\ affineScale' = Minus(0, IF affineOverlayActive THEN affineScale ELSE 1)
  /\ affineBias' = Minus(2 * mean, IF affineOverlayActive THEN affineBias ELSE 0)
  /\ affineOverlayActive' = TRUE
  /\ UNCHANGED stored

InvertMaterialized(sum, mean) ==
  LET call == [name |-> "InversionMean", mean |-> mean]
  IN \/ /\ Returns(call, Materialized)
        /\ ResetAffineOverlay
        /\ SumAfter(InvertedSum(sum, mean), FALSE)
     \/ FlushThrows /\ SumAfter(InvertedSum(sum, mean), TRUE)
     \/ /\ Throws(call, Materialized)
        /\ ResetAffineOverlay
        /\ SumAfter(InvertedSum(sum, mean), TRUE)

\* The two forms that compute the mean cache the sum they compute it from.
ApplyInversionAboutMean ==
  /\ Over({"Inversion", "InversionMean"})
  /\ LET sum == LogicalAmplitudeSum
         mean == Times(sum, InversePower2(NumQubits))
     IN \/ /\ request.name = "Inversion"
           /\ IF request.materialized THEN InvertMaterialized(sum, mean)
              ELSE Invert(sum, mean)
        \/ /\ request.name = "InversionMean"
           /\ IF request.materialized THEN InvertMaterialized(cachedSum, request.mean)
              ELSE Invert(cachedSum, request.mean)

\* loadAmplitudes and initUniformSuperposition.
LoadAmplitudes ==
  /\ Over({"Load"})
  /\ ResetAffineOverlay
  /\ SumAfter(NoSum, FALSE)
  /\ stored' = request.vector

-------------------------------------------------------------------------------
Init ==
  /\ stored \in Initial
  /\ affineScale = 1 /\ affineBias = 0 /\ affineOverlayActive = FALSE
  /\ cachedSum = NoSum /\ outcome = "returned" /\ thrown = FALSE
  /\ request = NoRequest
  /\ left = MaxOperations

Next ==
  \/ \E o \in Operations : Start(o)
  \/ ApplyGate
  \/ ApplySwap
  \/ ApplyPhaseFlipBasisState
  \/ SetAmplitude
  \/ ApplyInversionAboutMean
  \/ LoadAmplitudes

Spec == Init /\ [][Next]_vars

-------------------------------------------------------------------------------
(* Type invariant; the scale stays 1 or -1, so that dividing by it, which  *)
(* throws for 0, never does.                                               *)
TypeOK ==
  /\ stored \in [States -> Amplitude]
  /\ affineScale \in {1, Minus(0, 1)}
  /\ affineBias \in Amplitude
  /\ affineOverlayActive \in BOOLEAN
  /\ cachedSum \in Amplitude \cup {NoSum}
  /\ request \in Operations \cup {NoRequest}
  /\ outcome \in {"returned", "threw"}
  /\ thrown \in BOOLEAN
  /\ left \in 0..MaxOperations

(* The cached sum is the sum of the logical amplitudes ("Computes the sum  *)
(* of all logical amplitudes"), whatever was done to the vector since it   *)
(* was computed: the next inversion takes its mean from it.                *)
CachedSumIsSum ==
  cachedSum # NoSum => cachedSum = Total(Logical)

(* A sum gone stale when a back end call threw does no harm after a gate   *)
(* or an amplitude update that returned: it is forgotten there, and a      *)
(* later one is computed from the vector as it is.                         *)
SumRecovers == ~thrown => CachedSumIsSum

Promise == INSTANCE StateVector WITH psi <- Logical, MayThrow <- FALSE

(* Overlay or not, the register is a state vector: a call that returns has *)
(* done to what readers see what its matrix does to the whole vector, and  *)
(* between calls nothing changes.  What a call that throws half way leaves *)
(* is for its client to judge; later calls act on it as it is, once the    *)
(* sum from before it is forgotten.                                        *)
ImplementsStateVector ==
  /\ Promise!Init
  /\ [][Promise!Next \/ outcome' = "threw" \/ thrown]_<<Logical, request>>
===============================================================================
