----------------------------- MODULE BackendParity ----------------------------
(***************************************************************************)
(* A client that makes the same calls on a compressed and on a dense back  *)
(* end.  "Implementations may use different storage techniques but must    *)
(* preserve identical logical behavior" (storage/i_state_backend.h).  The  *)
(* dense operation is over when it is called; batches are no-ops of the    *)
(* dense back end, and a copy of it is the same array.                     *)
(***************************************************************************)
EXTENDS CompressedBackend

VARIABLE amplitudes   \* the dense back end's array

Dense == INSTANCE DenseBackend WITH DenseInitial <- Initial

parityVars == <<vars, amplitudes>>

ParityInit == Init /\ amplitudes = Vector

\* The calls that change amplitudes are made on both.
StartBoth(o) == Start(o) /\ Dense!Apply(o)

StepCompressed == Step /\ UNCHANGED amplitudes

\* The other calls change no amplitude of the dense back end.
OtherCalls ==
  /\ \/ \E s \in States : Query(s)
     \/ BeginBatch
     \/ EndBatch
     \/ Clone
  /\ UNCHANGED amplitudes

ParityNext ==
  \/ \E o \in Operations : StartBoth(o)
  \/ StepCompressed
  \/ OtherCalls

ParitySpec == ParityInit /\ [][ParityNext]_parityVars

-------------------------------------------------------------------------------
(* Between operations both back ends hold the same vector, by whatever     *)
(* route: the dense array sweeps pairs in the fallback order and sends     *)
(* every matrix through the block engine, the compressed back end picks    *)
(* traversals and recognises gates.  Also after a call that threw.         *)
BackendsAgree == op = Idle => amplitudes = Vector
===============================================================================
