------------------------------ MODULE PairKernel ------------------------------
(***************************************************************************)
(* One traversal of the amplitude pairs of a target bit, call by call.     *)
(***************************************************************************)
EXTENDS PairTraversal, FiniteSets

CONSTANTS
  Layouts,     \* the chunk layouts considered
  Masks(_)     \* Masks(layout): the single-bit target masks below its states

\* A mask is a power of two below the number of states, which is one too:
\* its double divides that number, and any greater chunk width that is a
\* power of two.
ASSUME LayoutsAssumption ==
  \A lay \in Layouts : lay.states \in Nat \ {0} /\ lay.width \in Nat \ {0}
ASSUME MasksAssumption ==
  \A lay \in Layouts : \A mask \in Masks(lay) :
    /\ mask \in Nat \ {0}
    /\ lay.states % (2 * mask) = 0
    /\ IsPowerOf2(lay.width) /\ mask < lay.width => lay.width % (2 * mask) = 0

VARIABLES
  layout,
  targetMask,
  todo,        \* the loop iterations left
  calls        \* the calls of the body so far

kernelVars == <<layout, targetMask, todo, calls>>

Mode == SelectMode(layout, targetMask)

Init ==
  /\ layout \in Layouts
  /\ targetMask \in Masks(layout)
  /\ todo = Iterations(SelectMode(layout, targetMask), layout, targetMask)
  /\ calls = <<>>

\* Slip: the loop does not advance.
CallBodyAgain ==
  /\ todo # {}
  /\ calls' = Append(calls, Call(Mode, layout, targetMask, Earliest(todo)))
  /\ UNCHANGED <<todo, layout, targetMask>>

CallBody ==
  /\ todo # {}
  /\ calls' = Append(calls, Call(Mode, layout, targetMask, Earliest(todo)))
  /\ todo' = todo \ {Earliest(todo)}
  /\ UNCHANGED <<layout, targetMask>>

Done == todo = {} /\ UNCHANGED kernelVars

Next == CallBody \/ Done

Spec == Init /\ [][Next]_kernelVars /\ WF_kernelVars(CallBody)

-------------------------------------------------------------------------------
States == 0..(layout.states - 1)

\* The lower state of every pair that differs in the target bit alone.
LowerStates == {s \in States : (s \div targetMask) % 2 = 0}

(* Type invariant. *)
TypeOK ==
  /\ layout \in Layouts
  /\ targetMask \in Masks(layout)
  /\ todo \subseteq Iterations(Mode, layout, targetMask)
  /\ Len(calls) + Cardinality(todo) = Cardinality(Iterations(Mode, layout, targetMask))

(* Whatever the traversal chosen, a call is for two states that differ in  *)
(* the target bit alone, the lower one first.                              *)
CallsArePairs ==
  \A i \in 1..Len(calls) :
    /\ calls[i].state0 \in LowerStates
    /\ calls[i].state1 = calls[i].state0 + targetMask

(* No pair is visited twice: a gate applied twice to a pair is not the     *)
(* gate.                                                                   *)
NoPairTwice ==
  \A i, j \in 1..Len(calls) : calls[i].state0 = calls[j].state0 => i = j

(* The chunk and offset a traversal computes by itself are those where the *)
(* layout keeps the state, so the body never touches another amplitude or  *)
(* runs past the end of a partial chunk.                                   *)
RefsMatchLayout ==
  \A i \in 1..Len(calls) :
    /\ calls[i].ref0 = StateRef(layout, calls[i].state0)
    /\ calls[i].ref1 = StateRef(layout, calls[i].state1)
    /\ calls[i].ref0.local < StatesInChunk(layout, calls[i].ref0.chunk)
    /\ calls[i].ref1.local < StatesInChunk(layout, calls[i].ref1.chunk)

(* A chunk-aware traversal needs each chunk, or pair of chunks, during one *)
(* stretch of consecutive calls only: the body acquires it once.           *)
ChunksVisitedOnce ==
  Mode # "Fallback" =>
    \A i, j, k \in 1..Len(calls) :
      i < j /\ j < k /\ calls[i].ref0.chunk = calls[k].ref0.chunk
        => calls[j].ref0.chunk = calls[i].ref0.chunk

(* Every traversal ends, having visited every pair.                        *)
EveryPairVisited ==
  <>(todo = {} /\ {calls[i].state0 : i \in 1..Len(calls)} = LowerStates)
===============================================================================
