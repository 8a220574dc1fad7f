---------------------------- MODULE PairTraversal -----------------------------
(***************************************************************************)
(* Which amplitude pairs of a target bit are visited, where and in what    *)
(* order (storage/common/pair_kernel_executor.h).  Each of the three       *)
(* traversals is a nest of loops.  It calls its body in the lexicographic  *)
(* order of the loop counters, for the counters its loop bounds and breaks *)
(* admit; each break ends a loop whose later iterations would break too.   *)
(* A call names the two basis states, and for the chunk-aware traversals   *)
(* the chunks and the offsets in them the body uses.                       *)
(***************************************************************************)
EXTENDS ChunkLayout, Sequences

IsPowerOf2(n) == \E k \in 0..n : n = 2^k

\* Slip: a mask of one chunk's width is taken to stay within a chunk.
SelectModeWide(lay, mask) ==
  IF IsPowerOf2(lay.width) /\ mask <= lay.width THEN "IntraChunk" ELSE "Fallback"

SelectMode(lay, mask) ==
  CASE ~IsPowerOf2(lay.width)      -> "Fallback"
    [] IsPowerOf2(lay.width) /\ mask < lay.width -> "IntraChunk"
    [] IsPowerOf2(lay.width) /\ mask >= lay.width /\ mask % lay.width = 0 -> "InterChunk"
    [] OTHER -> "Fallback"

Multiples(stride, bound) == {b \in 0..(bound - 1) : b % stride = 0}

\* Slip: the stride is the mask.
FallbackIterationsDense(lay, mask) == Multiples(mask, lay.states) \X (0..(mask - 1))

\* Counters <<base, offset>>.
FallbackIterations(lay, mask) ==
  Multiples(2 * mask, lay.states) \X (0..(mask - 1))

\* Slip: the outer loop advances by one.
IntraIterationsDense(lay, mask) ==
  {it \in ChunkIndices(lay) \X (0..(lay.width - 1)) \X (0..(mask - 1)) :
     it[2] + it[3] + mask < StatesInChunk(lay, it[1])}

\* Counters <<chunk, base, offset>>.
IntraIterations(lay, mask) ==
  {it \in ChunkIndices(lay) \X (0..(lay.width - 1)) \X (0..(mask - 1)) :
     /\ it[2] \in Multiples(2 * mask, StatesInChunk(lay, it[1]))
     /\ it[2] + it[3] + mask < StatesInChunk(lay, it[1])}

\* Counters <<groupBase, groupOffset, local>>.
InterIterations(lay, mask) ==
  LET delta == mask \div lay.width
  IN {it \in ChunkIndices(lay) \X (0..(delta - 1)) \X (0..(lay.width - 1)) :
        /\ it[1] \in Multiples(2 * delta, ChunkCount(lay))
        /\ it[1] + it[2] + delta < ChunkCount(lay)
        /\ it[3] < StatesInChunk(lay, it[1] + it[2])
        /\ it[3] < StatesInChunk(lay, it[1] + it[2] + delta)}

Iterations(mode, lay, mask) ==
  CASE mode = "Fallback"   -> FallbackIterations(lay, mask)
    [] mode = "IntraChunk" -> IntraIterations(lay, mask)
    [] mode = "InterChunk" -> InterIterations(lay, mask)

\* Slip: the innermost loop is the outermost.
EarlierInnermost(p, q) ==
  \E i \in 1..Len(p) : p[i] < q[i] /\ \A j \in (i + 1)..Len(p) : p[j] = q[j]

Earlier(p, q) ==
  \E i \in 1..Len(p) : p[i] < q[i] /\ \A j \in 1..(i - 1) : p[j] = q[j]

Earliest(S) == CHOOSE p \in S : \A q \in S \ {p} : Earlier(p, q)

\* The body's arguments in one iteration.  The fallback body finds the chunks
\* of its states itself, by stateRef.
Call(mode, lay, mask, it) ==
  CASE mode = "Fallback" ->
         LET s0 == it[1] + it[2]
         IN [state0 |-> s0, state1 |-> s0 + mask,
             ref0 |-> StateRef(lay, s0), ref1 |-> StateRef(lay, s0 + mask)]
    [] mode = "IntraChunk" ->
         LET local0 == it[2] + it[3]
             begin == ChunkStateBegin(lay, it[1])
         IN [state0 |-> begin + local0, state1 |-> begin + local0 + mask,
             ref0 |-> [chunk |-> it[1], local |-> local0],
             ref1 |-> [chunk |-> it[1], local |-> local0 + mask]]
    [] mode = "InterChunk" ->
         LET chunk0 == it[1] + it[2]
             chunk1 == chunk0 + mask \div lay.width
         IN [state0 |-> ChunkStateBegin(lay, chunk0) + it[3],
             state1 |-> ChunkStateBegin(lay, chunk1) + it[3],
             ref0 |-> [chunk |-> chunk0, local |-> it[3]],
             ref1 |-> [chunk |-> chunk1, local |-> it[3]]]
===============================================================================
