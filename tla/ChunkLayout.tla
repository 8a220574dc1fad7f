----------------------------- MODULE ChunkLayout ------------------------------
(***************************************************************************)
(* How a state vector is cut into chunks (storage/common/chunk_layout.h).  *)
(* A layout is a record [states, width]: the number of basis states and    *)
(* the chunk width in states.  Element counts and offsets, which the code  *)
(* keeps in doubles, are kept in states here: two doubles make a state.    *)
(***************************************************************************)
EXTENDS Naturals

\* The last chunk may be partial.
ChunkCount(layout) == (layout.states + layout.width - 1) \div layout.width

ChunkIndices(layout) == 0..(ChunkCount(layout) - 1)

\* Slip: an element offset is taken for a state.
ChunkElemBegin(layout, chunk) == chunk * layout.width * 2

ChunkStateBegin(layout, chunk) == chunk * layout.width

StatesInChunk(layout, chunk) ==
  LET left == layout.states - ChunkStateBegin(layout, chunk)
  IN IF layout.width < left THEN layout.width ELSE left

\* Where a basis state lives.
StateRef(layout, state) ==
  [chunk |-> state \div layout.width, local |-> state % layout.width]
===============================================================================
