----------------------------- MODULE MCChunkCache -----------------------------
(* Small instances of ChunkCache for TLC. *)
EXTENDS ChunkCache, TLC

\* Nobody copies the back end.
UncopiedSpec == Init /\ [][Operate]_vars

\* Blosc: what is decompressed is what was compressed.
Lossless == [d \in Data |-> d]

\* ZFP: each round trip loses some of the value, and a second round trip
\* loses more.
Lossy == [d \in Data |-> IF d = 0 THEN 0 ELSE d - 1]

\* No operator of ChunkCache tells one chunk from another.
ChunkSymmetry == Permutations(Chunks)
===============================================================================
