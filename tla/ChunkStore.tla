------------------------------ MODULE ChunkStore ------------------------------
(***************************************************************************)
(* What the chunk cache of the compressed back ends promises its clients:  *)
(* a memory of chunks.  A chunk holds the value last written to it, except *)
(* that the codec may round that value, once per write, whenever the cache *)
(* decides to store it.  Nothing else ever changes a chunk.                *)
(***************************************************************************)
CONSTANTS
  Chunks,  \* the chunks of the state vector
  Data,    \* the values a decompressed chunk can take
  Zero,    \* the all-zero chunk
  Codec    \* Codec[d]: what decompressing a compressed d yields

VARIABLES
  mem,     \* mem[c]: what a reader of chunk c sees
  fresh    \* the chunks written since the codec last rounded them

storeVars == <<mem, fresh>>

Init ==
  /\ mem = [c \in Chunks |-> Codec[Zero]]
  /\ fresh = {}

\* A value the codec keeps as it is need not count as fresh.
Write(c, d) ==
  /\ mem' = [mem EXCEPT ![c] = d]
  /\ fresh' \in {fresh \cup {c}, fresh \ {c}}

Settle(S) ==
  /\ mem' = [c \in Chunks |-> IF c \in S THEN Codec[mem[c]] ELSE mem[c]]
  /\ fresh' = fresh \ S

Reset(data) ==
  /\ mem' = [c \in Chunks |-> Codec[data[c]]]
  /\ fresh' = {}

Next ==
  \/ \E c \in Chunks, d \in Data : Write(c, d)
  \/ \E S \in SUBSET fresh : Settle(S)
  \/ \E data \in [Chunks -> Data] : Reset(data)

Spec == Init /\ [][Next]_storeVars
===============================================================================
