------------------------------ MODULE CodedChunks ------------------------------
(***************************************************************************)
(* What the compressed back ends take for granted of the chunks they keep  *)
(* encoded: each yields what was last stored in it since the storage was   *)
(* last emptied, a call that throws changes nothing, save that an          *)
(* assignment that throws may leave its target empty, and a copy holds     *)
(* what its original held.  An owner is whatever keeps its chunks in a     *)
(* codec.                                                                  *)
(***************************************************************************)
CONSTANTS
  Owners,
  Chunks,
  Data,     \* the amplitudes a chunk can hold
  Nothing   \* a chunk that was not stored

VARIABLES
  held,     \* held[o][c]: what loading chunk c of owner o yields
  answer    \* what the last call came to, or that it is not over

codedVars == <<held, answer>>

Pending == [outcome |-> "pending"]
Done == [outcome |-> "done"]
Threw == [outcome |-> "threw"]
Loaded(o, c, d) == [outcome |-> "loaded", owner |-> o, chunk |-> c, data |-> d]

Empty == [c \in Chunks |-> Nothing]

Init ==
  /\ held = [o \in Owners |-> Empty]
  /\ answer = Done

Begin ==
  /\ answer' = Pending
  /\ UNCHANGED held

Store(o, c, d) ==
  /\ answer' = Done
  /\ held' = [held EXCEPT ![o][c] = d]

Load(o, c) ==
  /\ held[o][c] # Nothing
  /\ answer' = Loaded(o, c, held[o][c])
  /\ UNCHANGED held

Clear(o) ==
  /\ held' = [held EXCEPT ![o] = Empty]
  /\ answer' = Done

Copy(o, p) ==
  /\ held' = [held EXCEPT ![o] = held[p]]
  /\ answer' = Done

Throw ==
  /\ answer' = Threw
  /\ UNCHANGED held

\* An assignment to o that threw half way.
Abandon(o) ==
  /\ answer' = Threw
  /\ held' = [held EXCEPT ![o] = Empty]

Next ==
  \/ \E o \in Owners, c \in Chunks : Load(o, c) \/ \E d \in Data : Store(o, c, d)
  \/ \E o \in Owners : Clear(o) \/ Abandon(o) \/ \E p \in Owners : Copy(o, p)
  \/ Begin \/ Throw

Spec == Init /\ [][Next]_codedVars
===============================================================================
