---------------------------- MODULE MCCodecStorage -----------------------------
(* A small instance of CodecStorage for TLC. *)
EXTENDS CodecStorage, TLC

Parallel == [mode |-> "rate", threads |-> 2, slots |-> 2]
Serial == [mode |-> "precision", threads |-> 1, slots |-> 2]
OneSlot == [mode |-> "precision", threads |-> 1, slots |-> 1]
Settings == {Parallel, Serial, OneSlot}

\* A full chunk is a field of 8 by 8 doubles, a small one has one dimension.
Registers == {0 :> 64 @@ 1 :> 16, 0 :> 16 @@ 1 :> 0}

WorstCase ==
  "rate" :> (64 :> 3 @@ 16 :> 1) @@ "precision" :> (64 :> 4 @@ 16 :> 2)

\* One of the owners, if not all, has the parallel settings.
Configurations ==
  {[o \in Owners |-> Parallel],
   [o \in Owners |-> IF o = CHOOSE p \in Owners : TRUE THEN Parallel ELSE Serial],
   [o \in Owners |-> OneSlot]}

\* Small, large enough for a codec, a count and then a size that do not fit,
\* and too many.
Asked ==
  {asked \in [strategy : {"Auto", "Zfp", "Blosc", "Dense"},
              build : SUBSET {"Blosc", "Zfp"},
              qubits : {1, 3, 4, 7, 8},
              configs : Configurations] :
     asked.strategy # "Auto" => asked.qubits \in {3, 8}}
===============================================================================
