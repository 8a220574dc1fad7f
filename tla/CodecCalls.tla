------------------------------ MODULE CodecCalls -------------------------------
(***************************************************************************)
(* What the two codecs have in common: an owner has one call of its codec  *)
(* carried out at a time, stage by stage; a call of compress replaces the  *)
(* bytes of a chunk when all of it succeeded, and a call that throws       *)
(* replaces none (storage/common/compressed_state_backend.h, loadChunk and *)
(* storeChunk).                                                            *)
(***************************************************************************)
EXTENDS Integers

CONSTANTS
  Owners,   \* the back ends, each with a codec and its chunks
  Chunks,
  Data,     \* the amplitudes of a chunk
  NoBytes,  \* an empty byte vector
  Configs   \* configurations: the mode and its parameters, threads, cache slots

VARIABLES
  codec,   \* codec[o]: what the codec of o keeps between calls
  bytes,   \* bytes[o][c]: the compressed bytes of a chunk
  call,    \* the call being carried out, or NoCall
  answer   \* what the last call came to

codecVars == <<codec, bytes, call, answer>>

Pending == [outcome |-> "pending"]
Done == [outcome |-> "done"]
Threw == [outcome |-> "threw"]
Loaded(o, c, d) == [outcome |-> "loaded", owner |-> o, chunk |-> c, data |-> d]
NoCall == [name |-> "none"]
Directions == {"compress", "decompress"}

ValidateConfig(cfg) == cfg.threads >= 1 /\ cfg.slots >= 2

NoChunkStored == [c \in Chunks |-> NoBytes]

Keeps == codec[call.owner]
Change(k) == codec' = [codec EXCEPT ![call.owner] = k]

At(stage) == call # NoCall /\ call.stage = stage

Proceed(stage) ==
  /\ call' = [call EXCEPT !.stage = stage]
  /\ UNCHANGED <<bytes, answer>>

Throw ==
  /\ call' = NoCall
  /\ answer' = Threw
  /\ UNCHANGED bytes

StoreBytes(b) ==
  /\ call' = NoCall
  /\ answer' = Done
  /\ bytes' = [bytes EXCEPT ![call.owner][call.chunk] = b]

Answer(d) ==
  /\ call' = NoCall
  /\ answer' = Loaded(call.owner, call.chunk, d)
  /\ UNCHANGED bytes

\* Called for chunk c of n doubles; d is what a compress encodes.
Start(name, o, c, n, d) ==
  /\ call = NoCall
  /\ codec' = codec
  /\ IF name = "decompress" /\ bytes[o][c] = NoBytes THEN Throw
     ELSE /\ call' = [name |-> name, owner |-> o, chunk |-> c, elems |-> n, data |-> d,
                     stage |-> "begin"]
          /\ answer' = Pending
          /\ UNCHANGED bytes

\* Slip: the bytes are kept until they are replaced.
ForgetNothing(o) ==
  /\ call = NoCall
  /\ answer' = Done
  /\ UNCHANGED <<codec, bytes, call>>

\* configureStorage forgets the bytes of every chunk.
Forget(o) ==
  /\ call = NoCall
  /\ bytes' = [bytes EXCEPT ![o] = NoChunkStored]
  /\ answer' = Done
  /\ UNCHANGED <<codec, call>>
===============================================================================
