----------------------------- MODULE CodecStorage ------------------------------
(***************************************************************************)
(* Back ends that keep their chunks in a codec: how a register comes by    *)
(* one (storage/factory), and what it does with its codec                  *)
(* (storage/common/compressed_state_backend.h): initialise the chunks one  *)
(* by one, store one when the cache gives it up, load one for a reader,    *)
(* be copied and assigned.  Any library call may fail at any time, and the *)
(* client goes on after a call that threw.  A client of the BloscCodec     *)
(* class may keep its chunks in the super-chunk instead.                   *)
(***************************************************************************)
EXTENDS StorageStrategy, Integers, Sequences

CONSTANTS
  Owners, Chunks, Data, NoBytes, Garbled, MaximumSize, Configs,
  Requests,   \* back ends clients ask for: qubits, strategy, build and configs
  Initial,    \* the amplitudes chunks are initialised with
  Layouts,    \* doubles in each chunk of a register, 0 for none
  MaxCalls,   \* bound on the calls of back ends' clients
  MaxSuperChunkCalls   \* and of clients of the super-chunk

ASSUME ConfigsAssumption ==
  /\ \A cfg \in Configs : cfg.threads \in Int /\ cfg.slots \in Nat
  /\ \A asked \in Requests :
       /\ asked.qubits \in Nat
       /\ asked.strategy \in {"Auto", "Dense", "Blosc", "Zfp"}
       /\ asked.build \subseteq {"Blosc", "Zfp"}
       /\ asked.configs \in [Owners -> Configs]

\* The first chunk of a register is never empty, and the library has a bound
\* on the bytes of any chunk.
ASSUME LayoutsAssumption ==
  /\ Layouts \subseteq [Chunks -> Nat]
  /\ \A layout \in Layouts :
       /\ layout[0] > 0
       /\ \A c \in Chunks, cfg \in Configs :
            layout[c] > 0 => MaximumSize[cfg.mode][layout[c]] \in Nat

\* Chunks are numbered from 0.
ASSUME ChunksAssumption ==
  Chunks \subseteq Nat /\ 0 \in Chunks /\ \A c \in Chunks : c = 0 \/ c - 1 \in Chunks

ASSUME BoundAssumption == MaxCalls \in Nat /\ MaxSuperChunkCalls \in Nat

VARIABLES
  request,    \* the back ends asked for, NoRequest once they are made
  strategy,   \* what keeps the chunks
  numStates,  \* numStates_
  codec, bytes, call, answer,   \* of the codecs, see CodecCalls
  elemCount,  \* elemCount[o][c]: doubles in chunk c of back end o
  filling,    \* the initialisation being carried out, or NotFilling
  left        \* calls left to the client

Zfp == INSTANCE ZfpCodec
Blosc == INSTANCE BloscCodec

\* An empty vector is neither amplitudes nor encoded ones.
ASSUME DataAssumption ==
  /\ Initial \subseteq Data
  /\ NoBytes \notin Data
  /\ \A d \in Data :
       /\ NoBytes # [data |-> d]
       /\ \A stream \in Zfp!Stream : NoBytes # [data |-> d, stream |-> stream]

codecVars == <<codec, bytes, call, answer>>
vars == <<request, strategy, numStates, codecVars, elemCount, filling, left>>

NoRequest == [strategy |-> "None"]
NotFilling == [owner |-> "None"]
Idle == call = Zfp!NoCall /\ filling = NotFilling
SuperChunks == strategy = "SuperChunk"

-------------------------------------------------------------------------------
(* Construction.                                                           *)

Constructed(kind, cfg) ==
  IF kind = "Zfp" THEN Zfp!Constructed(cfg) ELSE Blosc!Constructed(cfg)

\* The back ends are made, one of each configuration, or refused.
Create ==
  /\ request # NoRequest
  /\ request' = NoRequest
  /\ LET kind == CreateSelection(request)
         refused ==
           \/ ~Supported(request.qubits)
           \/ /\ kind \in {"Zfp", "Blosc"}
              /\ \E o \in Owners : ~Zfp!ValidateConfig(request.configs[o])
     IN IF refused THEN UNCHANGED <<strategy, numStates, codec>>
        ELSE /\ strategy' = kind
             /\ numStates' = NumStates(request.qubits)
             /\ codec' = [o \in Owners |-> Constructed(kind, request.configs[o])]
  /\ UNCHANGED <<bytes, call, answer, elemCount, filling, left>>

-------------------------------------------------------------------------------
(* The back end's use of its codec.                                        *)

Compressed == strategy \in {"Zfp", "Blosc"}
HasChunks(o) == {c \in Chunks : elemCount[o][c] > 0}

\* A back end of no states is not initialised, and refuses every call.
ClientCalls ==
  /\ request = NoRequest
  /\ Compressed => numStates > 0
  /\ Idle
  /\ left > 0
  /\ left' = left - 1
  /\ UNCHANGED <<request, strategy, numStates>>

StartCall(name, o, c, d) ==
  IF strategy = "Zfp" THEN Zfp!Start(name, o, c, elemCount[o][c], d)
  ELSE Blosc!Start(name, o, c, elemCount[o][c], d)

\* configureStorage empties the chunks.
Initialise(o, d, layout) ==
  /\ Compressed
  /\ ClientCalls
  /\ Zfp!Forget(o)
  /\ elemCount' = [elemCount EXCEPT ![o] = layout]
  /\ filling' = [owner |-> o, chunk |-> 0, data |-> d]

\* initZero and its like store the chunks in order.
FillNext ==
  /\ filling # NotFilling
  /\ StartCall("compress", filling.owner, filling.chunk, filling.data)
  /\ filling' = IF filling.chunk + 1 \in HasChunks(filling.owner)
                THEN [filling EXCEPT !.chunk = @ + 1] ELSE NotFilling
  /\ UNCHANGED <<request, strategy, numStates, elemCount, left>>

StoreChunk(o, c, d) ==
  /\ Compressed
  /\ ClientCalls
  /\ bytes[o][c] # NoBytes
  /\ StartCall("compress", o, c, d)
  /\ UNCHANGED <<elemCount, filling>>

LoadChunk(o, c) ==
  /\ Compressed
  /\ ClientCalls
  /\ c \in HasChunks(o)
  /\ StartCall("decompress", o, c, NoBytes)
  /\ UNCHANGED <<elemCount, filling>>

\* A call that throws ends the initialisation it is part of.
CodecStep ==
  /\ IF strategy = "Zfp" THEN Zfp!Step ELSE Blosc!Step
  /\ filling' = IF call' = Zfp!NoCall /\ answer' = Zfp!Threw THEN NotFilling ELSE filling
  /\ UNCHANGED <<request, strategy, numStates, elemCount, left>>

CopyStorage(o, p) ==
  /\ o # p
  /\ Compressed \/ SuperChunks
  /\ ClientCalls
  /\ IF strategy = "Zfp" THEN Zfp!Copy(o, p)
     ELSE Blosc!Assign(o, p) \/ Blosc!CopyConstruct(o, p)
  /\ elemCount' = [elemCount EXCEPT ![o] = elemCount[p]]
  /\ UNCHANGED filling

\* A client of the super-chunk has at most one chunk for each index.
SuperChunkCall(o) ==
  /\ SuperChunks
  /\ ClientCalls
  /\ \/ Blosc!ResetStorage(o)
     \/ \E d \in Data : /\ Len(Blosc!SuperChunk(o).chunks) \in Chunks
                        /\ Blosc!AppendChunk(o, d)
     \/ \E c \in Chunks : Blosc!ReadChunk(o, c) \/ \E d \in Data : Blosc!WriteChunk(o, c, d)
  /\ UNCHANGED <<elemCount, filling>>

-------------------------------------------------------------------------------
Init ==
  /\ \E asked \in Requests :
       /\ codec = [o \in Owners |-> Blosc!Constructed(asked.configs[o])]
       /\ \/ request = asked /\ strategy = "None" /\ left = MaxCalls
          \/ /\ \A o \in Owners : Zfp!ValidateConfig(asked.configs[o])
             /\ request = NoRequest /\ strategy = "SuperChunk" /\ left = MaxSuperChunkCalls
  /\ numStates = 0
  /\ bytes = [o \in Owners |-> Zfp!NoChunkStored]
  /\ call = Zfp!NoCall
  /\ answer = Zfp!Done
  /\ elemCount = [o \in Owners |-> [c \in Chunks |-> 0]]
  /\ filling = NotFilling

Step == FillNext \/ CodecStep

Next ==
  \/ Create
  \/ \E o \in Owners :
       \/ \E d \in Initial, layout \in Layouts : Initialise(o, d, layout)
       \/ \E d \in Data, c \in Chunks : StoreChunk(o, c, d)
       \/ \E c \in Chunks : LoadChunk(o, c)
       \/ \E p \in Owners : CopyStorage(o, p)
       \/ SuperChunkCall(o)
  \/ Step

Spec == Init /\ [][Next]_vars /\ WF_vars(Step)

-------------------------------------------------------------------------------
(* Type invariant. *)
TypeOK ==
  /\ request \in Requests \cup {NoRequest}
  /\ strategy \in {"None", "Dense", "Blosc", "Zfp", "SuperChunk"}
  /\ strategy = "Zfp" => codec \in [Owners -> Zfp!Codec]
  /\ strategy \in {"Blosc", "SuperChunk"} => codec \in [Owners -> Blosc!Codec]
  /\ elemCount \in [Owners -> Layouts \cup {[c \in Chunks |-> 0]}]
  /\ \A o \in Owners, c \in Chunks : bytes[o][c] # NoBytes => c \in HasChunks(o)
  /\ call # Zfp!NoCall =>
       /\ call.name \in Zfp!Directions
       /\ call.elems = elemCount[call.owner][call.chunk]
       /\ call.elems > 0
  /\ left \in 0..(IF SuperChunks THEN MaxSuperChunkCalls ELSE MaxCalls)

(* Whenever ZFP compresses or decompresses, it does so with the parameters *)
(* of the codec's own configuration, in the shape of the chunk at hand,    *)
(* into a buffer that is still there and large enough: although streams,   *)
(* bitstreams and buffers outlive calls that throw, grow, are dropped by a *)
(* retry and are left behind by copies.                                    *)
StreamsFit == strategy = "Zfp" => Zfp!StreamsFit

(* Blosc runs with contexts of the codec's own configuration, although     *)
(* contexts outlive the call that made them and a codec may be assigned    *)
(* another's configuration.  The one exception is writing to a super-chunk *)
(* after an assignment that threw before it dropped the contexts: the      *)
(* codec has the new configuration then, and its context may be of one it  *)
(* had before (operator= and resetStorage), but of no other.               *)
ContextsFit == strategy # "Zfp" => Blosc!ContextsFit

Held ==
  [o \in Owners |->
     [c \in Chunks |->
        IF SuperChunks
        THEN LET list == Blosc!SuperChunk(o).chunks
             IN IF c < Len(list) THEN list[c + 1] ELSE NoBytes
        ELSE IF bytes[o][c] = NoBytes THEN NoBytes ELSE bytes[o][c].data]]

Promise == INSTANCE CodedChunks WITH held <- Held, Nothing <- NoBytes

\* What a call on the super-chunk of o is to its client.
SuperChunkKeepsPromise(o) ==
  \/ Blosc!ResetStorage(o) /\ Promise!Clear(o)
  \/ \E d \in Data :
       Blosc!AppendChunk(o, d) /\ Promise!Store(o, Len(Blosc!SuperChunk(o).chunks), d)
  \/ \E c \in Chunks : Blosc!ReadChunk(o, c) /\ Promise!Load(o, c)
  \/ \E c \in Chunks, d \in Data : Blosc!WriteChunk(o, c, d) /\ Promise!Store(o, c, d)
  \/ Promise!Throw

\* What each step is to the clients of the codecs.
StepsKeepPromise ==
  \/ Create /\ UNCHANGED <<Held, answer>>
  \/ FillNext /\ Promise!Begin
  \/ /\ CodecStep
     /\ \/ UNCHANGED <<Held, answer>>
        \/ call.name = "compress" /\ Promise!Store(call.owner, call.chunk, call.data)
        \/ call.name = "decompress" /\ Promise!Load(call.owner, call.chunk)
        \/ Promise!Throw
  \/ \E o \in Owners :
       \/ \E d \in Initial, layout \in Layouts : Initialise(o, d, layout) /\ Promise!Clear(o)
       \/ \E d \in Data, c \in Chunks : StoreChunk(o, c, d) /\ Promise!Begin
       \/ \E c \in Chunks : LoadChunk(o, c) /\ (Promise!Begin \/ Promise!Throw)
       \/ \E p \in Owners :
            /\ CopyStorage(o, p)
            /\ \/ Promise!Copy(o, p)
               \/ SuperChunks /\ Promise!Throw
               \/ SuperChunks /\ Blosc!Assign(o, p) /\ Promise!Abandon(o)
       \/ SuperChunkCall(o) /\ SuperChunkKeepsPromise(o)

(* Both codecs, and the super-chunk, keep the chunks as the back ends take *)
(* for granted, whichever library call fails: a load yields what was       *)
(* stored in that chunk since the last initialisation, or throws; a store  *)
(* changes the chunk it is for and no other; and a call that throws leaves *)
(* every chunk what it was, save that an assignment to a super-chunk,      *)
(* which drops the half it copied, may leave its target without any.       *)
ImplementsCodedChunks == Promise!Spec /\ [][StepsKeepPromise]_vars

(* A codec call returns or throws, and so does an initialisation, however  *)
(* often parallel runs of the library fail.                                *)
CallsEnd == ~Idle ~> Idle

(* A register asked for under Auto is refused only for its number of       *)
(* qubits or its settings, never for want of a codec; it is kept dense     *)
(* exactly if it is small or there is no codec, unless its size in bytes   *)
(* is beyond size_t; no back end has a cache too small for a pair; and the *)
(* count of states is their number, or 0 if that does not fit in a count.  *)
SelectionFits ==
  [][ LET size == 2^request.qubits * 2 * DoubleBytes
          build == request.build
          valid == \A o \in Owners : Zfp!ValidateConfig(request.configs[o])
      IN request # NoRequest =>
           /\ request.strategy = "Auto" /\ valid /\ request.qubits < IndexBits =>
                /\ strategy' # "None"
                /\ size < 2^IndexBits =>
                     (strategy' = "Dense" <=> size < AutoThreshold \/ build = {})
           /\ strategy' \in {"Zfp", "Blosc"} =>
                strategy' \in build /\ \A o \in Owners : codec'[o].cfg.slots >= 2
           /\ numStates' \in {0, 2^request.qubits}
    ]_request
===============================================================================
