------------------------------ MODULE BloscCodec -------------------------------
(***************************************************************************)
(* The Blosc codec (storage/blosc/blosc_codec.cpp).  Its contexts are      *)
(* created at the first call that needs them, from the configuration, and  *)
(* used from then on; bytes carry their own parameters.  The class also    *)
(* keeps chunks in a super-chunk, which its clients append to, read and    *)
(* write; the back ends of the repository use compress and decompress      *)
(* only.  Any call into the library may fail; sizes that exceed what the   *)
(* library takes throw at the same places.                                 *)
(***************************************************************************)
EXTENDS CodecCalls, Sequences

\* What contexts are created from.
NoContext == [mode |-> "none", threads |-> 0]
Context(cfg) == [mode |-> cfg.mode, threads |-> cfg.threads]
NoContexts == [name \in Directions |-> NoContext]

NoSuperChunk == [open |-> FALSE, chunks |-> <<>>]
OpenSuperChunk(list) == [open |-> TRUE, chunks |-> list]

\* had is history, which no call looks at: the configurations the codec had
\* since its contexts were last dropped.
Codec ==
  [cfg : Configs,
   had : SUBSET Configs,
   contexts : [Directions -> {NoContext} \cup {Context(cfg) : cfg \in Configs}],
   schunk : [open : BOOLEAN, chunks : Seq(Data)]]

Constructed(cfg) ==
  [cfg |-> cfg, had |-> {cfg}, contexts |-> NoContexts, schunk |-> NoSuperChunk]

\* Slip: the contexts stay those of the configuration before.
WithSuperChunkOnly(k, s) == [k EXCEPT !.schunk = s, !.had = {k.cfg}]

\* A super-chunk that is exchanged takes the contexts with it.
WithSuperChunk(k, s) ==
  [k EXCEPT !.schunk = s, !.contexts = NoContexts, !.had = {k.cfg}]

-------------------------------------------------------------------------------
(* compress and decompress.                                                *)

EnsureContext ==
  /\ At("begin")
  /\ \/ /\ Keeps.contexts[call.name] # NoContext
        /\ codec' = codec
        /\ Proceed("run")
     \/ /\ Keeps.contexts[call.name] = NoContext
        /\ \/ Change([Keeps EXCEPT !.contexts[call.name] = Context(Keeps.cfg)])
              /\ Proceed("run")
           \/ codec' = codec /\ Throw

RunCodec ==
  /\ At("run")
  /\ codec' = codec
  /\ \/ call.name = "compress" /\ StoreBytes([data |-> call.data])
     \/ call.name = "decompress" /\ Answer(bytes[call.owner][call.chunk].data)
     \/ Throw

Step == EnsureContext \/ RunCodec

-------------------------------------------------------------------------------
(* The super-chunk; chunk c is the one at position c + 1.                  *)

SuperChunk(o) == codec[o].schunk

\* A call on a super-chunk is over.
End(how) == call = NoCall /\ call' = NoCall /\ answer' = how /\ UNCHANGED bytes
Refuse == End(Threw) /\ UNCHANGED codec

ResetStorage(o) ==
  \/ End(Done) /\ codec' = [codec EXCEPT ![o] = WithSuperChunk(@, OpenSuperChunk(<<>>))]
  \/ Refuse

AppendChunk(o, d) ==
  \/ /\ SuperChunk(o).open
     /\ End(Done)
     /\ codec' = [codec EXCEPT ![o].schunk.chunks = Append(@, d)]
  \/ Refuse

ReadChunk(o, c) ==
  \/ /\ c < Len(SuperChunk(o).chunks)
     /\ End(Loaded(o, c, SuperChunk(o).chunks[c + 1]))
     /\ UNCHANGED codec
  \/ Refuse

\* The bytes are encoded aside and then exchanged.
WriteChunk(o, c, d) ==
  LET created == [codec[o] EXCEPT !.contexts.compress =
                    IF @ = NoContext THEN Context(codec[o].cfg) ELSE @]
  IN \/ /\ c < Len(SuperChunk(o).chunks)
        /\ \/ End(Done) /\ codec' = [codec EXCEPT ![o] = [created EXCEPT !.schunk.chunks[c + 1] = d]]
           \/ End(Threw) /\ codec' = [codec EXCEPT ![o] = created]
     \/ Refuse

\* What codec k may be after cloneFrom: an open super-chunk is copied whole,
\* or a new one cannot be made, or the half that was copied is dropped.
CloneFrom(k, other) ==
  {[codec |-> WithSuperChunk(k, other.schunk), done |-> TRUE]}
    \cup IF ~other.schunk.open THEN {}
         ELSE {[codec |-> k, done |-> FALSE]}
    \cup IF other.schunk.chunks = <<>> THEN {}
         ELSE {[codec |-> WithSuperChunk(k, NoSuperChunk), done |-> FALSE]}

\* The bytes are copied with the codec.
Clone(o, p, k) ==
  \E clone \in CloneFrom(k, codec[p]) :
    /\ call = NoCall /\ call' = call
    /\ codec' = [codec EXCEPT ![o] = clone.codec]
    /\ bytes' = IF clone.done THEN [bytes EXCEPT ![o] = bytes[p]] ELSE bytes
    /\ answer' = IF clone.done THEN Done ELSE Threw

\* Assignment takes the configuration before anything can fail.
Assign(o, p) ==
  Clone(o, p, [codec[o] EXCEPT !.cfg = codec[p].cfg, !.had = @ \cup {codec[p].cfg}])

\* A copy that cannot be constructed leaves no object, and o what it was.
CopyConstruct(o, p) ==
  \/ Clone(o, p, Constructed(codec[p].cfg)) /\ answer' = Done
  \/ Refuse /\ SuperChunk(p).open

-------------------------------------------------------------------------------
(* compress and decompress run with the context of the codec's             *)
(* configuration.  A context a codec keeps, the one its last write to the  *)
(* super-chunk used among them, is that of a configuration it had since    *)
(* its contexts were last dropped.                                         *)
ContextsOwn(k) ==
  \A name \in Directions :
    k.contexts[name] \in {NoContext} \cup {Context(cfg) : cfg \in k.had}

ContextsFit ==
  /\ At("run") => Keeps.contexts[call.name] = Context(Keeps.cfg)
  /\ \A o \in Owners : ContextsOwn(codec[o])
===============================================================================
