-------------------------- MODULE CodecStorageProofs ---------------------------
(***************************************************************************)
(* Proofs about the codecs and the back ends that keep chunks with them:   *)
(* what a codec keeps from call to call fits the next, and a load yields   *)
(* what was stored or throws.                                              *)
(***************************************************************************)
EXTENDS CodecStorage, TLAPS

-------------------------------------------------------------------------------
(* The inductive invariant.                                                *)

CallRecord ==
  [name : Zfp!Directions, owner : Owners, chunk : Chunks, elems : Nat,
   data : Data \cup {NoBytes}, stage : {"begin", "run"}]

CallFits ==
  call # Zfp!NoCall =>
    /\ call \in CallRecord
    /\ Compressed
    /\ call.elems = elemCount[call.owner][call.chunk] /\ call.elems > 0
    /\ call.name = "compress" => call.data \in Data
    /\ call.name = "decompress" => bytes[call.owner][call.chunk] # NoBytes

FillingFits ==
  filling # NotFilling =>
    /\ filling \in [owner : Owners, chunk : Chunks, data : Data]
    /\ filling.chunk \in HasChunks(filling.owner)
    /\ Compressed

\* The bytes of n doubles d encoded under a configuration.
EncodedFor(cfg, n, d) ==
  IF strategy = "Zfp" THEN [data |-> d, stream |-> Zfp!Applied(cfg, n)] ELSE [data |-> d]

\* Bytes were encoded with the parameters they will be decoded with.
BytesFit ==
  /\ bytes \in [Owners -> [Chunks -> {NoBytes} \cup [data : Data]
                                       \cup [data : Data, stream : Zfp!Stream]]]
  /\ \A o \in Owners, c \in Chunks :
       bytes[o][c] # NoBytes =>
         /\ Compressed /\ elemCount[o][c] > 0
         /\ \E d \in Data : bytes[o][c] = EncodedFor(codec[o].cfg, elemCount[o][c], d)

\* A bitstream that would be rewound lies over the scratch buffer.
BitstreamFits(k) ==
  /\ k.bitstream.capacity <= k.scratch
  /\ k.bitstream.open /\ k.bitstream.capacity = k.scratch => k.bitstream.over

\* A context that would be used is that of the configuration, the only one
\* the codec of a back end ever has.
ContextsCurrent(k) ==
  /\ k.schunk = Blosc!NoSuperChunk
  /\ k.had = {k.cfg}
  /\ \A name \in Blosc!Directions :
       k.contexts[name] \in {Blosc!NoContext, Blosc!Context(k.cfg)}

\* Contexts are of configurations the codec had, the present one among them.
ContextsKnown(k) == k.cfg \in k.had /\ Blosc!ContextsOwn(k)

CodecsFit ==
  /\ strategy = "Zfp" =>
       codec \in [Owners -> Zfp!Codec] /\ \A o \in Owners : BitstreamFits(codec[o])
  /\ strategy = "Blosc" =>
       codec \in [Owners -> Blosc!Codec] /\ \A o \in Owners : ContextsCurrent(codec[o])
  /\ strategy # "Zfp" => \A o \in Owners : ContextsKnown(codec[o])

\* The context a run of Blosc is given.
ContextFits ==
  Blosc!At("run") =>
    Blosc!Keeps.contexts[call.name] = Blosc!Context(Blosc!Keeps.cfg)

RunsFit == IF strategy = "Zfp" THEN Zfp!StreamsFit ELSE ContextFits

CallsAllowed == IF SuperChunks THEN MaxSuperChunkCalls ELSE MaxCalls

StorageInv ==
  /\ TypeOK
  /\ request # NoRequest => strategy = "None"
  /\ CodecsFit
  /\ CallFits
  /\ FillingFits
  /\ BytesFit
  /\ RunsFit

-------------------------------------------------------------------------------
LEMMA DimensionsRange == \A n : Zfp!Dimensions(n) \in 0..2
BY DEF Zfp!Dimensions

LEMMA AppliedType ==
  ASSUME NEW cfg \in Configs, NEW n
  PROVE  Zfp!Applied(cfg, n) \in Zfp!Stream
BY DimensionsRange DEF Zfp!Applied, Zfp!Stream

LEMMA ZfpConstructedType ==
  ASSUME NEW cfg \in Configs
  PROVE  Zfp!Constructed(cfg) \in Zfp!Codec /\ BitstreamFits(Zfp!Constructed(cfg))
BY ConfigsAssumption
   DEF Zfp!Constructed, Zfp!Codec, Zfp!Stream, Zfp!NoStream, Zfp!NoBitstream, BitstreamFits

LEMMA BloscConstructedType ==
  ASSUME NEW cfg \in Configs
  PROVE  Blosc!Constructed(cfg) \in Blosc!Codec /\ ContextsCurrent(Blosc!Constructed(cfg))
<1>1. <<>> \in Seq(Data)
  OBVIOUS
<1> QED
  BY <1>1 DEF Blosc!Constructed, Blosc!Codec, Blosc!NoContexts, Blosc!NoSuperChunk, ContextsCurrent

LEMMA CurrentIsKnown ==
  ASSUME NEW k, ContextsCurrent(k)
  PROVE  ContextsKnown(k)
BY DEF ContextsCurrent, ContextsKnown, Blosc!ContextsOwn

LEMMA NoContextsKnown ==
  ASSUME NEW k, k.cfg \in k.had, k.contexts = Blosc!NoContexts
  PROVE  ContextsKnown(k)
BY DEF ContextsKnown, Blosc!ContextsOwn, Blosc!NoContexts

LEMMA CopyOfType ==
  ASSUME NEW k \in Zfp!Codec
  PROVE  /\ Zfp!CopyOf(k) \in Zfp!Codec
         /\ Zfp!CopyOf(k).cfg = k.cfg
         /\ BitstreamFits(Zfp!CopyOf(k))
<1> DEFINE m == Zfp!CopyOf(k)
<1>1. m = [k EXCEPT !.streams = [name \in Zfp!Directions |-> Zfp!NoStream],
                    !.bitstream = Zfp!NoBitstream]
  BY DEF Zfp!CopyOf
<1>2. Zfp!NoStream \in Zfp!Stream
  BY DEF Zfp!NoStream, Zfp!Stream
<1>3. Zfp!NoBitstream \in [open : BOOLEAN, over : BOOLEAN, capacity : Nat]
  BY DEF Zfp!NoBitstream
<1>4. m \in Zfp!Codec
  BY <1>1, <1>2, <1>3 DEF Zfp!Codec
<1>5. m.cfg = k.cfg /\ m.bitstream = Zfp!NoBitstream /\ m.scratch = k.scratch
  BY <1>1 DEF Zfp!Codec
<1>6. BitstreamFits(m)
  BY <1>4, <1>5 DEF BitstreamFits, Zfp!NoBitstream, Zfp!Codec
<1> QED
  BY <1>4, <1>5, <1>6

LEMMA WithStreamModeType ==
  ASSUME NEW k \in Zfp!Codec, call.name \in Zfp!Directions
  PROVE  LET m == Zfp!WithStreamMode(k)
         IN /\ m \in Zfp!Codec
            /\ m.cfg = k.cfg /\ m.bitstream = k.bitstream /\ m.scratch = k.scratch
            /\ m.streams[call.name] = Zfp!Applied(k.cfg, call.elems)
<1>1. Zfp!Applied(k.cfg, call.elems) \in Zfp!Stream
  BY AppliedType DEF Zfp!Codec
<1> QED
  BY <1>1 DEF Zfp!WithStreamMode, Zfp!Codec

LEMMA WithScratchType ==
  ASSUME NEW k \in Zfp!Codec, BitstreamFits(k), Zfp!Needed(k) \in Nat
  PROVE  LET m == Zfp!WithScratch(k)
         IN /\ m \in Zfp!Codec
            /\ m.cfg = k.cfg /\ m.streams = k.streams
            /\ BitstreamFits(m)
            /\ m.scratch >= Zfp!Needed(k)
<1> DEFINE m == Zfp!WithScratch(k)
<1>1. CASE k.scratch >= Zfp!Needed(k)
  BY <1>1 DEF Zfp!WithScratch
<1>2. CASE ~(k.scratch >= Zfp!Needed(k))
  <2>1. m = [k EXCEPT !.scratch = Zfp!Needed(k), !.bitstream.over = FALSE]
    BY <1>2 DEF Zfp!WithScratch
  <2>2. m \in Zfp!Codec
    BY <2>1 DEF Zfp!Codec
  <2>3. /\ m.cfg = k.cfg /\ m.streams = k.streams
        /\ m.scratch = Zfp!Needed(k)
        /\ m.bitstream.capacity = k.bitstream.capacity
    BY <2>1 DEF Zfp!Codec
  <2>4. k.bitstream.capacity \in Nat /\ k.scratch \in Nat
    BY DEF Zfp!Codec
  <2>5. BitstreamFits(m)
    BY <1>2, <2>3, <2>4 DEF BitstreamFits
  <2> QED
    BY <2>2, <2>3, <2>5
<1> QED
  BY <1>1, <1>2

LEMMA WithBitstreamType ==
  ASSUME NEW k \in Zfp!Codec, BitstreamFits(k)
  PROVE  LET m == Zfp!WithBitstream(k)
         IN /\ m \in Zfp!Codec
            /\ m.cfg = k.cfg /\ m.streams = k.streams /\ m.scratch = k.scratch
            /\ BitstreamFits(m)
            /\ m.bitstream = [open |-> TRUE, over |-> TRUE, capacity |-> k.scratch]
<1> DEFINE new == [open |-> TRUE, over |-> TRUE, capacity |-> k.scratch]
           m == Zfp!WithBitstream(k)
<1>1. CASE Zfp!NeedsBitstream(k)
  <2>1. m = [k EXCEPT !.bitstream = new]
    BY <1>1 DEF Zfp!WithBitstream
  <2>2. new \in [open : BOOLEAN, over : BOOLEAN, capacity : Nat]
    BY DEF Zfp!Codec
  <2>3. m \in Zfp!Codec
    BY <2>1, <2>2 DEF Zfp!Codec
  <2>4. m.cfg = k.cfg /\ m.streams = k.streams /\ m.scratch = k.scratch /\ m.bitstream = new
    BY <2>1 DEF Zfp!Codec
  <2>5. BitstreamFits(m)
    BY <2>4 DEF BitstreamFits, Zfp!Codec
  <2> QED
    BY <2>3, <2>4, <2>5
<1>2. CASE ~Zfp!NeedsBitstream(k)
  <2>1. m = k
    BY <1>2 DEF Zfp!WithBitstream
  <2>2. k.bitstream \in [open : BOOLEAN, over : BOOLEAN, capacity : Nat]
    BY DEF Zfp!Codec
  <2>3. k.bitstream.open = TRUE /\ k.bitstream.capacity = k.scratch /\ k.bitstream.over = TRUE
    BY <1>2, <2>2 DEF Zfp!NeedsBitstream, BitstreamFits
  <2>4. k.bitstream = new
    BY <2>2, <2>3
  <2> QED
    BY <2>1, <2>4
<1> QED
  BY <1>1, <1>2

-------------------------------------------------------------------------------
(* A step of a codec call.                                                 *)

\* What a step of the call comes to.
CallGoesOn ==
  \/ Zfp!Proceed("begin")
  \/ Zfp!Proceed("run")
  \/ Zfp!Throw
  \/ /\ call.name = "compress"
     /\ Zfp!StoreBytes(EncodedFor(Zfp!Keeps.cfg, call.elems, call.data))
  \/ /\ call.name = "decompress"
     /\ Zfp!Answer(bytes[call.owner][call.chunk].data)

SameConfigs == \A o \in Owners : codec'[o].cfg = codec[o].cfg

CodecsKeptFit ==
  /\ strategy = "Zfp" =>
       codec' \in [Owners -> Zfp!Codec] /\ \A o \in Owners : BitstreamFits(codec'[o])
  /\ strategy = "Blosc" =>
       codec' \in [Owners -> Blosc!Codec] /\ \A o \in Owners : ContextsCurrent(codec'[o])

LEMMA NeededType ==
  ASSUME StorageInv, strategy = "Zfp", call # Zfp!NoCall,
         NEW k \in Zfp!Codec, k.cfg = Zfp!Keeps.cfg,
         k.streams.compress = Zfp!Applied(k.cfg, call.elems)
  PROVE  Zfp!Needed(k) \in Nat
<1>1. /\ call.owner \in Owners /\ call.chunk \in Chunks
      /\ call.elems = elemCount[call.owner][call.chunk] /\ call.elems > 0
  BY DEF StorageInv, CallFits, CallRecord
<1>2. elemCount[call.owner] \in Layouts
  <2>1. elemCount[call.owner] \in Layouts \cup {[c \in Chunks |-> 0]}
    BY <1>1 DEF StorageInv, TypeOK
  <2> QED
    BY <1>1, <2>1
<1>3. k.cfg \in Configs
  BY DEF Zfp!Codec
<1>4. MaximumSize[k.cfg.mode][elemCount[call.owner][call.chunk]] \in Nat
  BY <1>1, <1>2, <1>3, LayoutsAssumption
<1>5. k.streams.compress.mode = k.cfg.mode
  BY DEF Zfp!Applied
<1> QED
  BY <1>1, <1>4, <1>5 DEF Zfp!Needed

LEMMA ChangeZfp ==
  ASSUME StorageInv, strategy = "Zfp", call # Zfp!NoCall,
         NEW k \in Zfp!Codec, k.cfg = Zfp!Keeps.cfg, BitstreamFits(k), Zfp!Change(k)
  PROVE  CodecsKeptFit /\ SameConfigs /\ codec'[call.owner] = k
<1>1. call.owner \in Owners
  BY DEF StorageInv, CallFits, CallRecord
<1>2. codec \in [Owners -> Zfp!Codec] /\ \A o \in Owners : BitstreamFits(codec[o])
  BY DEF StorageInv, CodecsFit
<1>3. codec' = [codec EXCEPT ![call.owner] = k]
  BY DEF Zfp!Change
<1>4. codec' \in [Owners -> Zfp!Codec] /\ codec'[call.owner] = k
  BY <1>1, <1>2, <1>3
<1>5. \A o \in Owners : BitstreamFits(codec'[o]) /\ codec'[o].cfg = codec[o].cfg
  BY <1>1, <1>2, <1>3 DEF Zfp!Keeps
<1> QED
  BY <1>4, <1>5 DEF CodecsKeptFit, SameConfigs

LEMMA ZfpStepFits ==
  ASSUME StorageInv, strategy = "Zfp", strategy' = strategy, Zfp!Step
  PROVE  CallGoesOn /\ SameConfigs /\ CodecsKeptFit /\ RunsFit'
<1> DEFINE k == Zfp!Keeps
<1>1. call # Zfp!NoCall
  BY DEF Zfp!Step, Zfp!PrepareFails, Zfp!PrepareCompress, Zfp!PrepareDecompress,
         Zfp!Compress, Zfp!Decompress, Zfp!RunFails, Zfp!At
<1>2. /\ call \in CallRecord
      /\ call.name = "decompress" => bytes[call.owner][call.chunk] # NoBytes
  BY <1>1 DEF StorageInv, CallFits
<1>3. call.owner \in Owners /\ call.name \in Zfp!Directions /\ call.chunk \in Chunks
  BY <1>2 DEF CallRecord
<1>4. k \in Zfp!Codec /\ BitstreamFits(k)
  BY <1>3 DEF StorageInv, CodecsFit, Zfp!Keeps
<1>5. ASSUME codec' = codec PROVE SameConfigs /\ CodecsKeptFit
  BY <1>5 DEF SameConfigs, CodecsKeptFit, StorageInv, CodecsFit
<1>6. ASSUME Zfp!Throw \/ Zfp!Proceed("begin") PROVE RunsFit'
  BY <1>6, <1>2 DEF Zfp!Throw, Zfp!Proceed, RunsFit, Zfp!StreamsFit, Zfp!At,
                    Zfp!NoCall, CallRecord
<1>7. CASE Zfp!PrepareFails
  <2>1. PICK m \in {k, [k EXCEPT !.streams[call.name].open = TRUE]} : Zfp!Change(m)
    BY <1>7 DEF Zfp!PrepareFails
  <2>2. m \in Zfp!Codec /\ m.cfg = k.cfg /\ m.bitstream = k.bitstream /\ m.scratch = k.scratch
    <3>1. CASE m = k
      BY <3>1, <1>4
    <3>2. CASE m = [k EXCEPT !.streams[call.name].open = TRUE]
      <4> DEFINE new == [k.streams EXCEPT ![call.name].open = TRUE]
      <4>1. k.streams \in [Zfp!Directions -> Zfp!Stream]
        BY <1>4 DEF Zfp!Codec
      <4>2. new \in [Zfp!Directions -> Zfp!Stream]
        BY <1>3, <4>1 DEF Zfp!Stream
      <4>3. m = [k EXCEPT !.streams = new]
        BY <1>4, <3>2 DEF Zfp!Codec
      <4> QED
        BY <1>4, <4>2, <4>3 DEF Zfp!Codec
    <3> QED
      BY <2>1, <3>1, <3>2
  <2>3. BitstreamFits(m)
    BY <1>4, <2>2 DEF BitstreamFits
  <2>4. Zfp!Throw
    BY <1>7 DEF Zfp!PrepareFails
  <2> QED
    BY <1>1, <1>6, <2>1, <2>2, <2>3, <2>4, ChangeZfp DEF CallGoesOn
<1>8. CASE Zfp!PrepareCompress
  <2> DEFINE m1 == Zfp!WithStreamMode(k)
             m == Zfp!WithScratch(m1)
             w == Zfp!WithBitstream(m)
             f == [m EXCEPT !.bitstream.open = FALSE]
  <2>1. call.name = "compress"
    BY <1>8 DEF Zfp!PrepareCompress
  <2>2. /\ m1 \in Zfp!Codec /\ m1.cfg = k.cfg /\ BitstreamFits(m1)
        /\ m1.streams.compress = Zfp!Applied(k.cfg, call.elems)
    BY <1>3, <1>4, <2>1, WithStreamModeType DEF BitstreamFits
  <2>3. Zfp!Needed(m1) \in Nat
    BY <1>1, <2>2, NeededType
  <2>4. /\ m \in Zfp!Codec /\ m.cfg = k.cfg /\ BitstreamFits(m)
        /\ m.streams = m1.streams /\ m.scratch >= Zfp!Needed(m1)
    BY <2>2, <2>3, WithScratchType
  <2>5. CASE Zfp!Change(w) /\ Zfp!Proceed("run")
    <3>1. /\ w \in Zfp!Codec /\ w.cfg = k.cfg /\ BitstreamFits(w)
          /\ w.streams = m.streams /\ w.scratch = m.scratch
          /\ w.bitstream = [open |-> TRUE, over |-> TRUE, capacity |-> m.scratch]
      BY <2>4, WithBitstreamType
    <3>2. CodecsKeptFit /\ SameConfigs /\ codec'[call.owner] = w
      BY <1>1, <2>5, <3>1, ChangeZfp
    <3>3. /\ call'.owner = call.owner /\ call'.name = call.name /\ call'.elems = call.elems
      BY <1>2, <2>5 DEF Zfp!Proceed, CallRecord
    <3>4. Zfp!Needed(w) = Zfp!Needed(m1)
      BY <2>4, <3>1 DEF Zfp!Needed
    <3>5. /\ w.streams[call.name] = Zfp!Applied(w.cfg, call.elems)
          /\ w.bitstream = [open |-> TRUE, over |-> TRUE, capacity |-> w.scratch]
          /\ w.scratch >= Zfp!Needed(w)
      BY <2>1, <2>2, <2>4, <3>1, <3>4
    <3>6. (Zfp!Keeps)' = w
      BY <3>2, <3>3 DEF Zfp!Keeps
    <3>7. (Zfp!Needed(Zfp!Keeps))' = Zfp!Needed(w)
      BY <3>3, <3>6 DEF Zfp!Needed
    <3>8. RunsFit'
      BY <3>3, <3>5, <3>6, <3>7 DEF RunsFit, Zfp!StreamsFit
    <3> QED
      BY <2>5, <3>2, <3>8 DEF CallGoesOn
  <2>6. CASE Zfp!Change(f) /\ Zfp!Throw
    <3>1. f \in Zfp!Codec /\ f.cfg = k.cfg
      BY <2>4 DEF Zfp!Codec
    <3>2. BitstreamFits(f)
      BY <2>4 DEF BitstreamFits, Zfp!Codec
    <3> QED
      BY <1>1, <1>6, <2>6, <3>1, <3>2, ChangeZfp DEF CallGoesOn
  <2> QED
    BY <1>8, <2>5, <2>6 DEF Zfp!PrepareCompress
<1>9. CASE Zfp!PrepareDecompress
  <2> DEFINE m == Zfp!WithStreamMode(k)
  <2>1. /\ m \in Zfp!Codec /\ m.cfg = k.cfg /\ BitstreamFits(m)
        /\ m.streams[call.name] = Zfp!Applied(k.cfg, call.elems)
    BY <1>3, <1>4, WithStreamModeType DEF BitstreamFits
  <2>2. CodecsKeptFit /\ SameConfigs /\ codec'[call.owner] = m
    BY <1>1, <1>9, <2>1, ChangeZfp DEF Zfp!PrepareDecompress
  <2>3. CASE Zfp!Proceed("run")
    <3>1. /\ call'.owner = call.owner /\ call'.name = call.name /\ call'.elems = call.elems
          /\ call.name = "decompress"
      BY <1>2, <1>9, <2>3 DEF Zfp!Proceed, CallRecord, Zfp!PrepareDecompress
    <3>2. RunsFit'
      BY <2>1, <2>2, <3>1 DEF RunsFit, Zfp!StreamsFit, Zfp!Keeps
    <3> QED
      BY <2>2, <2>3, <3>2 DEF CallGoesOn
  <2> QED
    BY <1>6, <1>9, <2>2, <2>3 DEF Zfp!PrepareDecompress, CallGoesOn
<1>10. ASSUME Zfp!At("run")
       PROVE  Zfp!Keeps.streams[call.name] = Zfp!Applied(k.cfg, call.elems)
  BY <1>10 DEF StorageInv, RunsFit, Zfp!StreamsFit
<1>11. ASSUME call' = Zfp!NoCall PROVE RunsFit'
  BY <1>11 DEF RunsFit, Zfp!StreamsFit, Zfp!At
<1>12. CASE Zfp!Compress
  BY <1>5, <1>10, <1>11, <1>12 DEF Zfp!Compress, Zfp!StoreBytes, CallGoesOn, EncodedFor
<1>13. CASE Zfp!Decompress
  <2> DEFINE b == bytes[call.owner][call.chunk]
  <2>1. call.name = "decompress" /\ Zfp!At("run")
    BY <1>13 DEF Zfp!Decompress
  <2>2. PICK d \in Data : b = EncodedFor(codec[call.owner].cfg, elemCount[call.owner][call.chunk], d)
    BY <1>2, <1>3, <2>1 DEF StorageInv, BytesFit
  <2>3. b = [data |-> d, stream |-> Zfp!Applied(k.cfg, call.elems)]
    BY <1>1, <2>2 DEF StorageInv, CallFits, EncodedFor, Zfp!Keeps
  <2>4. b.stream = Zfp!Keeps.streams.decompress
    BY <1>10, <2>1, <2>3
  <2>5. Zfp!Answer(b.data)
    BY <1>13, <2>4 DEF Zfp!Decompress
  <2> QED
    BY <1>5, <1>11, <1>13, <2>1, <2>5 DEF Zfp!Decompress, Zfp!Answer, CallGoesOn
<1>14. CASE Zfp!RunFails
  <2>1. CASE codec' = codec /\ Zfp!Throw
    BY <1>5, <1>6, <2>1 DEF CallGoesOn
  <2>2. CASE ~(codec' = codec /\ Zfp!Throw)
    <3> DEFINE m == [k EXCEPT
             !.threads[call.name] = 1,
             !.streams[call.name] = Zfp!NoStream,
             !.bitstream = IF call.name = "compress" THEN Zfp!NoBitstream ELSE @]
    <3>1. Zfp!Change(m) /\ Zfp!Proceed("begin")
      BY <1>14, <2>2 DEF Zfp!RunFails
    <3>2. Zfp!NoStream \in Zfp!Stream
      BY DEF Zfp!NoStream, Zfp!Stream
    <3>3. Zfp!NoBitstream \in [open : BOOLEAN, over : BOOLEAN, capacity : Nat]
      BY DEF Zfp!NoBitstream
    <3>4. m \in Zfp!Codec
      <4> DEFINE threads == [k.threads EXCEPT ![call.name] = 1]
                 streams == [k.streams EXCEPT ![call.name] = Zfp!NoStream]
                 bitstream == IF call.name = "compress" THEN Zfp!NoBitstream ELSE k.bitstream
      <4>1. threads \in [Zfp!Directions -> Int]
        BY <1>3, <1>4 DEF Zfp!Codec
      <4>2. streams \in [Zfp!Directions -> Zfp!Stream]
        BY <1>3, <1>4, <3>2 DEF Zfp!Codec
      <4>3. bitstream \in [open : BOOLEAN, over : BOOLEAN, capacity : Nat]
        BY <1>4, <3>3 DEF Zfp!Codec
      <4>4. m = [k EXCEPT !.threads = threads, !.streams = streams, !.bitstream = bitstream]
        BY <1>4 DEF Zfp!Codec
      <4> HIDE DEF threads, streams, bitstream
      <4> QED
        BY <1>4, <4>1, <4>2, <4>3, <4>4 DEF Zfp!Codec
    <3>5. /\ m.cfg = k.cfg /\ m.scratch = k.scratch
          /\ m.bitstream \in {k.bitstream, Zfp!NoBitstream}
      BY <1>4 DEF Zfp!Codec
    <3>6. BitstreamFits(m)
      BY <1>4, <3>5 DEF BitstreamFits, Zfp!NoBitstream, Zfp!Codec
    <3> QED
      BY <1>1, <1>6, <3>1, <3>4, <3>5, <3>6, ChangeZfp DEF CallGoesOn
  <2> QED
    BY <2>1, <2>2
<1> QED
  BY <1>7, <1>8, <1>9, <1>12, <1>13, <1>14 DEF Zfp!Step

LEMMA NoCallIsNone ==
  /\ Zfp!NoCall = Blosc!NoCall
  /\ call' = Zfp!NoCall => RunsFit' /\ CallFits'
BY DEF Zfp!NoCall, Blosc!NoCall, RunsFit, Zfp!StreamsFit, Zfp!At,
       ContextFits, Blosc!At, CallFits

LEMMA BloscStepFits ==
  ASSUME StorageInv, strategy # "Zfp", strategy' = strategy, Blosc!Step
  PROVE  /\ strategy = "Blosc"
         /\ CallGoesOn /\ SameConfigs /\ CodecsKeptFit /\ RunsFit'
<1> DEFINE k == Blosc!Keeps
<1>1. call # Zfp!NoCall
  BY NoCallIsNone DEF Blosc!Step, Blosc!EnsureContext, Blosc!RunCodec, Blosc!At
<1>2. call \in CallRecord /\ Compressed
  BY <1>1 DEF StorageInv, CallFits
<1>3. strategy = "Blosc"
  BY <1>2 DEF Compressed
<1>4. call.owner \in Owners /\ call.name \in Blosc!Directions /\ call.chunk \in Chunks
  BY <1>2 DEF CallRecord, Zfp!Directions, Blosc!Directions
<1>5. codec \in [Owners -> Blosc!Codec] /\ \A o \in Owners : ContextsCurrent(codec[o])
  BY <1>3 DEF StorageInv, CodecsFit
<1>6. k \in Blosc!Codec /\ ContextsCurrent(k)
  BY <1>4, <1>5 DEF Blosc!Keeps
<1>7. ASSUME codec' = codec PROVE SameConfigs /\ CodecsKeptFit
  BY <1>3, <1>5, <1>7 DEF SameConfigs, CodecsKeptFit
<1>8. CASE Blosc!EnsureContext
  <2>1. CASE codec' = codec /\ Blosc!Throw
    BY <1>3, <1>7, <2>1, NoCallIsNone DEF Blosc!Throw, CallGoesOn, Zfp!Throw, Blosc!Threw, Zfp!Threw
  <2>2. CASE Blosc!Proceed("run")
    <3>1. Zfp!Proceed("run")
      BY <2>2 DEF Zfp!Proceed, Blosc!Proceed
    <3>2. call'.owner = call.owner /\ call'.name = call.name
      BY <1>2, <3>1 DEF Zfp!Proceed, CallRecord
    <3>3. CASE k.contexts[call.name] # Blosc!NoContext /\ codec' = codec
      <4>1. k.contexts[call.name] = Blosc!Context(k.cfg)
        BY <1>4, <1>6, <3>3 DEF ContextsCurrent
      <4>2. RunsFit'
        BY <1>3, <3>2, <3>3, <4>1 DEF RunsFit, ContextFits, Blosc!Keeps
      <4> QED
        BY <1>3, <1>7, <3>1, <3>3, <4>2 DEF CallGoesOn
    <3>4. CASE Blosc!Change([k EXCEPT !.contexts[call.name] = Blosc!Context(k.cfg)])
      <4> DEFINE contexts == [k.contexts EXCEPT ![call.name] = Blosc!Context(k.cfg)]
                 m == [k EXCEPT !.contexts = contexts]
      <4>1. /\ k.contexts \in [Blosc!Directions -> {Blosc!NoContext}
                                 \cup {Blosc!Context(cfg) : cfg \in Configs}]
            /\ k.cfg \in Configs
        BY <1>6 DEF Blosc!Codec
      <4>2. contexts \in [Blosc!Directions -> {Blosc!NoContext}
                                 \cup {Blosc!Context(cfg) : cfg \in Configs}]
        BY <1>4, <4>1
      <4>3. m \in Blosc!Codec
        BY <1>6, <4>2 DEF Blosc!Codec
      <4>4. m.cfg = k.cfg /\ m.schunk = k.schunk /\ m.contexts = contexts
        BY <1>6 DEF Blosc!Codec
      <4>5. ContextsCurrent(m)
        BY <1>4, <1>6, <4>1, <4>4 DEF ContextsCurrent
      <4>6. m.contexts[call.name] = Blosc!Context(m.cfg)
        BY <1>4, <4>1, <4>4
      <4>7. codec' = [codec EXCEPT ![call.owner] = m]
        BY <1>6, <3>4 DEF Blosc!Change, Blosc!Codec
      <4> HIDE DEF m
      <4>8. codec' \in [Owners -> Blosc!Codec] /\ codec'[call.owner] = m
        BY <1>4, <1>5, <4>3, <4>7
      <4>9. \A o \in Owners : ContextsCurrent(codec'[o]) /\ codec'[o].cfg = codec[o].cfg
        BY <1>4, <1>5, <4>4, <4>5, <4>7 DEF Blosc!Keeps
      <4>10. RunsFit'
        BY <1>3, <3>2, <4>6, <4>8 DEF RunsFit, ContextFits, Blosc!Keeps
      <4> QED
        BY <1>3, <3>1, <4>8, <4>9, <4>10 DEF CallGoesOn, SameConfigs, CodecsKeptFit
    <3> QED
      BY <1>8, <2>2, <3>3, <3>4, <1>2
         DEF Blosc!EnsureContext, Blosc!Throw, Blosc!Proceed, Blosc!NoCall, CallRecord
  <2> QED
    BY <1>8, <2>1, <2>2 DEF Blosc!EnsureContext
<1>9. CASE Blosc!RunCodec
  <2>1. call' = Zfp!NoCall /\ codec' = codec
    BY <1>9, NoCallIsNone
       DEF Blosc!RunCodec, Blosc!StoreBytes, Blosc!Answer, Blosc!Throw
  <2>2. CallGoesOn
    BY <1>3, <1>9, NoCallIsNone
       DEF Blosc!RunCodec, Blosc!StoreBytes, Blosc!Answer, Blosc!Throw, CallGoesOn,
           Zfp!StoreBytes, Zfp!Answer, Zfp!Throw, Zfp!Threw, Blosc!Threw, Zfp!Done,
           Blosc!Done, Zfp!Loaded, Blosc!Loaded, EncodedFor
  <2> QED
    BY <1>3, <1>7, <2>1, <2>2, NoCallIsNone
<1> QED
  BY <1>8, <1>9, <1>3 DEF Blosc!Step

LEMMA EncodedType ==
  ASSUME NEW cfg \in Configs, NEW n, NEW d \in Data
  PROVE  /\ EncodedFor(cfg, n, d) \in [data : Data] \cup [data : Data, stream : Zfp!Stream]
         /\ EncodedFor(cfg, n, d) # NoBytes
         /\ EncodedFor(cfg, n, d).data = d
BY AppliedType, DataAssumption DEF EncodedFor

LEMMA ConfigType ==
  ASSUME StorageInv, Compressed, NEW o \in Owners
  PROVE  codec[o].cfg \in Configs
BY DEF StorageInv, CodecsFit, Compressed, Zfp!Codec, Blosc!Codec

LEMMA CodecStepFits ==
  ASSUME StorageInv, CodecStep
  PROVE  CallGoesOn /\ SameConfigs /\ CodecsKeptFit /\ RunsFit' /\ Compressed
<1>1. strategy' = strategy
  BY DEF CodecStep
<1> QED
  BY <1>1, ZfpStepFits, BloscStepFits DEF CodecStep, Compressed

\* The bytes a call leaves.
LEMMA CallBytesFit ==
  ASSUME StorageInv, CodecStep
  PROVE  BytesFit'
<1>1. CallGoesOn /\ SameConfigs /\ Compressed
  BY CodecStepFits
<1>2. strategy' = strategy /\ elemCount' = elemCount
  BY DEF CodecStep
<1>3. \A cfg, n, d : EncodedFor(cfg, n, d)' = EncodedFor(cfg, n, d)
  BY <1>2 DEF EncodedFor
<1>4. CASE bytes' = bytes
  BY <1>1, <1>2, <1>4 DEF StorageInv, BytesFit, SameConfigs, Compressed, EncodedFor
<1>5. CASE /\ call.name = "compress"
           /\ Zfp!StoreBytes(EncodedFor(Zfp!Keeps.cfg, call.elems, call.data))
  <2> DEFINE b == EncodedFor(codec[call.owner].cfg, elemCount[call.owner][call.chunk], call.data)
  <2>1. call # Zfp!NoCall
    BY <1>5 DEF Zfp!NoCall
  <2>2. /\ call.owner \in Owners /\ call.chunk \in Chunks /\ call.data \in Data
        /\ call.elems = elemCount[call.owner][call.chunk] /\ call.elems > 0
    BY <1>5, <2>1 DEF StorageInv, CallFits, CallRecord
  <2>3. bytes' = [bytes EXCEPT ![call.owner][call.chunk] = b]
    BY <1>5, <2>2 DEF Zfp!StoreBytes, Zfp!Keeps
  <2>4. b \in [data : Data] \cup [data : Data, stream : Zfp!Stream]
    BY <1>1, <2>2, EncodedType, ConfigType
  <2> HIDE DEF b
  <2>5. bytes' \in [Owners -> [Chunks -> {NoBytes} \cup [data : Data]
                                           \cup [data : Data, stream : Zfp!Stream]]]
    BY <2>2, <2>3, <2>4 DEF StorageInv, BytesFit
  <2>6. ASSUME NEW o \in Owners, NEW c \in Chunks, bytes'[o][c] # NoBytes
        PROVE  /\ elemCount[o][c] > 0
               /\ \E d \in Data : bytes'[o][c] = EncodedFor(codec[o].cfg, elemCount[o][c], d)
    <3>1. CASE o = call.owner /\ c = call.chunk
      BY <2>2, <2>3, <3>1 DEF StorageInv, BytesFit, b
    <3>2. CASE ~(o = call.owner /\ c = call.chunk)
      <4>1. bytes'[o][c] = bytes[o][c]
        BY <2>2, <2>3, <3>2 DEF StorageInv, BytesFit
      <4> QED
        BY <2>6, <4>1 DEF StorageInv, BytesFit
    <3> QED
      BY <3>1, <3>2
  <2> QED
    BY <1>1, <1>2, <2>5, <2>6 DEF BytesFit, SameConfigs, Compressed, EncodedFor
<1> QED
  BY <1>1, <1>4, <1>5 DEF CallGoesOn, Zfp!Proceed, Zfp!Throw, Zfp!Answer

LEMMA CodecStepKeeps == StorageInv /\ CodecStep => StorageInv'
<1> SUFFICES ASSUME StorageInv, CodecStep PROVE StorageInv'
  OBVIOUS
<1>1. CallGoesOn /\ SameConfigs /\ CodecsKeptFit /\ RunsFit' /\ Compressed
  BY CodecStepFits
<1>2. /\ UNCHANGED <<request, strategy, numStates, elemCount, left>>
      /\ filling' \in {filling, NotFilling}
  BY DEF CodecStep
<1>3. BytesFit'
  BY CallBytesFit
<1>4. CodecsFit'
  BY <1>1, <1>2, CurrentIsKnown DEF CodecsFit, CodecsKeptFit, Compressed
<1>5. CallFits'
  <2>1. CASE call' = Zfp!NoCall
    BY <2>1, NoCallIsNone
  <2>2. CASE Zfp!Proceed("begin") \/ Zfp!Proceed("run")
    <3>1. call # Zfp!NoCall
      BY DEF CodecStep, Zfp!Step, Zfp!PrepareFails, Zfp!PrepareCompress,
             Zfp!PrepareDecompress, Zfp!Compress, Zfp!Decompress, Zfp!RunFails, Zfp!At,
             Blosc!Step, Blosc!EnsureContext, Blosc!RunCodec, Blosc!At, Zfp!NoCall, Blosc!NoCall
    <3>2. /\ call' \in CallRecord /\ bytes' = bytes
          /\ call'.owner = call.owner /\ call'.chunk = call.chunk /\ call'.elems = call.elems
          /\ call'.name = call.name /\ call'.data = call.data
      BY <2>2, <3>1 DEF StorageInv, CallFits, CallRecord, Zfp!Proceed
    <3> QED
      BY <1>2, <3>1, <3>2 DEF StorageInv, CallFits, Compressed
  <2> QED
    BY <1>1, <2>1, <2>2 DEF CallGoesOn, Zfp!Throw, Zfp!StoreBytes, Zfp!Answer
<1>6. FillingFits'
  BY <1>2 DEF StorageInv, FillingFits, HasChunks, Compressed, NotFilling
<1>7. TypeOK'
  <2>1. strategy \in {"Zfp", "Blosc"}
    BY <1>1 DEF Compressed
  <2>2. \A o \in Owners, c \in Chunks : bytes'[o][c] # NoBytes => c \in HasChunks(o)'
    BY <1>3 DEF BytesFit, HasChunks
  <2>3. call' # Zfp!NoCall =>
          /\ call'.name \in Zfp!Directions
          /\ call'.elems = elemCount'[call'.owner][call'.chunk]
          /\ call'.elems > 0
    BY <1>5 DEF CallFits, CallRecord
  <2> QED
    BY <1>1, <1>2, <2>1, <2>2, <2>3 DEF StorageInv, TypeOK, CodecsKeptFit, SuperChunks
<1> QED
  BY <1>1, <1>2, <1>3, <1>4, <1>5, <1>6, <1>7 DEF StorageInv, NoRequest

-------------------------------------------------------------------------------
(* The start of a call.                                                    *)

LEMMA StartIsStart ==
  ASSUME NEW name, NEW o, NEW c, NEW d, StartCall(name, o, c, d)
  PROVE  Zfp!Start(name, o, c, elemCount[o][c], d)
BY DEF StartCall, Zfp!Start, Blosc!Start, Zfp!NoCall, Blosc!NoCall, Zfp!Throw, Blosc!Throw,
       Zfp!Threw, Blosc!Threw, Zfp!Pending, Blosc!Pending

LEMMA StartFits ==
  ASSUME StorageInv, Compressed, NEW name \in Zfp!Directions,
         NEW o \in Owners, NEW c \in Chunks, elemCount[o][c] > 0, NEW d \in Data \cup {NoBytes},
         name = "compress" => d \in Data,
         StartCall(name, o, c, d), UNCHANGED <<request, strategy, numStates, elemCount>>,
         left' \in 0..CallsAllowed, FillingFits'
  PROVE  StorageInv'
<1>1. Zfp!Start(name, o, c, elemCount[o][c], d)
  BY StartIsStart
<1>2. codec' = codec /\ bytes' = bytes
  BY <1>1 DEF Zfp!Start, Zfp!Throw
<1>3. elemCount[o][c] \in Nat
  <2>1. elemCount[o] \in [Chunks -> Nat]
    BY LayoutsAssumption DEF StorageInv, TypeOK
  <2> QED
    BY <2>1
<1>4. CallFits' /\ RunsFit'
  <2>1. CASE call' = Zfp!NoCall
    BY <2>1, NoCallIsNone
  <2>2. CASE call' # Zfp!NoCall
    <3>1. /\ call' = [name |-> name, owner |-> o, chunk |-> c, elems |-> elemCount[o][c],
                      data |-> d, stage |-> "begin"]
          /\ ~(name = "decompress" /\ bytes[o][c] = NoBytes)
      BY <1>1, <2>2 DEF Zfp!Start, Zfp!Throw
    <3>2. call' \in CallRecord
      BY <1>3, <3>1 DEF CallRecord
    <3>3. CallFits'
      BY <1>2, <3>1, <3>2 DEF CallFits, Compressed
    <3>4. RunsFit'
      BY <3>1 DEF RunsFit, Zfp!StreamsFit, Zfp!At, ContextFits, Blosc!At
    <3> QED
      BY <3>3, <3>4
  <2> QED
    BY <2>1, <2>2
<1>5. BytesFit' /\ CodecsFit'
  BY <1>2 DEF StorageInv, BytesFit, CodecsFit, EncodedFor, Compressed
<1>6. TypeOK'
  <2>1. \A p \in Owners, e \in Chunks : bytes'[p][e] # NoBytes => e \in HasChunks(p)'
    BY <1>5 DEF BytesFit, HasChunks
  <2>2. call' # Zfp!NoCall =>
          /\ call'.name \in Zfp!Directions
          /\ call'.elems = elemCount'[call'.owner][call'.chunk]
          /\ call'.elems > 0
    BY <1>4 DEF CallFits, CallRecord
  <2> QED
    BY <1>2, <2>1, <2>2 DEF StorageInv, TypeOK, SuperChunks, CallsAllowed
<1> QED
  BY <1>2, <1>4, <1>5, <1>6 DEF StorageInv, NoRequest

LEMMA ClientKeeps ==
  ASSUME StorageInv, ClientCalls
  PROVE  /\ left' \in 0..CallsAllowed
         /\ UNCHANGED <<request, strategy, numStates>>
         /\ call = Zfp!NoCall /\ filling = NotFilling
BY BoundAssumption DEF StorageInv, TypeOK, ClientCalls, Idle, CallsAllowed

LEMMA FillNextKeeps == StorageInv /\ FillNext => StorageInv'
<1> SUFFICES ASSUME StorageInv, FillNext PROVE StorageInv'
  OBVIOUS
<1> DEFINE o == filling.owner
           c == filling.chunk
           d == filling.data
<1>1. /\ filling \in [owner : Owners, chunk : Chunks, data : Data]
      /\ c \in HasChunks(o) /\ Compressed
  BY DEF FillNext, StorageInv, FillingFits
<1>2. o \in Owners /\ c \in Chunks /\ d \in Data /\ elemCount[o][c] > 0
  BY <1>1 DEF HasChunks
<1>3. FillingFits'
  BY <1>1 DEF FillNext, FillingFits, HasChunks, Compressed, NotFilling
<1>4. left' \in 0..CallsAllowed
  BY DEF FillNext, StorageInv, TypeOK, CallsAllowed
<1> QED
  BY <1>1, <1>2, <1>3, <1>4, StartFits DEF FillNext, Zfp!Directions

LEMMA StoreChunkKeeps ==
  ASSUME StorageInv, NEW o \in Owners, NEW c \in Chunks, NEW d \in Data, StoreChunk(o, c, d)
  PROVE  StorageInv'
<1>1. elemCount[o][c] > 0 /\ Compressed
  BY DEF StoreChunk, StorageInv, BytesFit
<1>2. FillingFits'
  BY ClientKeeps DEF StoreChunk, FillingFits, NotFilling
<1> QED
  BY <1>1, <1>2, ClientKeeps, StartFits DEF StoreChunk, Zfp!Directions

LEMMA LoadChunkKeeps ==
  ASSUME StorageInv, NEW o \in Owners, NEW c \in Chunks, LoadChunk(o, c)
  PROVE  StorageInv'
<1>1. elemCount[o][c] > 0 /\ Compressed
  BY DEF LoadChunk, HasChunks
<1>2. FillingFits'
  BY ClientKeeps DEF LoadChunk, FillingFits, NotFilling
<1> QED
  BY <1>1, <1>2, ClientKeeps, StartFits DEF LoadChunk, Zfp!Directions

-------------------------------------------------------------------------------
(* The other steps.                                                        *)

LEMMA InitialiseKeeps ==
  ASSUME StorageInv, NEW o \in Owners, NEW d \in Initial, NEW layout \in Layouts,
         Initialise(o, d, layout)
  PROVE  StorageInv'
<1>1. /\ left' \in 0..CallsAllowed /\ UNCHANGED <<request, strategy, numStates, codec>>
      /\ call' = Zfp!NoCall /\ Compressed
      /\ bytes' = [bytes EXCEPT ![o] = Zfp!NoChunkStored]
      /\ elemCount' = [elemCount EXCEPT ![o] = layout]
      /\ filling' = [owner |-> o, chunk |-> 0, data |-> d]
  BY ClientKeeps DEF Initialise, Zfp!Forget
<1>2. /\ elemCount \in [Owners -> Layouts \cup {[c \in Chunks |-> 0]}]
      /\ elemCount' \in [Owners -> Layouts \cup {[c \in Chunks |-> 0]}]
  BY <1>1 DEF StorageInv, TypeOK
<1>3. CallFits' /\ RunsFit'
  BY <1>1, NoCallIsNone
<1>4. FillingFits'
  <2>1. elemCount'[o][0] > 0
    BY <1>1, <1>2, LayoutsAssumption
  <2> QED
    BY <1>1, <2>1, ChunksAssumption, DataAssumption DEF FillingFits, HasChunks, Compressed
<1>5. BytesFit'
  <2>1. Zfp!NoChunkStored \in [Chunks -> {NoBytes}]
    BY DEF Zfp!NoChunkStored
  <2>2. bytes' \in [Owners -> [Chunks -> {NoBytes} \cup [data : Data]
                                           \cup [data : Data, stream : Zfp!Stream]]]
    BY <1>1, <2>1 DEF StorageInv, BytesFit
  <2>3. ASSUME NEW p \in Owners, NEW c \in Chunks, bytes'[p][c] # NoBytes
        PROVE  /\ elemCount'[p][c] > 0
               /\ \E e \in Data : bytes'[p][c] = EncodedFor(codec[p].cfg, elemCount'[p][c], e)
    <3>1. p # o
      BY <1>1, <2>3 DEF StorageInv, BytesFit, Zfp!NoChunkStored
    <3>2. bytes'[p] = bytes[p] /\ elemCount'[p] = elemCount[p]
      BY <1>1, <1>2, <3>1 DEF StorageInv, BytesFit
    <3> QED
      BY <2>3, <3>2 DEF StorageInv, BytesFit
  <2> QED
    BY <1>1, <2>2, <2>3 DEF BytesFit, Compressed, EncodedFor
<1>6. CodecsFit'
  BY <1>1 DEF StorageInv, CodecsFit
<1>7. TypeOK'
  <2>1. \A p \in Owners, e \in Chunks : bytes'[p][e] # NoBytes => e \in HasChunks(p)'
    BY <1>5 DEF BytesFit, HasChunks
  <2> QED
    BY <1>1, <1>2, <2>1 DEF StorageInv, TypeOK, SuperChunks, CallsAllowed
<1> QED
  BY <1>1, <1>3, <1>4, <1>5, <1>6, <1>7 DEF StorageInv, NoRequest

\* What a copy of a Blosc codec comes to.
LEMMA BloscCopy ==
  ASSUME codec \in [Owners -> Blosc!Codec], NEW o \in Owners, NEW p \in Owners,
         ContextsKnown(codec[o]), Blosc!Assign(o, p) \/ Blosc!CopyConstruct(o, p)
  PROVE  /\ codec' \in [Owners -> Blosc!Codec] /\ call' = call
         /\ ContextsKnown(codec'[o])
         /\ \A q \in Owners : q # o => codec'[q] = codec[q]
         /\ \/ /\ answer' = Zfp!Done
               /\ bytes' = [bytes EXCEPT ![o] = bytes[p]]
               /\ codec'[o].schunk = codec[p].schunk
               /\ codec'[o].cfg = codec[p].cfg /\ codec'[o].had = {codec[p].cfg}
               /\ codec'[o].contexts = Blosc!NoContexts
            \/ /\ answer' = Zfp!Threw
               /\ bytes' = bytes
               /\ codec[p].schunk # Blosc!NoSuperChunk
               /\ codec'[o].schunk \in {codec[o].schunk, Blosc!NoSuperChunk}
<1> USE DEF Blosc!Done, Blosc!Threw, Zfp!Done, Zfp!Threw
<1>1. CASE Blosc!Refuse /\ Blosc!SuperChunk(p).open
  BY <1>1 DEF Blosc!Refuse, Blosc!End, Blosc!SuperChunk, Blosc!NoSuperChunk
<1>2. ASSUME NEW k \in Blosc!Codec, k.cfg = codec[p].cfg, Blosc!Clone(o, p, k),
             ContextsKnown(k), k.schunk = codec[o].schunk \/ answer' = Blosc!Done
      PROVE  /\ codec' \in [Owners -> Blosc!Codec] /\ call' = call
             /\ ContextsKnown(codec'[o])
             /\ \A q \in Owners : q # o => codec'[q] = codec[q]
             /\ \/ /\ answer' = Zfp!Done
                   /\ bytes' = [bytes EXCEPT ![o] = bytes[p]]
                   /\ codec'[o].schunk = codec[p].schunk
                   /\ codec'[o].cfg = codec[p].cfg /\ codec'[o].had = {codec[p].cfg}
                   /\ codec'[o].contexts = Blosc!NoContexts
                \/ /\ answer' = Zfp!Threw
                   /\ bytes' = bytes
                   /\ codec[p].schunk # Blosc!NoSuperChunk
                   /\ codec'[o].schunk \in {codec[o].schunk, Blosc!NoSuperChunk}
  <2> DEFINE other == codec[p]
             whole == Blosc!WithSuperChunk(k, other.schunk)
             half == Blosc!WithSuperChunk(k, Blosc!NoSuperChunk)
  <2>1. PICK clone \in Blosc!CloneFrom(k, other) :
          /\ codec' = [codec EXCEPT ![o] = clone.codec]
          /\ bytes' = IF clone.done THEN [bytes EXCEPT ![o] = bytes[p]] ELSE bytes
          /\ answer' = IF clone.done THEN Blosc!Done ELSE Blosc!Threw
          /\ call' = call
    BY <1>2 DEF Blosc!Clone
  <2>2. Blosc!NoContexts \in [Blosc!Directions -> {Blosc!NoContext}
                                 \cup {Blosc!Context(cfg) : cfg \in Configs}]
    BY DEF Blosc!NoContexts
  <2>3. ASSUME NEW s \in [open : BOOLEAN, chunks : Seq(Data)]
        PROVE  LET m == Blosc!WithSuperChunk(k, s)
               IN /\ m \in Blosc!Codec /\ m.cfg = k.cfg /\ m.schunk = s
                  /\ m.contexts = Blosc!NoContexts /\ m.had = {k.cfg}
                  /\ ContextsKnown(m)
    BY <1>2, <2>2, NoContextsKnown DEF Blosc!WithSuperChunk, Blosc!Codec
  <2>4. Blosc!NoSuperChunk \in [open : BOOLEAN, chunks : Seq(Data)]
    <3>1. <<>> \in Seq(Data)
      OBVIOUS
    <3> QED
      BY <3>1 DEF Blosc!NoSuperChunk
  <2>5. other.schunk \in [open : BOOLEAN, chunks : Seq(Data)]
    BY DEF Blosc!Codec
  <2>6. CASE clone = [codec |-> whole, done |-> TRUE]
    BY <1>2, <2>1, <2>3, <2>5, <2>6
  <2>7. CASE clone = [codec |-> k, done |-> FALSE] /\ other.schunk.open
    BY <1>2, <2>1, <2>7 DEF Blosc!NoSuperChunk
  <2>8. CASE clone = [codec |-> half, done |-> FALSE] /\ other.schunk.chunks # <<>>
    <3>1. half \in Blosc!Codec /\ half.schunk = Blosc!NoSuperChunk /\ ContextsKnown(half)
      BY <2>3, <2>4
    <3>2. other.schunk # Blosc!NoSuperChunk
      BY <2>8 DEF Blosc!NoSuperChunk
    <3> QED
      BY <2>1, <2>8, <3>1, <3>2
  <2>9. \/ clone = [codec |-> whole, done |-> TRUE]
        \/ clone = [codec |-> k, done |-> FALSE] /\ other.schunk.open
        \/ clone = [codec |-> half, done |-> FALSE] /\ other.schunk.chunks # <<>>
    <3> HIDE DEF other
    <3> QED
      BY <2>1, Zenon DEF Blosc!CloneFrom
  <2> QED
    BY <2>6, <2>7, <2>8, <2>9
<1>3. CASE Blosc!Assign(o, p)
  <2> DEFINE k == [codec[o] EXCEPT !.cfg = codec[p].cfg, !.had = @ \cup {codec[p].cfg}]
  <2>1. /\ k \in Blosc!Codec /\ k.cfg = codec[p].cfg /\ k.schunk = codec[o].schunk
        /\ k.contexts = codec[o].contexts /\ k.had = codec[o].had \cup {k.cfg}
    BY DEF Blosc!Codec
  <2>2. ContextsKnown(k)
    BY <2>1 DEF ContextsKnown, Blosc!ContextsOwn
  <2> QED
    BY <1>2, <1>3, <2>1, <2>2 DEF Blosc!Assign
<1>4. CASE Blosc!Clone(o, p, Blosc!Constructed(codec[p].cfg)) /\ answer' = Blosc!Done
  <2>1. codec[p].cfg \in Configs
    BY DEF Blosc!Codec
  <2>2. /\ Blosc!Constructed(codec[p].cfg) \in Blosc!Codec
        /\ ContextsKnown(Blosc!Constructed(codec[p].cfg))
    BY <2>1, BloscConstructedType, CurrentIsKnown
  <2>3. Blosc!Constructed(codec[p].cfg).cfg = codec[p].cfg
    BY DEF Blosc!Constructed
  <2> QED
    BY <1>2, <1>4, <2>2, <2>3
<1> QED
  BY <1>1, <1>3, <1>4 DEF Blosc!CopyConstruct

LEMMA CopyStorageKeeps ==
  ASSUME StorageInv, NEW o \in Owners, NEW p \in Owners, CopyStorage(o, p)
  PROVE  StorageInv'
<1>1. /\ left' \in 0..CallsAllowed /\ UNCHANGED <<request, strategy, numStates>>
      /\ call = Zfp!NoCall /\ filling = NotFilling /\ filling' = NotFilling
      /\ elemCount' = [elemCount EXCEPT ![o] = elemCount[p]]
  BY ClientKeeps DEF CopyStorage
<1>2. elemCount' \in [Owners -> Layouts \cup {[c \in Chunks |-> 0]}]
  BY <1>1 DEF StorageInv, TypeOK
<1>3. FillingFits'
  BY <1>1 DEF FillingFits
\* A copy of the bytes is decoded under a copy of the configuration.
<1>4. ASSUME Compressed, bytes' = [bytes EXCEPT ![o] = bytes[p]],
             \A q \in Owners : codec'[q].cfg = IF q = o THEN codec[p].cfg ELSE codec[q].cfg
      PROVE  BytesFit'
  <2>1. bytes' \in [Owners -> [Chunks -> {NoBytes} \cup [data : Data]
                                           \cup [data : Data, stream : Zfp!Stream]]]
    BY <1>4 DEF StorageInv, BytesFit
  <2>2. ASSUME NEW q \in Owners, NEW c \in Chunks, bytes'[q][c] # NoBytes
        PROVE  /\ elemCount'[q][c] > 0
               /\ \E d \in Data : bytes'[q][c] = EncodedFor(codec'[q].cfg, elemCount'[q][c], d)
    <3> DEFINE r == IF q = o THEN p ELSE q
    <3>1. bytes'[q] = bytes[r] /\ elemCount'[q] = elemCount[r] /\ codec'[q].cfg = codec[r].cfg
      BY <1>1, <1>2, <1>4, <2>1 DEF StorageInv, BytesFit, TypeOK
    <3> QED
      BY <2>2, <3>1 DEF StorageInv, BytesFit
  <2>3. Compressed' /\ \A cfg, n, d : EncodedFor(cfg, n, d)' = EncodedFor(cfg, n, d)
    BY <1>1, <1>4 DEF Compressed, EncodedFor
  <2> QED
    BY <2>1, <2>2, <2>3 DEF BytesFit
<1>5. ASSUME call' = Zfp!NoCall, CodecsFit', BytesFit',
             strategy = "SuperChunk" => codec' \in [Owners -> Blosc!Codec]
      PROVE  StorageInv'
  <2>1. CallFits' /\ RunsFit'
    BY <1>5, NoCallIsNone
  <2>2. \A q \in Owners, e \in Chunks : bytes'[q][e] # NoBytes => e \in HasChunks(q)'
    BY <1>5 DEF BytesFit, HasChunks
  <2>3. TypeOK'
    BY <1>1, <1>2, <1>5, <2>2 DEF StorageInv, TypeOK, CodecsFit, SuperChunks, CallsAllowed
  <2> QED
    BY <1>1, <1>3, <1>5, <2>1, <2>3 DEF StorageInv, NoRequest
<1>6. CASE strategy = "Zfp"
  <2>1. /\ codec' = [codec EXCEPT ![o] = Zfp!CopyOf(codec[p])]
        /\ bytes' = [bytes EXCEPT ![o] = bytes[p]] /\ call' = call
    BY <1>6 DEF CopyStorage, Zfp!Copy
  <2>2. codec \in [Owners -> Zfp!Codec] /\ \A q \in Owners : BitstreamFits(codec[q])
    BY <1>6 DEF StorageInv, CodecsFit
  <2>3. /\ Zfp!CopyOf(codec[p]) \in Zfp!Codec /\ Zfp!CopyOf(codec[p]).cfg = codec[p].cfg
        /\ BitstreamFits(Zfp!CopyOf(codec[p]))
    BY <2>2, CopyOfType
  <2>4. CodecsFit'
    BY <1>1, <1>6, <2>1, <2>2, <2>3 DEF CodecsFit
  <2>5. BytesFit'
    BY <1>4, <1>6, <2>1, <2>2, <2>3 DEF Compressed
  <2> QED
    BY <1>1, <1>5, <1>6, <2>1, <2>4, <2>5
<1>7. CASE strategy # "Zfp"
  <2>1. strategy \in {"Blosc", "SuperChunk"} /\ (Blosc!Assign(o, p) \/ Blosc!CopyConstruct(o, p))
    BY <1>7 DEF CopyStorage, Compressed, SuperChunks
  <2>2. codec \in [Owners -> Blosc!Codec]
    BY <2>1 DEF StorageInv, TypeOK
  <2>3. /\ codec' \in [Owners -> Blosc!Codec] /\ call' = Zfp!NoCall
        /\ \A q \in Owners : ContextsKnown(codec'[q])
    <3>1. \A q \in Owners : ContextsKnown(codec[q])
      BY <1>7 DEF StorageInv, CodecsFit
    <3> QED
      BY <1>1, <2>1, <2>2, <3>1, BloscCopy
  <2>4. CASE strategy = "Blosc"
    <3>1. \A q \in Owners : ContextsCurrent(codec[q])
      BY <2>4 DEF StorageInv, CodecsFit
    <3>2. /\ \A q \in Owners : q # o => codec'[q] = codec[q]
          /\ bytes' = [bytes EXCEPT ![o] = bytes[p]]
          /\ codec'[o].schunk = codec[p].schunk /\ codec'[o].cfg = codec[p].cfg
          /\ codec'[o].had = {codec'[o].cfg} /\ codec'[o].contexts = Blosc!NoContexts
      BY <2>1, <2>2, <3>1, CurrentIsKnown, BloscCopy DEF ContextsCurrent
    <3>3. ContextsCurrent(codec'[o])
      BY <3>1, <3>2 DEF ContextsCurrent, Blosc!NoContexts
    <3>4. CodecsFit'
      BY <1>1, <2>3, <2>4, <3>1, <3>2, <3>3 DEF CodecsFit
    <3>5. BytesFit'
      BY <1>4, <2>4, <3>2 DEF Compressed
    <3> QED
      BY <1>5, <2>3, <2>4, <3>4, <3>5
  <2>5. CASE strategy = "SuperChunk"
    <3>1. \A q \in Owners, c \in Chunks : bytes[q][c] = NoBytes
      BY <2>5 DEF StorageInv, BytesFit, Compressed
    <3>2. /\ bytes' \in {bytes, [bytes EXCEPT ![o] = bytes[p]]}
      BY <2>1, <2>2, <2>5, BloscCopy DEF StorageInv, CodecsFit
    <3>3. /\ bytes' \in [Owners -> [Chunks -> {NoBytes} \cup [data : Data]
                                           \cup [data : Data, stream : Zfp!Stream]]]
          /\ \A q \in Owners, c \in Chunks : bytes'[q][c] = NoBytes
      BY <3>1, <3>2 DEF StorageInv, BytesFit
    <3>4. BytesFit' /\ CodecsFit'
      BY <1>1, <2>3, <2>5, <3>3 DEF BytesFit, CodecsFit
    <3> QED
      BY <1>5, <2>3, <3>4
  <2> QED
    BY <2>1, <2>4, <2>5
<1> QED
  BY <1>6, <1>7

\* A call on the super-chunk leaves the bytes of chunks alone.
SuperChunksKept ==
  /\ codec' \in [Owners -> Blosc!Codec]
  /\ \A o \in Owners : ContextsKnown(codec'[o])
  /\ call' = Zfp!NoCall /\ bytes' = bytes

LEMMA SuperChunkCallType ==
  ASSUME codec \in [Owners -> Blosc!Codec], \A q \in Owners : ContextsKnown(codec[q]),
         NEW o \in Owners, SuperChunkCall(o)
  PROVE  SuperChunksKept
<1>0. ASSUME NEW m \in Blosc!Codec, ContextsKnown(m), codec' = [codec EXCEPT ![o] = m],
             NEW how, Blosc!End(how)
      PROVE  SuperChunksKept
  BY <1>0 DEF SuperChunksKept, Blosc!End, Blosc!NoCall, Zfp!NoCall
<1> USE DEF Blosc!End, Blosc!SuperChunk, Blosc!NoCall, Zfp!NoCall
<1>1. Blosc!NoContexts \in [Blosc!Directions -> {Blosc!NoContext}
                              \cup {Blosc!Context(cfg) : cfg \in Configs}]
  BY DEF Blosc!NoContexts
<1>2. CASE Blosc!Refuse
  BY <1>2 DEF Blosc!Refuse, SuperChunksKept
<1>3. CASE Blosc!ResetStorage(o)
  <2> DEFINE m == Blosc!WithSuperChunk(codec[o], Blosc!OpenSuperChunk(<<>>))
  <2>1. <<>> \in Seq(Data)
    OBVIOUS
  <2>2. m \in Blosc!Codec
    BY <1>1, <2>1 DEF Blosc!WithSuperChunk, Blosc!OpenSuperChunk, Blosc!Codec
  <2>4. m.cfg = codec[o].cfg /\ m.had = {codec[o].cfg} /\ m.contexts = Blosc!NoContexts
    BY DEF Blosc!WithSuperChunk, Blosc!Codec
  <2>5. ContextsKnown(m)
    BY <2>4, NoContextsKnown
  <2>3. CASE Blosc!End(Blosc!Done) /\ codec' = [codec EXCEPT ![o] = m]
    BY <1>0, <2>2, <2>3, <2>5
  <2> QED
    BY <1>2, <1>3, <2>3 DEF Blosc!ResetStorage
<1>4. ASSUME NEW d \in Data, Blosc!AppendChunk(o, d)
      PROVE  SuperChunksKept
  <2> DEFINE list == Append(codec[o].schunk.chunks, d)
             m == [codec[o] EXCEPT !.schunk = [codec[o].schunk EXCEPT !.chunks = list]]
  <2>1. list \in Seq(Data)
    BY DEF Blosc!Codec
  <2>2. /\ m \in Blosc!Codec
        /\ m.cfg = codec[o].cfg /\ m.had = codec[o].had /\ m.contexts = codec[o].contexts
    BY <2>1 DEF Blosc!Codec
  <2>4. ContextsKnown(m)
    BY <2>2 DEF ContextsKnown, Blosc!ContextsOwn
  <2>3. CASE /\ Blosc!End(Blosc!Done)
             /\ codec' = [codec EXCEPT ![o].schunk.chunks = Append(@, d)]
    <3>1. codec' = [codec EXCEPT ![o] = m]
      BY <2>3 DEF Blosc!Codec
    <3> QED
      BY <1>0, <2>2, <2>3, <2>4, <3>1
  <2> QED
    BY <1>2, <1>4, <2>3 DEF Blosc!AppendChunk
<1>5. ASSUME NEW c \in Chunks, Blosc!ReadChunk(o, c)
      PROVE  SuperChunksKept
  BY <1>2, <1>5 DEF Blosc!ReadChunk, SuperChunksKept
<1>6. ASSUME NEW c \in Chunks, NEW d \in Data, Blosc!WriteChunk(o, c, d)
      PROVE  SuperChunksKept
  <2> DEFINE contexts == [codec[o].contexts EXCEPT !.compress =
                            IF @ = Blosc!NoContext THEN Blosc!Context(codec[o].cfg) ELSE @]
             created == [codec[o] EXCEPT !.contexts = contexts]
             list == [codec[o].schunk.chunks EXCEPT ![c + 1] = d]
             written == [created EXCEPT !.schunk = [codec[o].schunk EXCEPT !.chunks = list]]
  <2>1. contexts \in [Blosc!Directions -> {Blosc!NoContext}
                                 \cup {Blosc!Context(cfg) : cfg \in Configs}]
    <3>1. /\ codec[o].cfg \in Configs
          /\ codec[o].contexts \in [Blosc!Directions -> {Blosc!NoContext}
                                       \cup {Blosc!Context(cfg) : cfg \in Configs}]
      BY DEF Blosc!Codec
    <3> QED
      BY <3>1 DEF Blosc!Directions
  <2>2. /\ created \in Blosc!Codec /\ created.schunk = codec[o].schunk
        /\ created.cfg = codec[o].cfg /\ created.had = codec[o].had
        /\ created.contexts = contexts
    BY <2>1 DEF Blosc!Codec
  <2>8. ContextsKnown(created)
    <3>1. /\ codec[o].contexts \in [Blosc!Directions -> {Blosc!NoContext}
                                       \cup {Blosc!Context(cfg) : cfg \in Configs}]
          /\ ContextsKnown(codec[o])
      BY DEF Blosc!Codec
    <3>2. \A name \in Blosc!Directions :
            contexts[name] \in {codec[o].contexts[name], Blosc!Context(codec[o].cfg)}
      BY <3>1 DEF Blosc!Directions
    <3> HIDE DEF contexts, created
    <3> QED
      BY <2>2, <3>1, <3>2 DEF ContextsKnown, Blosc!ContextsOwn
  <2>3. list \in Seq(Data)
    <3> DEFINE old == codec[o].schunk.chunks
    <3>1. old \in Seq(Data)
      BY DEF Blosc!Codec
    <3>2. Len(old) \in Nat /\ old \in [1..Len(old) -> Data]
      BY <3>1
    <3>3. list \in [1..Len(old) -> Data]
      BY <3>2
    <3> QED
      BY <3>2, <3>3
  <2>4. /\ written \in Blosc!Codec
        /\ written.cfg = created.cfg /\ written.had = created.had
        /\ written.contexts = created.contexts
    BY <2>2, <2>3 DEF Blosc!Codec
  <2>9. ContextsKnown(written)
    BY <2>4, <2>8 DEF ContextsKnown, Blosc!ContextsOwn
  <2>5. CASE Blosc!Refuse
    BY <1>2, <2>5
  <2>6. CASE /\ ~Blosc!Refuse
             /\ codec' \in {[codec EXCEPT ![o] = created], [codec EXCEPT ![o] = written]}
             /\ Blosc!End(Blosc!Done) \/ Blosc!End(Blosc!Threw)
    <3> HIDE DEF created, written
    <3> QED
      BY <1>0, <2>2, <2>4, <2>6, <2>8, <2>9
  <2>7. \/ Blosc!Refuse
        \/ /\ codec' \in {[codec EXCEPT ![o] = created], [codec EXCEPT ![o] = written]}
           /\ Blosc!End(Blosc!Done) \/ Blosc!End(Blosc!Threw)
    <3>1. created = [codec[o] EXCEPT !.contexts.compress =
                       IF @ = Blosc!NoContext THEN Blosc!Context(codec[o].cfg) ELSE @]
      BY DEF Blosc!Codec
    <3>2. written = [created EXCEPT !.schunk.chunks[c + 1] = d]
      BY <2>2 DEF Blosc!Codec
    <3> HIDE DEF created, written
    <3> QED
      BY <1>6, <3>1, <3>2 DEF Blosc!WriteChunk
  <2> QED
    BY <2>5, <2>6, <2>7
<1> QED
  BY <1>3, <1>4, <1>5, <1>6 DEF SuperChunkCall

LEMMA SuperChunkCallKeeps ==
  ASSUME StorageInv, NEW o \in Owners, SuperChunkCall(o)
  PROVE  StorageInv'
<1>1. /\ left' \in 0..CallsAllowed /\ UNCHANGED <<request, strategy, numStates, elemCount>>
      /\ filling' = NotFilling /\ strategy = "SuperChunk"
  BY ClientKeeps DEF SuperChunkCall, SuperChunks
<1>2. SuperChunksKept
  BY <1>1, SuperChunkCallType DEF StorageInv, TypeOK, CodecsFit
<1>3. CallFits' /\ RunsFit'
  BY <1>2, NoCallIsNone DEF SuperChunksKept
<1>4. FillingFits' /\ CodecsFit'
  BY <1>1, <1>2 DEF FillingFits, CodecsFit, SuperChunksKept
<1>5. BytesFit'
  BY <1>1, <1>2 DEF StorageInv, BytesFit, Compressed, SuperChunksKept
<1>6. TypeOK'
  BY <1>1, <1>2
     DEF StorageInv, TypeOK, HasChunks, SuperChunksKept, SuperChunks, CallsAllowed
<1> QED
  BY <1>1, <1>3, <1>4, <1>5, <1>6 DEF StorageInv, NoRequest

LEMMA SelectionType ==
  ASSUME NEW asked \in Requests
  PROVE  CreateSelection(asked) \in {"None", "Dense", "Blosc", "Zfp"}
BY ConfigsAssumption DEF CreateSelection, Resolve

LEMMA CreateKeeps == StorageInv /\ Create => StorageInv'
<1> SUFFICES ASSUME StorageInv, Create PROVE StorageInv'
  OBVIOUS
<1>1. /\ request \in Requests /\ strategy = "None"
      /\ request' = NoRequest /\ UNCHANGED <<bytes, call, answer, elemCount, filling, left>>
  BY DEF Create, StorageInv, TypeOK
<1>2. /\ call = Zfp!NoCall /\ filling = NotFilling
      /\ \A o \in Owners, c \in Chunks : bytes[o][c] = NoBytes
  BY <1>1 DEF StorageInv, CallFits, FillingFits, BytesFit, Compressed
<1>3. /\ strategy' \in {"None", "Dense", "Blosc", "Zfp"}
      /\ strategy' = "Zfp" =>
           codec' \in [Owners -> Zfp!Codec] /\ \A o \in Owners : BitstreamFits(codec'[o])
      /\ strategy' = "Blosc" =>
           codec' \in [Owners -> Blosc!Codec] /\ \A o \in Owners : ContextsCurrent(codec'[o])
      /\ strategy' # "Zfp" => \A o \in Owners : ContextsKnown(codec'[o])
  <2> DEFINE kind == CreateSelection(request)
  <2>1. kind \in {"None", "Dense", "Blosc", "Zfp"}
    BY <1>1, SelectionType
  <2>2. request.configs \in [Owners -> Configs]
    BY <1>1, ConfigsAssumption
  <2>3. CASE UNCHANGED <<strategy, numStates, codec>>
    BY <1>1, <2>3 DEF StorageInv, CodecsFit
  <2>4. CASE /\ strategy' = kind
             /\ codec' = [o \in Owners |-> Constructed(kind, request.configs[o])]
    <3>1. ASSUME NEW o \in Owners
          PROVE  /\ kind = "Zfp" => codec'[o] = Zfp!Constructed(request.configs[o])
                 /\ kind # "Zfp" => codec'[o] = Blosc!Constructed(request.configs[o])
      BY <2>4 DEF Constructed
    <3>2. ASSUME NEW o \in Owners
          PROVE  /\ kind = "Zfp" => codec'[o] \in Zfp!Codec /\ BitstreamFits(codec'[o])
                 /\ kind # "Zfp" => /\ codec'[o] \in Blosc!Codec /\ ContextsCurrent(codec'[o])
                                    /\ ContextsKnown(codec'[o])
      BY <2>2, <3>1, ZfpConstructedType, BloscConstructedType, CurrentIsKnown
    <3> HIDE DEF kind
    <3>3. /\ kind = "Zfp" => codec' \in [Owners -> Zfp!Codec]
          /\ kind = "Blosc" => codec' \in [Owners -> Blosc!Codec]
      BY <2>4, <3>2
    <3> QED
      BY <2>1, <2>4, <3>2, <3>3
  <2> QED
    BY <2>3, <2>4 DEF Create
<1>4. CallFits' /\ RunsFit'
  BY <1>1, <1>2, NoCallIsNone
<1>5. FillingFits' /\ CodecsFit'
  BY <1>1, <1>2, <1>3 DEF FillingFits, CodecsFit
<1>6. BytesFit'
  BY <1>1, <1>2 DEF StorageInv, BytesFit
<1>7. TypeOK'
  BY <1>1, <1>2, <1>3 DEF StorageInv, TypeOK, SuperChunks
<1> QED
  BY <1>1, <1>4, <1>5, <1>6, <1>7 DEF StorageInv

LEMMA InitStorage == Init => StorageInv
<1> SUFFICES ASSUME Init PROVE StorageInv
  OBVIOUS
<1>1. PICK asked \in Requests :
        /\ codec = [o \in Owners |-> Blosc!Constructed(asked.configs[o])]
        /\ \/ request = asked /\ strategy = "None" /\ left = MaxCalls
           \/ /\ request = NoRequest /\ strategy = "SuperChunk"
              /\ left = MaxSuperChunkCalls
  BY DEF Init
<1>2. /\ bytes = [o \in Owners |-> Zfp!NoChunkStored] /\ call = Zfp!NoCall
      /\ elemCount = [o \in Owners |-> [c \in Chunks |-> 0]]
      /\ filling = NotFilling
  BY DEF Init
<1>3. codec \in [Owners -> Blosc!Codec] /\ \A o \in Owners : ContextsKnown(codec[o])
  BY <1>1, ConfigsAssumption, BloscConstructedType, CurrentIsKnown
<1>4. \A o \in Owners, c \in Chunks : bytes[o][c] = NoBytes
  BY <1>2 DEF Zfp!NoChunkStored
<1>5. CodecsFit /\ CallFits /\ FillingFits
  BY <1>1, <1>2, <1>3 DEF CodecsFit, CallFits, FillingFits
<1>6. BytesFit
  BY <1>2, <1>4 DEF BytesFit, Zfp!NoChunkStored
<1>7. RunsFit
  BY <1>2 DEF RunsFit, Zfp!StreamsFit, Zfp!At, ContextFits, Blosc!At,
              Zfp!NoCall, Blosc!NoCall
<1>8. TypeOK
  BY <1>1, <1>2, <1>3, <1>4, BoundAssumption DEF TypeOK, SuperChunks
<1> QED
  BY <1>1, <1>5, <1>6, <1>7, <1>8 DEF StorageInv

LEMMA NextStorage == StorageInv /\ [Next]_vars => StorageInv'
<1> SUFFICES ASSUME StorageInv, [Next]_vars PROVE StorageInv'
  OBVIOUS
<1>1. CASE UNCHANGED vars
  <2> USE <1>1 DEF vars, codecVars
  <2>1. TypeOK'
    BY DEF StorageInv, TypeOK, HasChunks, SuperChunks
  <2>2. CodecsFit' /\ CallFits' /\ FillingFits'
    BY DEF StorageInv, CodecsFit, CallFits, FillingFits, HasChunks, Compressed
  <2>3. BytesFit'
    BY DEF StorageInv, BytesFit, Compressed, EncodedFor
  <2>4. RunsFit'
    BY DEF StorageInv, RunsFit, Zfp!StreamsFit, Zfp!At, Zfp!Keeps, Zfp!Needed,
           ContextFits, Blosc!At, Blosc!Keeps
  <2> QED
    BY <2>1, <2>2, <2>3, <2>4 DEF StorageInv, NoRequest
<1> QED
  BY <1>1, CreateKeeps, InitialiseKeeps, StoreChunkKeeps, LoadChunkKeeps, CopyStorageKeeps,
     SuperChunkCallKeeps, FillNextKeeps, CodecStepKeeps
     DEF Next, Step

(* The invariant holds: a codec is never left with what its next call      *)
(* cannot use, and bytes always match the parameters that will decode them. *)
LEMMA StorageInvariant == Spec => []StorageInv
BY InitStorage, NextStorage, PTL DEF Spec

(* What back ends and their codecs keep stays within the ranges the code   *)
(* gives it, whatever library calls fail.                                  *)
THEOREM CodecTypeCorrect == Spec => []TypeOK
<1>1. StorageInv => TypeOK
  BY DEF StorageInv
<1> QED
  BY <1>1, StorageInvariant, PTL

(* Every run of ZFP is given the parameters of the codec's configuration   *)
(* and a buffer that fits, for all chunk sizes, modes, numbers of threads  *)
(* and orders of calls, failures and copies.                               *)
THEOREM StreamsAlwaysFit == Spec => []StreamsFit
<1>1. StorageInv => StreamsFit
  BY DEF StorageInv, RunsFit, StreamsFit
<1> QED
  BY <1>1, StorageInvariant, PTL

(* For all configurations and orders of calls, failures, copies and        *)
(* assignments, Blosc compresses and decompresses chunks under the codec's *)
(* own configuration, and a context kept for the super-chunk is of one the *)
(* codec had since its contexts were last dropped.                         *)
THEOREM ContextsAlwaysFit == Spec => []ContextsFit
<1>1. StorageInv => ContextsFit
  BY DEF StorageInv, RunsFit, ContextFits, ContextsFit, Blosc!ContextsFit, CodecsFit,
         ContextsKnown
<1> QED
  BY <1>1, StorageInvariant, PTL

-------------------------------------------------------------------------------
(* The refinement: what each step does to what the chunks hold.            *)

Stutter == UNCHANGED <<Held, answer>>

LEMMA HeldInBytes ==
  ASSUME ~SuperChunks, NEW o \in Owners, NEW c \in Chunks
  PROVE  Held[o][c] = IF bytes[o][c] = NoBytes THEN NoBytes ELSE bytes[o][c].data
BY DEF Held

LEMMA SameBytesHeld ==
  ASSUME ~SuperChunks, ~SuperChunks', bytes' = bytes
  PROVE  Held' = Held
BY DEF Held

LEMMA HeldIsFunction ==
  /\ Held = [o \in Owners |-> [c \in Chunks |-> Held[o][c]]]
  /\ Held' = [o \in Owners |-> [c \in Chunks |-> Held'[o][c]]]
BY DEF Held

LEMMA InitPromise == Init => Promise!Init
<1> SUFFICES ASSUME Init PROVE Promise!Init
  OBVIOUS
<1>1. \A o \in Owners, c \in Chunks : bytes[o][c] = NoBytes
  BY DEF Init, Zfp!NoChunkStored
<1>2. \A o \in Owners : Len(Blosc!SuperChunk(o).chunks) = 0
  BY DEF Init, Blosc!Constructed, Blosc!NoSuperChunk, Blosc!SuperChunk
<1>3. \A c \in Chunks : ~(c < 0)
  BY ChunksAssumption
<1>4. Held = [o \in Owners |-> [c \in Chunks |-> NoBytes]]
  BY <1>1, <1>2, <1>3 DEF Held
<1> QED
  BY <1>4 DEF Init, Promise!Init, Promise!Empty, Promise!Done, Zfp!Done

LEMMA CreatePromise == StorageInv /\ Create => Stutter
<1> SUFFICES ASSUME StorageInv, Create PROVE Stutter
  OBVIOUS
<1>1. /\ request \in Requests /\ strategy = "None"
      /\ UNCHANGED <<bytes, answer>>
  BY DEF Create, StorageInv, TypeOK
<1>2. strategy' \in {"None", "Dense", "Blosc", "Zfp"}
  BY <1>1, SelectionType DEF Create
<1> QED
  BY <1>1, <1>2, SameBytesHeld DEF SuperChunks, Stutter

LEMMA InitialisePromise ==
  ASSUME StorageInv, NEW o \in Owners, NEW d \in Initial, NEW layout \in Layouts,
         Initialise(o, d, layout)
  PROVE  Promise!Clear(o)
<1>1. /\ bytes' = [bytes EXCEPT ![o] = Zfp!NoChunkStored] /\ answer' = Zfp!Done
      /\ strategy' = strategy /\ Compressed
  BY ClientKeeps DEF Initialise, Zfp!Forget
<1>2. ~SuperChunks /\ ~SuperChunks'
  BY <1>1 DEF SuperChunks, Compressed
<1>3. \A p \in Owners, c \in Chunks :
        bytes'[p][c] = IF p = o THEN NoBytes ELSE bytes[p][c]
  BY <1>1 DEF StorageInv, BytesFit, Zfp!NoChunkStored
<1>4. Held' = [Held EXCEPT ![o] = [c \in Chunks |-> NoBytes]]
  BY <1>2, <1>3 DEF Held
<1> QED
  BY <1>1, <1>4 DEF Promise!Clear, Promise!Empty, Promise!Done, Zfp!Done

LEMMA StartPromise ==
  ASSUME StorageInv, Compressed, strategy' = strategy,
         NEW name, NEW o, NEW c, NEW d, StartCall(name, o, c, d)
  PROVE  Promise!Begin \/ (name = "decompress" /\ Promise!Throw)
<1>1. Zfp!Start(name, o, c, elemCount[o][c], d)
  BY StartIsStart
<1>2. /\ bytes' = bytes
      /\ answer' = Zfp!Pending \/ (name = "decompress" /\ answer' = Zfp!Threw)
  BY <1>1 DEF Zfp!Start, Zfp!Throw
<1>3. Held' = Held
  BY <1>2, SameBytesHeld DEF SuperChunks, Compressed
<1> QED
  BY <1>2, <1>3 DEF Promise!Begin, Promise!Throw, Promise!Pending, Promise!Threw,
                    Zfp!Pending, Zfp!Threw

\* What a step of a call is to the clients of the codec.
CallKeepsPromise ==
  \/ Stutter
  \/ call.name = "compress" /\ Promise!Store(call.owner, call.chunk, call.data)
  \/ call.name = "decompress" /\ Promise!Load(call.owner, call.chunk)
  \/ Promise!Throw

LEMMA CodecStepPromise ==
  StorageInv /\ CodecStep => CallKeepsPromise /\ (Promise!Next \/ Stutter)
<1> SUFFICES ASSUME StorageInv, CodecStep
             PROVE  CallKeepsPromise /\ (Promise!Next \/ Stutter)
  OBVIOUS
<1> DEFINE o == call.owner
           c == call.chunk
<1>1. CallGoesOn /\ Compressed /\ strategy' = strategy
  BY CodecStepFits DEF CodecStep
<1>2. ~SuperChunks /\ ~SuperChunks'
  BY <1>1 DEF SuperChunks, Compressed
<1>3. bytes \in [Owners -> [Chunks -> {NoBytes} \cup [data : Data]
                                        \cup [data : Data, stream : Zfp!Stream]]]
  BY DEF StorageInv, BytesFit
<1>4. CASE Zfp!Proceed("begin") \/ Zfp!Proceed("run")
  BY <1>2, <1>4, SameBytesHeld DEF Zfp!Proceed, Stutter, CallKeepsPromise
<1>5. CASE Zfp!Throw
  <2>1. Promise!Throw
    BY <1>2, <1>5, SameBytesHeld DEF Zfp!Throw, Promise!Throw, Zfp!Threw, Promise!Threw
  <2> QED
    BY <2>1 DEF Promise!Next, CallKeepsPromise
<1>6. CASE /\ call.name = "compress"
           /\ Zfp!StoreBytes(EncodedFor(Zfp!Keeps.cfg, call.elems, call.data))
  <2> DEFINE b == EncodedFor(Zfp!Keeps.cfg, call.elems, call.data)
  <2>1. call # Zfp!NoCall
    BY <1>6 DEF Zfp!NoCall
  <2>2. o \in Owners /\ c \in Chunks /\ call.data \in Data
    BY <1>6, <2>1 DEF StorageInv, CallFits, CallRecord
  <2>3. Zfp!Keeps.cfg \in Configs
    BY <1>1, <2>2, ConfigType DEF Zfp!Keeps
  <2>4. b # NoBytes /\ b.data = call.data
    BY <2>2, <2>3, EncodedType
  <2>5. bytes' = [bytes EXCEPT ![o][c] = b] /\ answer' = Zfp!Done
    BY <1>6 DEF Zfp!StoreBytes
  <2> HIDE DEF b
  <2>6. \A p \in Owners, e \in Chunks :
          bytes'[p][e] = IF p = o /\ e = c THEN b ELSE bytes[p][e]
    BY <1>3, <2>2, <2>5
  <2>7. Held' = [Held EXCEPT ![o][c] = call.data]
    <3>1. \A p \in Owners, e \in Chunks :
            Held'[p][e] = IF p = o /\ e = c THEN call.data ELSE Held[p][e]
      BY <1>2, <2>4, <2>6 DEF Held
    <3> QED
      BY <2>2, <3>1, HeldIsFunction
  <2>8. Promise!Store(o, c, call.data)
    BY <2>5, <2>7 DEF Promise!Store, Promise!Done, Zfp!Done
  <2> QED
    BY <1>6, <2>2, <2>8 DEF Promise!Next, CallKeepsPromise
<1>7. CASE call.name = "decompress" /\ Zfp!Answer(bytes[o][c].data)
  <2>1. call # Zfp!NoCall
    BY <1>7 DEF Zfp!NoCall
  <2>2. o \in Owners /\ c \in Chunks /\ bytes[o][c] # NoBytes
    BY <1>7, <2>1 DEF StorageInv, CallFits, CallRecord
  <2>3. Held[o][c] = bytes[o][c].data
    BY <1>2, <2>2, HeldInBytes
  <2>4. bytes[o][c].data \in Data
    BY <1>3, <2>2
  <2>5. Held' = Held
    BY <1>2, <1>7, SameBytesHeld DEF Zfp!Answer
  <2>6. Promise!Load(o, c)
    BY <1>7, <2>3, <2>4, <2>5, DataAssumption
       DEF Promise!Load, Zfp!Answer, Promise!Loaded, Zfp!Loaded
  <2> QED
    BY <1>7, <2>2, <2>6 DEF Promise!Next, CallKeepsPromise
<1> QED
  BY <1>1, <1>4, <1>5, <1>6, <1>7 DEF CallGoesOn

\* What a copy is to the clients of the codecs.
CopyKeepsPromise(o, p) ==
  \/ Promise!Copy(o, p)
  \/ SuperChunks /\ Promise!Throw
  \/ SuperChunks /\ Blosc!Assign(o, p) /\ Promise!Abandon(o)

LEMMA CopyStoragePromise ==
  ASSUME StorageInv, NEW o \in Owners, NEW p \in Owners, CopyStorage(o, p)
  PROVE  CopyKeepsPromise(o, p) /\ Promise!Next
<1> USE DEF CopyKeepsPromise
<1>1. strategy' = strategy
  BY ClientKeeps DEF CopyStorage
<1>2. bytes \in [Owners -> [Chunks -> {NoBytes} \cup [data : Data]
                                        \cup [data : Data, stream : Zfp!Stream]]]
  BY DEF StorageInv, BytesFit
<1>3. ASSUME answer' = Zfp!Done, ~SuperChunks, bytes' = [bytes EXCEPT ![o] = bytes[p]]
      PROVE  Promise!Copy(o, p)
  <2>1. \A q \in Owners, c \in Chunks :
          bytes'[q][c] = IF q = o THEN bytes[p][c] ELSE bytes[q][c]
    BY <1>2, <1>3
  <2>2. ~SuperChunks'
    BY <1>1, <1>3 DEF SuperChunks
  <2>3. Held' = [Held EXCEPT ![o] = Held[p]]
    <3>1. \A q \in Owners, c \in Chunks :
            Held'[q][c] = IF q = o THEN Held[p][c] ELSE Held[q][c]
      BY <1>3, <2>1, <2>2 DEF Held
    <3> QED
      BY <3>1, HeldIsFunction
  <2> QED
    BY <1>3, <2>3 DEF Promise!Copy, Promise!Done, Zfp!Done
<1>4. CASE strategy = "Zfp"
  <2>1. answer' = Zfp!Done /\ bytes' = [bytes EXCEPT ![o] = bytes[p]]
    BY <1>4 DEF CopyStorage, Zfp!Copy
  <2> QED
    BY <1>3, <1>4, <2>1 DEF SuperChunks, Promise!Next
<1>5. CASE strategy # "Zfp"
  <2>1. strategy \in {"Blosc", "SuperChunk"} /\ (Blosc!Assign(o, p) \/ Blosc!CopyConstruct(o, p))
    BY <1>5 DEF CopyStorage, Compressed, SuperChunks
  <2>2. codec \in [Owners -> Blosc!Codec]
    BY <2>1 DEF StorageInv, TypeOK
  <2>3. CASE strategy = "Blosc"
    <3>1. codec[p].schunk = Blosc!NoSuperChunk
      BY <2>3 DEF StorageInv, CodecsFit, ContextsCurrent
    <3>2. answer' = Zfp!Done /\ bytes' = [bytes EXCEPT ![o] = bytes[p]]
      BY <1>5, <2>1, <2>2, <3>1, BloscCopy DEF StorageInv, CodecsFit
    <3> QED
      BY <1>3, <2>3, <3>2 DEF SuperChunks, Promise!Next
  <2>4. CASE strategy = "SuperChunk"
    <3> DEFINE list(k) == k.schunk.chunks
               Shown(k) == [c \in Chunks |-> IF c < Len(list(k)) THEN list(k)[c + 1] ELSE NoBytes]
    <3>1. /\ Held = [q \in Owners |-> Shown(codec[q])]
          /\ Held' = [q \in Owners |-> Shown(codec'[q])]
      BY <1>1, <2>4 DEF Held, SuperChunks, Blosc!SuperChunk
    <3>2. \A q \in Owners : q # o => codec'[q] = codec[q]
      BY <1>5, <2>1, <2>2, BloscCopy DEF StorageInv, CodecsFit
    <3>3. Held' = [Held EXCEPT ![o] = Shown(codec'[o])]
      BY <3>1, <3>2
    <3>4. CASE answer' = Zfp!Done /\ codec'[o].schunk = codec[p].schunk
      <4>1. Held' = [Held EXCEPT ![o] = Held[p]]
        BY <3>1, <3>3, <3>4
      <4>2. Promise!Copy(o, p)
        BY <3>4, <4>1 DEF Promise!Copy, Promise!Done, Zfp!Done
      <4> QED
        BY <4>2 DEF Promise!Next
    <3>5. CASE answer' = Zfp!Threw /\ codec'[o].schunk = codec[o].schunk
      <4>1. Held' = Held
        BY <3>1, <3>3, <3>5
      <4>2. Promise!Throw
        BY <3>5, <4>1 DEF Promise!Throw, Promise!Threw, Zfp!Threw
      <4> QED
        BY <2>4, <4>2 DEF Promise!Next, SuperChunks
    <3>6. CASE answer' = Zfp!Threw /\ codec'[o].schunk = Blosc!NoSuperChunk
      <4>1. Len(list(codec'[o])) = 0
        BY <3>6 DEF Blosc!NoSuperChunk
      <4>2. Shown(codec'[o]) = [c \in Chunks |-> NoBytes]
        BY <4>1, ChunksAssumption
      <4>3. Held' = [Held EXCEPT ![o] = Promise!Empty]
        BY <3>3, <4>2 DEF Promise!Empty
      <4>4. Promise!Abandon(o)
        BY <3>6, <4>3 DEF Promise!Abandon, Promise!Threw, Zfp!Threw
      <4>5. CASE Blosc!Assign(o, p)
        BY <2>4, <4>4, <4>5 DEF Promise!Next, SuperChunks
      <4>6. CASE Blosc!Refuse
        BY <2>4, <3>5, <3>6, <4>6 DEF Blosc!Refuse
      <4>7. answer' # Blosc!Done
        BY <3>6 DEF Zfp!Threw, Blosc!Done
      <4> QED
        BY <2>1, <4>5, <4>6, <4>7 DEF Blosc!CopyConstruct
    <3>7. ContextsKnown(codec[o])
      BY <1>5 DEF StorageInv, CodecsFit
    <3> QED
      BY <2>1, <2>2, <3>4, <3>5, <3>6, <3>7, BloscCopy
  <2> QED
    BY <2>1, <2>3, <2>4
<1> QED
  BY <1>4, <1>5

LEMMA SuperChunkPromise ==
  ASSUME StorageInv, NEW o \in Owners, SuperChunkCall(o)
  PROVE  SuperChunkKeepsPromise(o) /\ Promise!Next
<1> DEFINE Kept == SuperChunkKeepsPromise(o) /\ Promise!Next
           Shown(list) == [c \in Chunks |-> IF c < Len(list) THEN list[c + 1] ELSE NoBytes]
           list == codec[o].schunk.chunks
<1>1. strategy = "SuperChunk" /\ strategy' = strategy
  BY ClientKeeps DEF SuperChunkCall, SuperChunks
<1>2. codec \in [Owners -> Blosc!Codec]
  BY <1>1 DEF StorageInv, TypeOK
<1>3. list \in Seq(Data) /\ Len(list) \in Nat
  BY <1>2 DEF Blosc!Codec
<1>4. /\ Held = [q \in Owners |-> Shown(codec[q].schunk.chunks)]
      /\ Held' = [q \in Owners |-> Shown(codec'[q].schunk.chunks)]
  BY <1>1 DEF Held, SuperChunks, Blosc!SuperChunk
<1>5. CASE Blosc!Refuse
  <2>1. Held' = Held
    BY <1>4, <1>5 DEF Blosc!Refuse
  <2>2. Promise!Throw
    BY <1>5, <2>1 DEF Blosc!Refuse, Blosc!End, Promise!Throw, Promise!Threw, Blosc!Threw
  <2> QED
    BY <2>2 DEF Promise!Next, SuperChunkKeepsPromise
<1>6. ASSUME NEW new, \A q \in Owners : codec'[q].schunk.chunks =
                                          IF q = o THEN new ELSE codec[q].schunk.chunks
      PROVE  Held' = [Held EXCEPT ![o] = Shown(new)]
  BY <1>4, <1>6
<1>7. CASE /\ Blosc!End(Blosc!Done)
           /\ codec' = [codec EXCEPT ![o] =
                          Blosc!WithSuperChunk(@, Blosc!OpenSuperChunk(<<>>))]
  <2>1. \A q \in Owners : codec'[q].schunk.chunks = IF q = o THEN <<>> ELSE codec[q].schunk.chunks
    BY <1>2, <1>7 DEF Blosc!WithSuperChunk, Blosc!OpenSuperChunk, Blosc!Codec
  <2>2. Shown(<<>>) = Promise!Empty
    BY ChunksAssumption DEF Promise!Empty
  <2>3. Promise!Clear(o)
    BY <1>6, <1>7, <2>1, <2>2 DEF Promise!Clear, Blosc!End, Blosc!Done, Promise!Done
  <2>4. Blosc!ResetStorage(o)
    BY <1>7 DEF Blosc!ResetStorage
  <2> QED
    BY <2>3, <2>4 DEF Promise!Next, SuperChunkKeepsPromise
<1>8. ASSUME NEW d \in Data, Blosc!AppendChunk(o, d),
             Len(list) \in Chunks, Blosc!End(Blosc!Done),
             codec' = [codec EXCEPT ![o].schunk.chunks = Append(@, d)]
      PROVE  Kept
  <2> DEFINE new == Append(list, d)
  <2>1. \A q \in Owners : codec'[q].schunk.chunks = IF q = o THEN new ELSE codec[q].schunk.chunks
    BY <1>2, <1>8 DEF Blosc!Codec
  <2>2. ASSUME NEW c \in Chunks
        PROVE  Shown(new)[c] = IF c = Len(list) THEN d ELSE Shown(list)[c]
    BY <1>3, ChunksAssumption
  <2>3. Shown(new) = [Shown(list) EXCEPT ![Len(list)] = d]
    BY <1>8, <2>2
  <2>4. Held' = [Held EXCEPT ![o][Len(list)] = d]
    <3>1. Held' = [Held EXCEPT ![o] = Shown(new)] /\ Held[o] = Shown(list)
      BY <1>4, <1>6, <2>1
    <3> HIDE DEF Shown
    <3> QED
      BY <2>3, <3>1
  <2>5. Promise!Store(o, Len(list), d)
    BY <1>8, <2>4 DEF Promise!Store, Blosc!End, Blosc!Done, Promise!Done
  <2> QED
    BY <1>8, <2>5 DEF Promise!Next, SuperChunkKeepsPromise, Blosc!SuperChunk
<1>9. ASSUME NEW c \in Chunks, Blosc!ReadChunk(o, c), c < Len(list), codec' = codec,
             Blosc!End(Blosc!Loaded(o, c, list[c + 1]))
      PROVE  Kept
  <2>1. Held' = Held /\ Held[o][c] = list[c + 1]
    BY <1>4, <1>9
  <2>2. list[c + 1] \in Data
    BY <1>3, <1>9, ChunksAssumption
  <2>3. Promise!Load(o, c)
    BY <1>9, <2>1, <2>2, DataAssumption
       DEF Promise!Load, Promise!Loaded, Blosc!Loaded, Blosc!End
  <2> QED
    BY <1>9, <2>3 DEF Promise!Next, SuperChunkKeepsPromise
<1>10. ASSUME NEW c \in Chunks, NEW d \in Data, Blosc!WriteChunk(o, c, d)
       PROVE  Kept
  <2> DEFINE created == [codec[o] EXCEPT !.contexts.compress =
                           IF @ = Blosc!NoContext THEN Blosc!Context(codec[o].cfg) ELSE @]
  <2>1. created.schunk = codec[o].schunk
    BY <1>2 DEF Blosc!Codec
  <2>2. CASE /\ c < Len(list) /\ Blosc!End(Blosc!Done)
             /\ codec' = [codec EXCEPT ![o] = [created EXCEPT !.schunk.chunks[c + 1] = d]]
    <3> DEFINE new == [list EXCEPT ![c + 1] = d]
    <3>1. created \in [cfg : Configs, had : SUBSET Configs, contexts : {created.contexts},
                       schunk : [open : BOOLEAN, chunks : Seq(Data)]]
      BY <1>2 DEF Blosc!Codec
    <3>2. \A q \in Owners :
            codec'[q].schunk.chunks = IF q = o THEN new ELSE codec[q].schunk.chunks
      BY <1>2, <2>1, <2>2, <3>1
    <3>3. Len(new) = Len(list) /\ \A i \in 1..Len(list) : new[i] = IF i = c + 1 THEN d ELSE list[i]
      BY <1>3
    <3>4. ASSUME NEW e \in Chunks
          PROVE  Shown(new)[e] = IF e = c THEN d ELSE Shown(list)[e]
      BY <1>3, <2>2, <3>3, ChunksAssumption
    <3>5. Shown(new) = [Shown(list) EXCEPT ![c] = d]
      BY <3>4
    <3>6. Held' = [Held EXCEPT ![o][c] = d]
      <4>1. Held' = [Held EXCEPT ![o] = Shown(new)] /\ Held[o] = Shown(list)
        BY <1>4, <1>6, <3>2
      <4> HIDE DEF Shown
      <4> QED
        BY <3>5, <4>1
    <3>7. Promise!Store(o, c, d)
      BY <2>2, <3>6 DEF Promise!Store, Blosc!End, Blosc!Done, Promise!Done
    <3> QED
      BY <1>10, <3>7 DEF Promise!Next, SuperChunkKeepsPromise
  <2>3. CASE Blosc!End(Blosc!Threw) /\ codec' = [codec EXCEPT ![o] = created]
    <3>1. \A q \in Owners : codec'[q].schunk = codec[q].schunk
      BY <1>2, <2>1, <2>3
    <3>2. Held' = Held
      BY <1>4, <3>1
    <3>3. Promise!Throw
      BY <2>3, <3>2 DEF Promise!Throw, Promise!Threw, Blosc!End, Blosc!Threw
    <3> QED
      BY <3>3 DEF Promise!Next, SuperChunkKeepsPromise
  <2> QED
    BY <1>5, <1>10, <2>2, <2>3 DEF Blosc!WriteChunk, Blosc!SuperChunk
<1> QED
  BY <1>5, <1>7, <1>8, <1>9, <1>10
     DEF SuperChunkCall, Blosc!ResetStorage, Blosc!AppendChunk, Blosc!ReadChunk, Blosc!SuperChunk

\* Every step is to the clients what it should be, and so allowed to them.
Kept == (StepsKeepPromise /\ Promise!Next) \/ (StepsKeepPromise /\ Stutter)

LEMMA StepPromise ==
  StorageInv /\ [Next]_vars => [StepsKeepPromise]_vars /\ [Promise!Next]_<<Held, answer>>
<1> SUFFICES ASSUME StorageInv, [Next]_vars PROVE Kept \/ UNCHANGED vars
  BY DEF Kept, Stutter, vars, codecVars, Held, SuperChunks, Blosc!SuperChunk
<1>1. CASE Create
  BY <1>1, CreatePromise DEF Kept, StepsKeepPromise, Stutter
<1>2. ASSUME NEW o \in Owners, NEW c \in Chunks, NEW d \in Data, StoreChunk(o, c, d)
      PROVE  Kept
  <2>1. Promise!Begin
    BY <1>2, ClientKeeps, StartPromise DEF StoreChunk
  <2> QED
    BY <1>2, <2>1 DEF Kept, StepsKeepPromise, Promise!Next
<1>3. ASSUME NEW o \in Owners, NEW c \in Chunks, LoadChunk(o, c)
      PROVE  Kept
  <2>1. Promise!Begin \/ Promise!Throw
    BY <1>3, ClientKeeps, StartPromise DEF LoadChunk
  <2> QED
    BY <1>3, <2>1 DEF Kept, StepsKeepPromise, Promise!Next
<1>4. CASE FillNext
  <2>1. Promise!Begin
    BY <1>4, StartPromise DEF FillNext, StorageInv, FillingFits
  <2> QED
    BY <1>4, <2>1 DEF Kept, StepsKeepPromise, Promise!Next
<1>5. ASSUME NEW o \in Owners, NEW d \in Initial, NEW layout \in Layouts,
             Initialise(o, d, layout)
      PROVE  Kept
  <2>1. Promise!Clear(o)
    BY <1>5, InitialisePromise
  <2> QED
    BY <1>5, <2>1 DEF Kept, StepsKeepPromise, Promise!Next
<1>6. ASSUME NEW o \in Owners, NEW p \in Owners, CopyStorage(o, p)
      PROVE  Kept
  <2>1. CopyKeepsPromise(o, p) /\ Promise!Next
    BY <1>6, CopyStoragePromise
  <2> QED
    BY <1>6, <2>1 DEF Kept, StepsKeepPromise, CopyKeepsPromise
<1>7. ASSUME NEW o \in Owners, SuperChunkCall(o)
      PROVE  Kept
  <2>1. SuperChunkKeepsPromise(o) /\ Promise!Next
    BY <1>7, SuperChunkPromise
  <2> QED
    BY <1>7, <2>1 DEF Kept, StepsKeepPromise
<1>8. CASE CodecStep
  <2>1. CallKeepsPromise /\ (Promise!Next \/ Stutter)
    BY <1>8, CodecStepPromise
  <2> QED
    BY <1>8, <2>1 DEF Kept, StepsKeepPromise, CallKeepsPromise, Stutter
<1> QED
  BY <1>1, <1>2, <1>3, <1>4, <1>5, <1>6, <1>7, <1>8 DEF Next, Step

(* Both codecs and the super-chunk keep chunks as the back ends take for   *)
(* granted, each call doing to the chunks what it is for and no more, for  *)
(* any number of back ends, chunks, configurations and calls.              *)
THEOREM CodecsImplementChunks == Spec => ImplementsCodedChunks
BY InitPromise, StepPromise, StorageInvariant, PTL
   DEF Spec, ImplementsCodedChunks, Promise!Spec, Promise!codedVars

-------------------------------------------------------------------------------
(* The back ends a register gets.                                          *)

LEMMA PowerFits ==
  ASSUME NEW m \in 0..IndexBits, NEW n \in 0..IndexBits, m < n
  PROVE  2^m < 2^n
<1> DEFINE one == 2^m
           less == 2^(n - m - 1)
<1>1. n - m \in 0..IndexBits /\ n - m - 1 \in 0..IndexBits /\ 1 \in 0..IndexBits
  BY WidthsAssumption
<1>2. one \in Nat \ {0} /\ less \in Nat \ {0}
  BY <1>1, PowersAssumption
<1>3. 2^(n - m) = 2 * less
  <2>1. 1 + (n - m - 1) = n - m /\ n - m <= IndexBits
    BY <1>1
  <2> QED
    BY <1>1, <2>1, PowersAssumption
<1>4. 2^n = one * 2^(n - m)
  <2>1. m + (n - m) = n /\ n <= IndexBits
    BY WidthsAssumption
  <2> QED
    BY <1>1, <2>1, PowersAssumption
<1>5. 2^n = one * (2 * less)
  BY <1>3, <1>4
<1> HIDE DEF one, less
<1>6. one * (2 * less) >= one * 2
  BY <1>2
<1> QED
  <2>1. one < one * (2 * less)
    BY <1>2, <1>6
  <2> QED
    BY <1>5, <2>1 DEF one

LEMMA CountFits ==
  ASSUME NEW q \in Nat, Supported(q)
  PROVE  NumStates(q) \in {0, 2^q}
<1>1. q \in 0..IndexBits /\ CountBits \in 0..IndexBits
  BY WidthsAssumption DEF Supported
<1>2. 2^q \in Nat \ {0} /\ 2^CountBits \in Nat \ {0}
  BY <1>1, PowersAssumption
<1>3. CASE q < CountBits
  <2>1. 2^q < 2^CountBits
    BY <1>1, <1>3, PowerFits
  <2> DEFINE a == 2^q
             b == 2^CountBits
  <2>2. a \in Nat /\ b \in Nat /\ a < b
    BY <1>2, <2>1
  <2> HIDE DEF a, b
  <2>3. (a % b) = a
    BY <2>2
  <2> QED
    BY <2>3 DEF a, b, NumStates
<1>4. CASE ~(q < CountBits)
  <2> DEFINE b == 2^CountBits
             k == 2^(q - CountBits)
  <2>0. IndexBits \in Int /\ CountBits \in Nat /\ CountBits <= q /\ q <= IndexBits
    BY <1>1, <1>4, WidthsAssumption
  <2>1. q - CountBits \in 0..IndexBits /\ CountBits + (q - CountBits) = q /\ q <= IndexBits
    BY ONLY <2>0, q \in Nat
  <2>2. k \in Nat /\ b \in Nat \ {0} /\ 2^q = b * k
    BY <1>1, <1>2, <2>1, PowersAssumption
  <2> HIDE DEF b, k
  <2>3. ((b * k) % b) = 0
    <3>1. b * k + 0 = b * k /\ b * k \in Nat
      BY <2>2
    <3> QED BY <2>2, <3>1
  <2> QED
    BY <2>2, <2>3 DEF b, NumStates
<1> QED
  BY <1>3, <1>4

LEMMA ResolveFits ==
  ASSUME NEW asked \in Requests, asked.strategy = "Auto", asked.qubits < IndexBits
  PROVE  LET size == 2^asked.qubits * 2 * DoubleBytes
         IN /\ CreateSelection(asked) \in {"Dense"} \cup asked.build
            /\ size < 2^IndexBits =>
                 (CreateSelection(asked) = "Dense" <=>
                    size < AutoThreshold \/ asked.build = {})
<1> DEFINE size == 2^asked.qubits * 2 * DoubleBytes
<1>1. /\ asked.qubits \in Nat /\ asked.build \subseteq {"Blosc", "Zfp"}
      /\ Supported(asked.qubits)
  BY ConfigsAssumption, WidthsAssumption DEF Supported
<1>2. CreateSelection(asked) = Resolve(asked)
  BY <1>1 DEF CreateSelection, IsAvailable, Resolve
<1>3. size < 2^IndexBits => EstimatedBytes(asked.qubits) = size
  <2>1. asked.qubits \in 0..IndexBits /\ IndexBits \in 0..IndexBits
    BY <1>1, WidthsAssumption
  <2> DEFINE a == 2^asked.qubits
             b == 2^IndexBits
  <2>2. a \in Nat /\ b \in Nat \ {0} /\ DoubleBytes \in Nat
    BY <2>1, PowersAssumption, WidthsAssumption
  <2> HIDE DEF a, b
  <2>3. a * 2 * DoubleBytes \in Nat
    BY <2>2
  <2>4. ASSUME NEW s \in Nat, s < b PROVE (s % b) = s
    BY <2>2, <2>4
  <2>5. a * 2 * DoubleBytes < b => ((a * 2 * DoubleBytes) % b) = a * 2 * DoubleBytes
    BY <2>3, <2>4
  <2> QED
    BY <2>5 DEF a, b, EstimatedBytes
<1> HIDE DEF size
<1>4. Resolve(asked) =
        IF EstimatedBytes(asked.qubits) < AutoThreshold THEN "Dense"
        ELSE IF "Blosc" \in asked.build THEN "Blosc"
        ELSE IF "Zfp" \in asked.build THEN "Zfp" ELSE "Dense"
  BY DEF Resolve
<1>5. CreateSelection(asked) \in {"Dense"} \cup asked.build
  BY <1>2, <1>4
<1>6. ASSUME size < 2^IndexBits
      PROVE  CreateSelection(asked) = "Dense" <=> size < AutoThreshold \/ asked.build = {}
  BY <1>1, <1>2, <1>3, <1>4, <1>6
<1> QED
  BY <1>5, <1>6 DEF size

\* No back end counts states before they are made.
NothingCounted == request # NoRequest => numStates = 0

LEMMA OnlyCreate ==
  StorageInv /\ [Next]_vars => Create \/ UNCHANGED <<request, numStates>>
BY ClientKeeps
   DEF Next, Step, FillNext, CodecStep, StoreChunk, LoadChunk, Initialise, CopyStorage,
       SuperChunkCall, vars

LEMMA CountedNext == StorageInv /\ NothingCounted /\ [Next]_vars => NothingCounted'
<1> SUFFICES ASSUME StorageInv, NothingCounted, [Next]_vars PROVE NothingCounted'
  OBVIOUS
<1>1. CASE Create
  BY <1>1 DEF Create, NothingCounted, NoRequest
<1>2. CASE UNCHANGED <<request, numStates>>
  BY <1>2 DEF NothingCounted, NoRequest
<1> QED
  BY <1>1, <1>2, OnlyCreate

LEMMA Counted == Spec => []NothingCounted
<1>1. Init => NothingCounted
  BY DEF Init, NothingCounted
<1> QED
  BY <1>1, CountedNext, StorageInvariant, PTL DEF Spec

\* What SelectionFits says of a step that answers a request.
SelectionStep ==
  LET size == 2^request.qubits * 2 * DoubleBytes
      build == request.build
      valid == \A o \in Owners : Zfp!ValidateConfig(request.configs[o])
  IN request # NoRequest =>
       /\ request.strategy = "Auto" /\ valid /\ request.qubits < IndexBits =>
            /\ strategy' # "None"
            /\ size < 2^IndexBits =>
                 (strategy' = "Dense" <=> size < AutoThreshold \/ build = {})
       /\ strategy' \in {"Zfp", "Blosc"} =>
            strategy' \in build /\ \A o \in Owners : codec'[o].cfg.slots >= 2
       /\ numStates' \in {0, 2^request.qubits}

LEMMA CreateSelects == StorageInv /\ NothingCounted /\ Create => SelectionStep
<1> SUFFICES ASSUME StorageInv, NothingCounted, Create PROVE SelectionStep
  OBVIOUS
<1> DEFINE kind == CreateSelection(request)
           valid == \A o \in Owners : Zfp!ValidateConfig(request.configs[o])
           refused == \/ ~Supported(request.qubits)
                      \/ kind \in {"Zfp", "Blosc"} /\ ~valid
<1>1. /\ request \in Requests /\ strategy = "None" /\ numStates = 0
      /\ request.qubits \in Nat /\ request.build \subseteq {"Blosc", "Zfp"}
      /\ request.strategy \in {"Auto", "Dense", "Blosc", "Zfp"}
  BY ConfigsAssumption DEF Create, StorageInv, TypeOK, NothingCounted
<1>2. kind \in {"None", "Dense", "Blosc", "Zfp"}
  BY <1>1, SelectionType
<1>3. /\ refused => UNCHANGED <<strategy, numStates, codec>>
      /\ ~refused => /\ strategy' = kind
                     /\ numStates' = NumStates(request.qubits)
                     /\ codec' = [o \in Owners |-> Constructed(kind, request.configs[o])]
  BY DEF Create
<1>4. numStates' \in {0, 2^request.qubits}
  BY <1>1, <1>3, CountFits
<1>5. ASSUME strategy' \in {"Zfp", "Blosc"}
      PROVE  strategy' \in request.build /\ \A o \in Owners : codec'[o].cfg.slots >= 2
  <2>1. ~refused /\ strategy' = kind /\ valid
    BY <1>1, <1>3, <1>5
  <2>2. kind \in request.build
    BY <1>5, <2>1 DEF CreateSelection, IsAvailable
  <2>3. ASSUME NEW o \in Owners PROVE codec'[o].cfg.slots >= 2
    <3>1. codec'[o].cfg = request.configs[o]
      BY <1>3, <2>1 DEF Constructed, Zfp!Constructed, Blosc!Constructed
    <3> QED
      BY <2>1, <3>1 DEF Zfp!ValidateConfig
  <2> QED
    BY <2>1, <2>2, <2>3
<1>6. ASSUME request.strategy = "Auto", valid, request.qubits < IndexBits
      PROVE  strategy' = kind
  BY <1>1, <1>3, <1>6, WidthsAssumption DEF Supported
<1>7. ASSUME request.strategy = "Auto", request.qubits < IndexBits
      PROVE  LET size == 2^request.qubits * 2 * DoubleBytes
             IN /\ kind # "None"
                /\ size < 2^IndexBits =>
                     (kind = "Dense" <=> size < AutoThreshold \/ request.build = {})
  BY <1>1, <1>7, ResolveFits
<1> HIDE DEF kind
<1> QED
  BY <1>4, <1>5, <1>6, <1>7 DEF SelectionStep

(* Whatever is asked for, with integers of any widths and any threshold,   *)
(* Auto is refused only for the number of qubits or the settings, and is   *)
(* dense exactly if small or without a codec, as long as the size fits; a  *)
(* compressed back end has slots for a pair; and a count of states that    *)
(* does not fit is 0.                                                      *)
THEOREM SelectionAlwaysFits == Spec => SelectionFits
<1>1. StorageInv /\ NothingCounted /\ [Next]_vars => [SelectionStep]_request
  BY OnlyCreate, CreateSelects
<1>2. [][SelectionStep]_request => SelectionFits
  BY PTL DEF SelectionFits, SelectionStep
<1> QED
  BY <1>1, <1>2, StorageInvariant, Counted, PTL DEF Spec
===============================================================================
