------------------------------- MODULE ZfpCodec --------------------------------
(***************************************************************************)
(* The ZFP codec (storage/zfp/zfp_codec.cpp).  A call of compress or       *)
(* decompress prepares a field, a stream and a bitstream, most of them     *)
(* kept from call to call, and has the library run; each library call may  *)
(* fail.  Parameters do not travel with the bytes: they decode as what was *)
(* encoded only if the stream has the mode and the field the dimensions    *)
(* they were encoded with.  A parallel run that fails is repeated, once,   *)
(* on one thread.                                                          *)
(***************************************************************************)
EXTENDS CodecCalls

CONSTANTS
  Garbled,      \* amplitudes decoded with other parameters
  MaximumSize   \* of the library: bytes for a mode and a number of doubles

-------------------------------------------------------------------------------
(* What a codec keeps.                                                     *)

NoStream == [open |-> FALSE, mode |-> "none", dims |-> 0]

\* over says that the bitstream lies over the scratch buffer as it is now.
NoBitstream == [open |-> FALSE, over |-> FALSE, capacity |-> 0]

Stream == [open : BOOLEAN, mode : {cfg.mode : cfg \in Configs} \cup {"none"}, dims : 0..2]
Codec ==
  [cfg : Configs,
   threads : [Directions -> Int],
   streams : [Directions -> Stream],
   bitstream : [open : BOOLEAN, over : BOOLEAN, capacity : Nat],
   scratch : Nat]

Constructed(cfg) ==
  [cfg |-> cfg,
   threads |-> [name \in Directions |-> cfg.threads],
   streams |-> [name \in Directions |-> NoStream],
   bitstream |-> NoBitstream,
   scratch |-> 0]

\* A copy, constructed or assigned, opens streams of its own.
CopyOf(other) ==
  [other EXCEPT !.streams = [name \in Directions |-> NoStream],
                !.bitstream = NoBitstream]

Copy(o, p) ==
  /\ call = NoCall
  /\ codec' = [codec EXCEPT ![o] = CopyOf(codec[p])]
  /\ bytes' = [bytes EXCEPT ![o] = bytes[p]]
  /\ answer' = Done
  /\ call' = call

-------------------------------------------------------------------------------
(* A call.                                                                 *)

\* chooseFieldShape: two dimensions if both sides can be 8 or more.
Dimensions(n) == IF \E ny \in 8..n : ny * ny <= n /\ n % ny = 0 THEN 2 ELSE 1

Applied(cfg, n) == [open |-> TRUE, mode |-> cfg.mode, dims |-> Dimensions(n)]

\* Slip: the mode is applied only when the stream is opened.
WithStreamModeOnce(k) ==
  IF k.streams[call.name].mode # "none" THEN k
  ELSE [k EXCEPT !.streams[call.name] = Applied(k.cfg, call.elems)]

\* applyStreamMode, at every call.
WithStreamMode(k) ==
  [k EXCEPT !.streams[call.name] = Applied(k.cfg, call.elems)]

Needed(k) == MaximumSize[k.streams.compress.mode][call.elems]

\* A scratch buffer that grows moves.
WithScratch(k) ==
  IF k.scratch >= Needed(k) THEN k
  ELSE [k EXCEPT !.scratch = Needed(k), !.bitstream.over = FALSE]

\* Slip: an open bitstream is rewound whatever buffer it lies over.
NeedsBitstreamIfNone(k) == ~k.bitstream.open

NeedsBitstream(k) == ~k.bitstream.open \/ k.bitstream.capacity # k.scratch

WithBitstream(k) ==
  IF NeedsBitstream(k)
  THEN [k EXCEPT !.bitstream = [open |-> TRUE, over |-> TRUE, capacity |-> k.scratch]]
  ELSE k

\* The field or the stream cannot be made, or the mode not be applied.
PrepareFails ==
  /\ At("begin")
  /\ \E k \in {Keeps, [Keeps EXCEPT !.streams[call.name].open = TRUE]} : Change(k)
  /\ Throw

PrepareCompress ==
  /\ At("begin")
  /\ call.name = "compress"
  /\ LET k == WithScratch(WithStreamMode(Keeps))
     IN \/ Change(WithBitstream(k)) /\ Proceed("run")
        \/ NeedsBitstream(k) /\ Change([k EXCEPT !.bitstream.open = FALSE]) /\ Throw

\* The bitstream over the chunk's bytes is the call's own.
PrepareDecompress ==
  /\ At("begin")
  /\ call.name = "decompress"
  /\ Change(WithStreamMode(Keeps))
  /\ Proceed("run") \/ Throw

\* The library compresses: all of the bytes are replaced.
Compress ==
  /\ At("run")
  /\ call.name = "compress"
  /\ codec' = codec
  /\ StoreBytes([data |-> call.data, stream |-> Keeps.streams.compress])

\* The library decompresses.
Decompress ==
  /\ At("run")
  /\ call.name = "decompress"
  /\ codec' = codec
  /\ LET encoded == bytes[call.owner][call.chunk]
     IN Answer(IF encoded.stream = Keeps.streams.decompress THEN encoded.data ELSE Garbled)

\* Slip: the call is repeated with as many threads.
RunFailsAgain ==
  /\ At("run")
  /\ codec' = codec
  /\ IF Keeps.threads[call.name] > 1 THEN Proceed("begin") ELSE Throw

\* The library returned 0.
RunFails ==
  /\ At("run")
  /\ \/ /\ Keeps.threads[call.name] > 1
        /\ Change([Keeps EXCEPT
             !.threads[call.name] = 1,
             !.streams[call.name] = NoStream,
             !.bitstream = IF call.name = "compress" THEN NoBitstream ELSE @])
        /\ Proceed("begin")
     \/ /\ Keeps.threads[call.name] <= 1
        /\ codec' = codec
        /\ Throw

Step ==
  \/ PrepareFails \/ PrepareCompress \/ PrepareDecompress
  \/ Compress \/ Decompress
  \/ RunFails

-------------------------------------------------------------------------------
(* When the library runs, its stream has the mode and the dimensions of    *)
(* this call; a compress writes through a bitstream that lies over the     *)
(* scratch buffer as it is now, all of it, with room for the worst case.   *)
StreamsFit ==
  At("run") =>
    /\ Keeps.streams[call.name] = Applied(Keeps.cfg, call.elems)
    /\ call.name = "compress" =>
         /\ Keeps.bitstream = [open |-> TRUE, over |-> TRUE, capacity |-> Keeps.scratch]
         /\ Keeps.scratch >= Needed(Keeps)
===============================================================================
