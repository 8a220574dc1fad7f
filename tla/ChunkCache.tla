------------------------------ MODULE ChunkCache ------------------------------
(***************************************************************************)
(* The LRU cache of decompressed chunks (storage/common/chunk_cache.h),    *)
(* driven as the compressed back ends drive it: an operation acquires one  *)
(* chunk, or the two chunks of an amplitude pair, mutates them through the *)
(* handles it got and eventually flushes.  A codec call may throw, which   *)
(* ends the operation.  Between operations the back end may be copied, and *)
(* the model goes on with the copy.                                        *)
(*                                                                         *)
(* Values are abstract.  A slot's touch stamp is kept as age: the number   *)
(* of slots touched more recently, all that selectEvictionSlot tells       *)
(* apart.  Slot numbers start at 1; 0 stands for kInvalidIndex.            *)
(***************************************************************************)
EXTENDS Naturals

CONSTANTS
  Chunks,        \* chunk indices of the configured back end
  NoChunk,       \* kInvalidIndex as a chunk
  Data,          \* values a decompressed chunk can take
  Zero,          \* the all-zero chunk
  Codec,         \* Codec[d]: what decompressing a compressed d yields
  Capacity,      \* capacity_: the largest number of slots
  MaxHeld,       \* handles an operation uses together: 1, or 2 for a pair
  LoadMayFail,   \* a codec's decompress may throw
  StoreMayFail,  \* a codec's compress may throw
  MayClone       \* the back end may be copied and the copy used

ASSUME ChunksAssumption == NoChunk \notin Chunks
ASSUME DataAssumption == Zero \in Data /\ Codec \in [Data -> Data]
ASSUME CapacityAssumption == Capacity \in Nat \ {0} /\ MaxHeld \in 1..2
\* A cache of one slot is that of a back end of one chunk.
ASSUME HeldAssumption == MaxHeld <= Capacity \/ \A c, d \in Chunks : c = d
ASSUME FaultAssumption ==
  /\ LoadMayFail \in BOOLEAN
  /\ StoreMayFail \in BOOLEAN
  /\ MayClone \in BOOLEAN

VARIABLES
  slots,        \* slots_, with room for Capacity of them
  size,         \* slots_.size()
  reserved,     \* slots_.capacity()
  age,          \* order of the slots' touch stamps, 0 for the latest
  chunkToSlot,  \* chunkToSlot_
  store,        \* what decompressing each chunk's bytes yields
  first,        \* handle of the operation's chunk, or of a pair's first
  second        \* handle of a pair's second chunk

vars == <<slots, size, reserved, age, chunkToSlot, store, first, second>>

SlotIds == 1..Capacity
NoSlot == 0

Slot == [chunk : Chunks \cup {NoChunk}, buffer : Data, dirty : BOOLEAN]

\* A SlotHandle; marks says that its dirty pointer still points into slots_.
Handle ==
  [slot : SlotIds \cup {NoSlot}, chunk : Chunks \cup {NoChunk}, marks : BOOLEAN]
NoHandle == [slot |-> NoSlot, chunk |-> NoChunk, marks |-> FALSE]

-------------------------------------------------------------------------------
(* Slots.                                                                  *)

EmptySlot == [chunk |-> NoChunk, buffer |-> Zero, dirty |-> FALSE]

\* Slip: every other slot ages, also one touched before s.
TouchedAgesAll(s) ==
  [t \in SlotIds |-> IF t = s THEN 0 ELSE age[t] + 1]

\* The ages after slot s is stamped with the next touch counter.
Touched(s) ==
  [t \in SlotIds |-> IF t = s THEN 0
                     ELSE IF age[t] < age[s] THEN age[t] + 1 ELSE age[t]]

\* Slip: the slot with the largest touch stamp.
EvictionSlotNewest == CHOOSE s \in SlotIds : \A t \in SlotIds : age[s] <= age[t]

\* The slot with the smallest touch stamp of a full cache.
EvictionSlot == CHOOSE s \in SlotIds : \A t \in SlotIds : age[t] <= age[s]

NeedsStore(s) == slots[s].dirty /\ slots[s].chunk # NoChunk

\* The slots of S that are written back as chunk c, in slot order.
WrittenBack(S, c) == {s \in S : NeedsStore(s) /\ slots[s].chunk = c}

\* The compressed chunks after the slots in S are written back.
StoreAfterFlush(S) ==
  [c \in Chunks |->
     LET W == WrittenBack(S, c)
     IN IF W = {} THEN store[c]
        ELSE Codec[slots[CHOOSE s \in W : \A t \in W : t <= s].buffer]]

\* Slip: an evicted chunk stays mapped.
TableKept(s) == chunkToSlot

\* The reverse table after slot s gives up the chunk it names.
TableWithout(s) ==
  [c \in Chunks |-> IF c = slots[s].chunk THEN NoSlot ELSE chunkToSlot[c]]

-------------------------------------------------------------------------------
(* Handles.                                                                *)

\* A pair takes its second handle right after its first.
CanHold(k) ==
  k = 2 => /\ MaxHeld = 2
           /\ first # NoHandle
           /\ second = NoHandle

\* Handle k is returned for chunk c in slot s.  A handle held meanwhile keeps
\* its data pointer, but loses its dirty pointer if slots_ was reallocated.
Hold(k, c, s, reallocated) ==
  LET new == [slot |-> s, chunk |-> c, marks |-> TRUE]
  IN IF k = 1
     THEN first' = new /\ second' = NoHandle
     ELSE /\ first' = [first EXCEPT !.marks = @ /\ ~reallocated]
          /\ second' = new

DropHandles == first' = NoHandle /\ second' = NoHandle

-------------------------------------------------------------------------------
(* acquire.                                                                *)

AcquireHit(k, c) ==
  /\ CanHold(k)
  /\ chunkToSlot[c] # NoSlot
  /\ age' = Touched(chunkToSlot[c])
  /\ Hold(k, c, chunkToSlot[c], FALSE)
  /\ UNCHANGED <<slots, size, reserved, chunkToSlot, store>>

\* The slot names its chunk before the load, the table only after it.
Load(k, c, s, table, reallocated) ==
  /\ age' = Touched(s)
  /\ \/ /\ slots' = [slots EXCEPT ![s] =
                       [chunk |-> c, buffer |-> store'[c], dirty |-> FALSE]]
        /\ chunkToSlot' = [table EXCEPT ![c] = s]
        /\ Hold(k, c, s, reallocated)
     \/ /\ LoadMayFail
        /\ \E partial \in Data :
             slots' = [slots EXCEPT ![s] =
                         [chunk |-> c, buffer |-> partial, dirty |-> FALSE]]
        /\ chunkToSlot' = table
        /\ DropHandles

\* push_back doubles the allocation when it has no room left.
AcquireFill(k, c) ==
  /\ CanHold(k)
  /\ chunkToSlot[c] = NoSlot
  /\ size < Capacity
  /\ size' = size + 1
  /\ reserved' = IF size < reserved THEN reserved
                 ELSE IF size = 0 THEN 1 ELSE 2 * size
  /\ store' = store
  /\ Load(k, c, size + 1, chunkToSlot, size >= reserved)

AcquireEvict(k, c) ==
  /\ CanHold(k)
  /\ chunkToSlot[c] = NoSlot
  /\ size = Capacity
  /\ store' = StoreAfterFlush({EvictionSlot})
  /\ Load(k, c, EvictionSlot, TableWithout(EvictionSlot), FALSE)
  /\ UNCHANGED <<size, reserved>>

\* The store callback throws before anything of the cache changes.
AcquireStoreFails(k, c) ==
  /\ StoreMayFail
  /\ CanHold(k)
  /\ chunkToSlot[c] = NoSlot
  /\ size = Capacity
  /\ NeedsStore(EvictionSlot)
  /\ DropHandles
  /\ UNCHANGED <<slots, size, reserved, age, chunkToSlot, store>>

-------------------------------------------------------------------------------
(* Mutation through a handle, flushAll, configure and copy.                *)

\* A client fills the chunk's data and sets *dirty.
WriteThrough(h, d) ==
  /\ h # NoHandle
  /\ slots' = [slots EXCEPT ![h.slot].buffer = d, ![h.slot].dirty = @ \/ h.marks]
  /\ UNCHANGED <<size, reserved, age, chunkToSlot, store, first, second>>

\* Slip: a slot's mark is cleared before it is stored.
FlushClearingFirst(n) ==
  /\ \/ n = size
     \/ n < size /\ StoreMayFail /\ NeedsStore(n + 1)
  /\ store' = StoreAfterFlush(1..n)
  /\ slots' = [s \in SlotIds |->
                 IF s <= n + 1 /\ NeedsStore(s) THEN [slots[s] EXCEPT !.dirty = FALSE]
                 ELSE slots[s]]
  /\ DropHandles
  /\ UNCHANGED <<size, reserved, age, chunkToSlot>>

\* Slip: a store that throws drops what was not stored.
FlushDropping(n) ==
  /\ \/ n = size
     \/ n < size /\ StoreMayFail /\ NeedsStore(n + 1)
  /\ store' = StoreAfterFlush(1..n)
  /\ slots' = [s \in SlotIds |-> [slots[s] EXCEPT !.dirty = FALSE]]
  /\ chunkToSlot' = [c \in Chunks |-> NoSlot]
  /\ DropHandles
  /\ UNCHANGED <<size, reserved, age>>

\* Slots are written back in order; a store that throws leaves the rest dirty.
FlushUpTo(n) ==
  /\ \/ n = size
     \/ n < size /\ StoreMayFail /\ NeedsStore(n + 1)
  /\ store' = StoreAfterFlush(1..n)
  /\ slots' = [s \in SlotIds |->
                 IF s <= n /\ NeedsStore(s) THEN [slots[s] EXCEPT !.dirty = FALSE]
                 ELSE slots[s]]
  /\ DropHandles
  /\ UNCHANGED <<size, reserved, age, chunkToSlot>>

FlushAll == \E n \in 0..size : FlushUpTo(n)

\* A back end that is initialised again: every chunk is stored afresh, the
\* cache emptied without a flush.
Configure(data) ==
  /\ slots' = [s \in SlotIds |-> EmptySlot]
  /\ size' = 0
  /\ reserved' = IF reserved < Capacity THEN Capacity ELSE reserved
  /\ age' = [s \in SlotIds |-> s - 1]
  /\ chunkToSlot' = [c \in Chunks |-> NoSlot]
  /\ store' = [c \in Chunks |-> Codec[data[c]]]
  /\ DropHandles

\* The defaulted copy constructor: the copied vector has no spare room.
Clone ==
  /\ MayClone
  /\ reserved' = size
  /\ DropHandles
  /\ UNCHANGED <<slots, size, age, chunkToSlot, store>>

-------------------------------------------------------------------------------
Init ==
  /\ slots = [s \in SlotIds |-> EmptySlot]
  /\ size = 0
  /\ reserved = Capacity
  /\ age = [s \in SlotIds |-> s - 1]
  /\ chunkToSlot = [c \in Chunks |-> NoSlot]
  /\ store = [c \in Chunks |-> Codec[Zero]]
  /\ first = NoHandle
  /\ second = NoHandle

Acquire(k, c) ==
  \/ AcquireHit(k, c)
  \/ AcquireFill(k, c)
  \/ AcquireEvict(k, c)
  \/ AcquireStoreFails(k, c)

\* What happens to a cache in its own back end.
Operate ==
  \/ \E k \in 1..2, c \in Chunks : Acquire(k, c)
  \/ \E d \in Data : WriteThrough(first, d) \/ WriteThrough(second, d)
  \/ FlushAll
  \/ \E data \in [Chunks -> Data] : Configure(data)

Next == Operate \/ Clone

Spec == Init /\ [][Next]_vars

-------------------------------------------------------------------------------
(* Type invariant: every field keeps the range the code gives it.          *)
TypeOK ==
  /\ slots \in [SlotIds -> Slot]
  /\ size \in 0..Capacity
  /\ reserved \in Nat
  /\ age \in [SlotIds -> 0..(Capacity - 1)]
  /\ chunkToSlot \in [Chunks -> SlotIds \cup {NoSlot}]
  /\ store \in [Chunks -> Data]
  /\ first \in Handle
  /\ second \in Handle

Used == 1..size

(* The slots and the reverse table agree: each slot in use names the chunk *)
(* mapped to it ("Chunk currently mapped to this slot") and each mapped    *)
(* chunk is named by its slot.  acquire and evictSlot update the two in    *)
(* separate places, with a callback that may throw in between.             *)
SlotsMatchTable ==
  /\ \A s \in Used : slots[s].chunk \in Chunks /\ chunkToSlot[slots[s].chunk] = s
  /\ \A c \in Chunks :
       chunkToSlot[c] # NoSlot => chunkToSlot[c] \in Used /\ slots[chunkToSlot[c]].chunk = c

(* A slot that would be dropped without a store holds nothing the store    *)
(* lacks: a mutation always reaches the slot's own dirty flag ("Dirty      *)
(* marker that must be set when mutating `data`"), and the flag is cleared *)
(* only by a store that succeeded.                                         *)
CleanIsStored ==
  \A s \in Used : LET c == slots[s].chunk IN
    c \in Chunks /\ ~slots[s].dirty => store[c] \in {slots[s].buffer, Codec[slots[s].buffer]}

(* Handles of one operation stay good: while a pair's second chunk is      *)
(* acquired the slot of its first is not the one evicted, so data written  *)
(* through either handle lands in the chunk the handle was given for.      *)
HeldStaysResident ==
  \A h \in {first, second} \ {NoHandle} :
    /\ slots[h.slot].chunk = h.chunk
    /\ chunkToSlot[h.chunk] = h.slot

(* What readers of the cache see: acquire and findBuffer give the cached   *)
(* buffer, an uncached chunk is decompressed from the store.               *)
Content ==
  [c \in Chunks |-> IF chunkToSlot[c] = NoSlot THEN store[c]
                    ELSE slots[chunkToSlot[c]].buffer]

Unsettled ==
  {c \in Chunks : /\ chunkToSlot[c] # NoSlot
                  /\ \/ slots[chunkToSlot[c]].dirty
                     \/ slots[chunkToSlot[c]].buffer # store[c]}

Promise == INSTANCE ChunkStore WITH mem <- Content, fresh <- Unsettled

\* What each step of the cache is to its clients.
StepsKeepPromise ==
  /\ \A h \in {first, second}, d \in Data :
       WriteThrough(h, d) => Promise!Write(h.chunk, d)
  /\ \A data \in [Chunks -> Data] : Configure(data) => Promise!Reset(data)
  /\ \/ \E h \in {first, second}, d \in Data : WriteThrough(h, d)
     \/ \E data \in [Chunks -> Data] : Configure(data)
     \/ \E S \in SUBSET Unsettled : Promise!Settle(S)

(* The cache implements the chunk store: what a client writes through a    *)
(* handle is written to the handle's chunk and to no other, an             *)
(* initialisation alone replaces all chunks, and no hit, load, eviction,   *)
(* flush, copy or failed codec call changes what a chunk reads, except     *)
(* that a written chunk passes through the codec at most once per write.   *)
ImplementsChunkStore == Promise!Spec /\ [][StepsKeepPromise]_vars
===============================================================================
