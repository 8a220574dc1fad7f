--------------------------- MODULE ChunkCacheProofs ---------------------------
EXTENDS ChunkCache, WellFoundedInduction, TLAPS

(* Every touch order is some slot's, so a full cache has an oldest slot.   *)
AgesCover == \A a \in 0..(Capacity - 1) : \E s \in SlotIds : age[s] = a

TypeInv == TypeOK /\ AgesCover

LEMMA TouchedType ==
  ASSUME TypeInv, NEW s \in SlotIds
  PROVE  /\ Touched(s) \in [SlotIds -> 0..(Capacity - 1)]
         /\ \A a \in 0..(Capacity - 1) : \E t \in SlotIds : Touched(s)[t] = a
         /\ Touched(s)[s] = 0
<1> USE CapacityAssumption
<1>1. age \in [SlotIds -> 0..(Capacity - 1)]
  BY DEF TypeInv, TypeOK
<1>2. Touched(s) \in [SlotIds -> 0..(Capacity - 1)]
  BY <1>1 DEF Touched
<1>3. ASSUME NEW a \in 0..(Capacity - 1)
      PROVE  \E t \in SlotIds : Touched(s)[t] = a
  <2>1. CASE a = 0
    BY <2>1 DEF Touched
  <2>2. CASE 0 < a /\ a <= age[s]
    <3>1. PICK t \in SlotIds : age[t] = a - 1
      BY <2>2, <1>1 DEF TypeInv, AgesCover
    <3>2. Touched(s)[t] = a
      BY <3>1, <2>2, <1>1 DEF Touched
    <3> QED BY <3>2
  <2>3. CASE age[s] < a
    <3>1. PICK t \in SlotIds : age[t] = a
      BY <1>1 DEF TypeInv, AgesCover
    <3>2. Touched(s)[t] = a
      BY <3>1, <2>3, <1>1 DEF Touched
    <3> QED BY <3>2
  <2> QED BY <2>1, <2>2, <2>3, <1>1
<1> QED BY <1>2, <1>3 DEF Touched

LEMMA EvictionSlotIsOldest ==
  ASSUME TypeInv
  PROVE  EvictionSlot \in SlotIds /\ age[EvictionSlot] = Capacity - 1
<1> USE CapacityAssumption
<1>1. age \in [SlotIds -> 0..(Capacity - 1)]
  BY DEF TypeInv, TypeOK
<1>2. PICK s \in SlotIds : age[s] = Capacity - 1
  BY DEF TypeInv, AgesCover
<1>3. \A t \in SlotIds : age[t] <= age[s]
  BY <1>1, <1>2
<1>4. /\ EvictionSlot \in SlotIds
      /\ \A t \in SlotIds : age[t] <= age[EvictionSlot]
  BY <1>3 DEF EvictionSlot
<1> QED BY <1>1, <1>2, <1>4

LEMMA HoldType ==
  ASSUME TypeOK, NEW k, NEW c \in Chunks, NEW s \in SlotIds, NEW r \in BOOLEAN,
         Hold(k, c, s, r)
  PROVE  first' \in Handle /\ second' \in Handle
<1> DEFINE new == [slot |-> s, chunk |-> c, marks |-> TRUE]
<1>1. new \in Handle /\ NoHandle \in Handle
  BY DEF Handle, NoHandle
<1>2. [first EXCEPT !.marks = @ /\ ~r] \in Handle
  BY DEF Handle, TypeOK
<1> QED BY <1>1, <1>2 DEF Hold

LEMMA DropType ==
  ASSUME DropHandles
  PROVE  first' \in Handle /\ second' \in Handle
BY DEF DropHandles, NoHandle, Handle

(* A set of slots has a last one. *)
LEMMA LastSlot ==
  ASSUME NEW W \in SUBSET SlotIds, W # {}
  PROVE  \E s \in W : \A t \in W : t <= s
<1> USE CapacityAssumption DEF SlotIds
<1> DEFINE Left == {Capacity - s : s \in W}
<1>0. PICK w \in W : TRUE
  OBVIOUS
<1>1. Left \subseteq Nat /\ Left # {}
  <2>1. Capacity - w \in Left
    BY <1>0
  <2>2. \A s \in W : Capacity - s \in Nat
    OBVIOUS
  <2> QED BY <2>1, <2>2
<1>2. PICK x \in Left : \A y \in Left : ~ (<<y, x>> \in OpToRel(<, Nat))
  BY <1>1, NatLessThanWellFounded, WFMin
<1>3. \A y \in Left : x <= y
  <2> SUFFICES ASSUME NEW y \in Left, y < x PROVE FALSE
    BY <1>1
  <2>1. <<y, x>> \in Nat \X Nat /\ <<y, x>>[1] < <<y, x>>[2]
    BY <1>1
  <2>2. <<y, x>> \in OpToRel(<, Nat)
    BY <2>1 DEF OpToRel
  <2> QED BY <2>2, <1>2
<1>4. PICK s \in W : x = Capacity - s
  OBVIOUS
<1>5. ASSUME NEW t \in W PROVE t <= s
  <2>1. x <= Capacity - t
    BY <1>3
  <2> QED BY <2>1, <1>4
<1> QED BY <1>5

LEMMA StoreAfterFlushType ==
  ASSUME TypeOK, NEW S \in SUBSET SlotIds
  PROVE  StoreAfterFlush(S) \in [Chunks -> Data]
<1>1. ASSUME NEW c \in Chunks, WrittenBack(S, c) # {}
      PROVE  \E s \in WrittenBack(S, c) :
               \A t \in WrittenBack(S, c) : t <= s
  BY <1>1, LastSlot DEF WrittenBack
<1>2. ASSUME NEW c \in Chunks
      PROVE  StoreAfterFlush(S)[c] \in Data
  <2> DEFINE W == WrittenBack(S, c)
  <2>1. CASE W = {}
    BY <2>1 DEF StoreAfterFlush, TypeOK
  <2>2. CASE W # {}
    <3> DEFINE s == CHOOSE s \in W : \A t \in W : t <= s
    <3>1. s \in SlotIds
      BY <1>1, <2>2 DEF WrittenBack
    <3>2. Codec[slots[s].buffer] \in Data
      BY <3>1, DataAssumption DEF TypeOK, Slot
    <3>3. StoreAfterFlush(S)[c] = Codec[slots[s].buffer]
      BY <2>2 DEF StoreAfterFlush
    <3> QED BY <3>2, <3>3
  <2> QED BY <2>1, <2>2
<1> QED BY <1>2 DEF StoreAfterFlush

LEMMA InitTypeInv == Init => TypeInv
<1> SUFFICES ASSUME Init PROVE TypeInv
  OBVIOUS
<1> USE CapacityAssumption, DataAssumption DEF SlotIds
<1>1. EmptySlot \in Slot /\ NoHandle \in Handle
  BY DEF EmptySlot, Slot, NoHandle, Handle
<1>2. [s \in SlotIds |-> s - 1] \in [SlotIds -> 0..(Capacity - 1)]
  OBVIOUS
<1>3. TypeOK
  BY <1>1, <1>2 DEF Init, TypeOK, NoSlot
<1>4. ASSUME NEW a \in 0..(Capacity - 1)
      PROVE  \E s \in SlotIds : age[s] = a
  <2>1. a + 1 \in SlotIds /\ age[a + 1] = a
    BY DEF Init
  <2> QED BY <2>1
<1> QED BY <1>3, <1>4 DEF TypeInv, AgesCover

(* The common part of the two acquisitions that load a chunk.              *)
LEMMA LoadType ==
  ASSUME TypeInv, NEW k \in 1..2, NEW c \in Chunks, NEW s \in SlotIds,
         NEW table \in [Chunks -> SlotIds \cup {NoSlot}], NEW r \in BOOLEAN,
         store' \in [Chunks -> Data],
         size' \in 0..Capacity, reserved' \in Nat,
         Load(k, c, s, table, r)
  PROVE  TypeInv'
<1>1. age' = Touched(s)
  BY DEF Load
<1>2. /\ age' \in [SlotIds -> 0..(Capacity - 1)]
      /\ \A a \in 0..(Capacity - 1) : \E t \in SlotIds : age'[t] = a
  BY <1>1, TouchedType
<1>3. ASSUME NEW d \in Data
      PROVE  [chunk |-> c, buffer |-> d, dirty |-> FALSE] \in Slot
  BY DEF Slot
<1>4. slots \in [SlotIds -> Slot] /\ store'[c] \in Data
  BY DEF TypeInv, TypeOK
<1>5. slots' \in [SlotIds -> Slot]
  BY <1>3, <1>4 DEF Load
<1>6. chunkToSlot' \in [Chunks -> SlotIds \cup {NoSlot}]
  BY DEF Load
<1>7. first' \in Handle /\ second' \in Handle
  BY HoldType, DropType DEF Load, TypeInv
<1> QED BY <1>2, <1>5, <1>6, <1>7 DEF TypeInv, TypeOK, AgesCover

(* A mutation changes one slot's buffer and can only set its dirty flag.   *)
LEMMA WriteThroughSlots ==
  ASSUME slots \in [SlotIds -> Slot], NEW h \in Handle, NEW d \in Data,
         WriteThrough(h, d)
  PROVE  /\ slots' \in [SlotIds -> Slot]
         /\ \A s \in SlotIds \ {h.slot} : slots'[s] = slots[s]
         /\ h.slot \in SlotIds =>
              /\ slots'[h.slot].chunk = slots[h.slot].chunk
              /\ slots'[h.slot].buffer = d
              /\ slots'[h.slot].dirty = (slots[h.slot].dirty \/ h.marks)
<1> DEFINE once == [slots EXCEPT ![h.slot].buffer = d]
           twice == [once EXCEPT ![h.slot].dirty = @ \/ h.marks]
<1>1. once \in [SlotIds -> Slot]
  BY DEF Slot
<1>2. \A s \in SlotIds : once[s].dirty \in BOOLEAN
  BY <1>1 DEF Slot
<1>3. twice \in [SlotIds -> Slot]
  <2>1. \A s \in SlotIds : (once[s].dirty \/ h.marks) \in BOOLEAN
    OBVIOUS
  <2>2. \A s \in SlotIds :
          [once[s] EXCEPT !.dirty = once[s].dirty \/ h.marks] \in Slot
    BY <1>1, <2>1 DEF Slot
  <2> QED BY <1>1, <2>2
<1>4. slots' = twice
  BY DEF WriteThrough
<1> QED BY <1>1, <1>3, <1>4 DEF Slot

LEMMA NextTypeInv == TypeInv /\ [Next]_vars => TypeInv'
<1> SUFFICES ASSUME TypeInv, [Next]_vars PROVE TypeInv'
  OBVIOUS
<1> USE CapacityAssumption
<1>1. ASSUME NEW k \in 1..2, NEW c \in Chunks, AcquireHit(k, c)
      PROVE  TypeInv'
  <2>1. chunkToSlot[c] \in SlotIds
    BY <1>1 DEF AcquireHit, TypeInv, TypeOK
  <2>2. /\ age' \in [SlotIds -> 0..(Capacity - 1)]
        /\ \A a \in 0..(Capacity - 1) : \E t \in SlotIds : age'[t] = a
    BY <1>1, <2>1, TouchedType DEF AcquireHit
  <2>3. first' \in Handle /\ second' \in Handle
    BY <1>1, <2>1, HoldType DEF AcquireHit, TypeInv
  <2> QED BY <1>1, <2>2, <2>3 DEF AcquireHit, TypeInv, TypeOK, AgesCover
<1>2. ASSUME NEW k \in 1..2, NEW c \in Chunks, AcquireFill(k, c)
      PROVE  TypeInv'
  <2>1. size + 1 \in SlotIds /\ size' \in 0..Capacity /\ reserved' \in Nat
    BY <1>2 DEF AcquireFill, TypeInv, TypeOK, SlotIds
  <2>2. (size >= reserved) \in BOOLEAN
    OBVIOUS
  <2>3. store' \in [Chunks -> Data] /\ chunkToSlot \in [Chunks -> SlotIds \cup {NoSlot}]
    BY <1>2 DEF AcquireFill, TypeInv, TypeOK
  <2>4. Load(k, c, size + 1, chunkToSlot, size >= reserved)
    BY <1>2 DEF AcquireFill
  <2> QED BY <2>1, <2>2, <2>3, <2>4, LoadType
<1>3. ASSUME NEW k \in 1..2, NEW c \in Chunks, AcquireEvict(k, c)
      PROVE  TypeInv'
  <2>1. EvictionSlot \in SlotIds
    BY EvictionSlotIsOldest
  <2>2. store' \in [Chunks -> Data]
    BY <1>3, <2>1, StoreAfterFlushType DEF AcquireEvict, TypeInv
  <2>3. TableWithout(EvictionSlot) \in [Chunks -> SlotIds \cup {NoSlot}]
    BY DEF TableWithout, TypeInv, TypeOK
  <2>4. size' \in 0..Capacity /\ reserved' \in Nat
    BY <1>3 DEF AcquireEvict, TypeInv, TypeOK
  <2>5. Load(k, c, EvictionSlot, TableWithout(EvictionSlot), FALSE)
    BY <1>3 DEF AcquireEvict
  <2> QED BY <2>1, <2>2, <2>3, <2>4, <2>5, LoadType
<1>4. ASSUME NEW k \in 1..2, NEW c \in Chunks, AcquireStoreFails(k, c)
      PROVE  TypeInv'
  BY <1>4, DropType DEF AcquireStoreFails, TypeInv, TypeOK, AgesCover
<1>5. ASSUME NEW h \in {first, second}, NEW d \in Data, WriteThrough(h, d)
      PROVE  TypeInv'
  <2>1. slots \in [SlotIds -> Slot] /\ h \in Handle
    BY DEF TypeInv, TypeOK
  <2>2. slots' \in [SlotIds -> Slot]
    BY <1>5, <2>1, WriteThroughSlots
  <2> QED BY <1>5, <2>2 DEF WriteThrough, TypeInv, TypeOK, AgesCover
<1>6. ASSUME NEW n \in 0..size, FlushUpTo(n)
      PROVE  TypeInv'
  <2>1. size \in 0..Capacity /\ slots \in [SlotIds -> Slot]
    BY DEF TypeInv, TypeOK
  <2>2. 1..n \in SUBSET SlotIds
    BY <2>1 DEF SlotIds
  <2>3. store' \in [Chunks -> Data]
    BY <1>6, <2>2, StoreAfterFlushType DEF FlushUpTo, TypeInv
  <2>4. slots' \in [SlotIds -> Slot]
    BY <1>6, <2>1 DEF FlushUpTo, Slot
  <2>5. first' \in Handle /\ second' \in Handle
    BY <1>6, DropType DEF FlushUpTo
  <2> QED BY <1>6, <2>3, <2>4, <2>5 DEF FlushUpTo, TypeInv, TypeOK, AgesCover
<1>7. ASSUME NEW data \in [Chunks -> Data], Configure(data)
      PROVE  TypeInv'
  <2>1. EmptySlot \in Slot
    BY DataAssumption DEF EmptySlot, Slot
  <2>2. age' \in [SlotIds -> 0..(Capacity - 1)] /\ size' \in 0..Capacity
    BY <1>7 DEF Configure, SlotIds
  <2>3. ASSUME NEW a \in 0..(Capacity - 1)
        PROVE  \E s \in SlotIds : age'[s] = a
    <3>1. a + 1 \in SlotIds /\ age'[a + 1] = a
      BY <1>7 DEF Configure, SlotIds
    <3> QED BY <3>1
  <2>4. first' \in Handle /\ second' \in Handle
    BY <1>7, DropType DEF Configure
  <2>5. /\ chunkToSlot' \in [Chunks -> SlotIds \cup {NoSlot}]
        /\ store' \in [Chunks -> Data]
        /\ reserved' \in Nat
        /\ slots' \in [SlotIds -> Slot]
    BY <1>7, <2>1, DataAssumption DEF Configure, TypeInv, TypeOK
  <2> QED BY <2>2, <2>3, <2>4, <2>5 DEF TypeInv, TypeOK, AgesCover
<1>8. ASSUME Clone PROVE TypeInv'
  BY <1>8, DropType DEF Clone, TypeInv, TypeOK, AgesCover
<1>9. CASE UNCHANGED vars
  BY <1>9 DEF vars, TypeInv, TypeOK, AgesCover
<1> QED
  BY <1>1, <1>2, <1>3, <1>4, <1>5, <1>6, <1>7, <1>8, <1>9
     DEF Next, Operate, Acquire, FlushAll

(* Every field keeps its range whatever fails and whatever is copied: the  *)
(* eviction always finds an oldest slot and its touch order stays a        *)
(* permutation.                                                            *)
THEOREM TypeCorrect == Spec => []TypeOK
<1>1. TypeInv => TypeOK
  BY DEF TypeInv
<1> QED BY <1>1, InitTypeInv, NextTypeInv, PTL DEF Spec

\* A chunk is mapped, if to any slot, to one in use that names it.
HitIsRight ==
  \A c \in Chunks :
    chunkToSlot[c] # NoSlot => chunkToSlot[c] \in Used /\ slots[chunkToSlot[c]].chunk = c

(* What a slot's load leaves right: the chunk it takes is mapped to a slot *)
(* that names it, and no other chunk is mapped to that slot.               *)
LEMMA LoadHitIsRight ==
  ASSUME TypeInv, HitIsRight, NEW k, NEW c \in Chunks, NEW s \in SlotIds,
         NEW table \in [Chunks -> SlotIds \cup {NoSlot}], NEW r,
         Used' = Used \cup {s},
         \A d \in Chunks : table[d] # NoSlot =>
           table[d] = chunkToSlot[d] /\ table[d] # s,
         Load(k, c, s, table, r)
  PROVE  HitIsRight'
<1>1. slots \in [SlotIds -> Slot] /\ Used \subseteq SlotIds
  BY CapacityAssumption DEF TypeInv, TypeOK, Used, SlotIds
<1>2. /\ slots'[s].chunk = c
      /\ \A t \in SlotIds \ {s} : slots'[t] = slots[t]
  BY <1>1 DEF Load
<1>3. chunkToSlot' = table \/ chunkToSlot' = [table EXCEPT ![c] = s]
  BY DEF Load
<1>4. ASSUME NEW d \in Chunks, chunkToSlot'[d] # NoSlot
      PROVE  chunkToSlot'[d] \in Used' /\ slots'[chunkToSlot'[d]].chunk = d
  <2>1. CASE d = c /\ chunkToSlot'[d] = s
    BY <2>1, <1>2
  <2>2. CASE ~(d = c /\ chunkToSlot'[d] = s)
    <3>1. chunkToSlot'[d] = table[d]
      BY <2>2, <1>3
    <3>2. table[d] = chunkToSlot[d] /\ table[d] # s /\ chunkToSlot[d] # NoSlot
      BY <3>1, <1>4
    <3>3. chunkToSlot[d] \in Used /\ slots[chunkToSlot[d]].chunk = d
      BY <3>2 DEF HitIsRight
    <3> QED BY <3>1, <3>2, <3>3, <1>1, <1>2
  <2> QED BY <2>1, <2>2
<1> QED BY <1>4 DEF HitIsRight

LEMMA NextHitIsRight == TypeInv /\ HitIsRight /\ [Next]_vars => HitIsRight'
<1> SUFFICES ASSUME TypeInv, HitIsRight, [Next]_vars PROVE HitIsRight'
  OBVIOUS
<1> USE CapacityAssumption
<1>0. /\ slots \in [SlotIds -> Slot] /\ Used \subseteq SlotIds
      /\ chunkToSlot \in [Chunks -> SlotIds \cup {NoSlot}]
  BY DEF TypeInv, TypeOK, Used, SlotIds
<1>1. ASSUME NEW k \in 1..2, NEW c \in Chunks, AcquireHit(k, c)
      PROVE  HitIsRight'
  BY <1>1 DEF AcquireHit, HitIsRight, Used
<1>2. ASSUME NEW k \in 1..2, NEW c \in Chunks, AcquireFill(k, c)
      PROVE  HitIsRight'
  <2> DEFINE s == size + 1
  <2>1. s \in SlotIds /\ Used' = Used \cup {s} /\ s \notin Used
    BY <1>2 DEF AcquireFill, TypeInv, TypeOK, SlotIds, Used
  <2>2. \A d \in Chunks : chunkToSlot[d] # NoSlot => chunkToSlot[d] # s
    BY <2>1 DEF HitIsRight
  <2>3. Load(k, c, s, chunkToSlot, size >= reserved)
    BY <1>2 DEF AcquireFill
  <2> HIDE DEF s
  <2> QED BY <1>0, <2>1, <2>2, <2>3, LoadHitIsRight
<1>3. ASSUME NEW k \in 1..2, NEW c \in Chunks, AcquireEvict(k, c)
      PROVE  HitIsRight'
  <2> DEFINE s == EvictionSlot
  <2>1. s \in SlotIds /\ Used' = Used \cup {s}
    BY <1>3, EvictionSlotIsOldest DEF AcquireEvict, TypeInv, TypeOK, Used, SlotIds
  <2>2. TableWithout(s) \in [Chunks -> SlotIds \cup {NoSlot}]
    BY <1>0 DEF TableWithout
  <2>3. ASSUME NEW d \in Chunks, TableWithout(s)[d] # NoSlot
        PROVE  TableWithout(s)[d] = chunkToSlot[d] /\ TableWithout(s)[d] # s
    BY <2>3 DEF TableWithout, HitIsRight
  <2>4. Load(k, c, s, TableWithout(s), FALSE)
    BY <1>3 DEF AcquireEvict
  <2> HIDE DEF s
  <2> QED BY <2>1, <2>2, <2>3, <2>4, LoadHitIsRight
<1>4. ASSUME NEW k \in 1..2, NEW c \in Chunks, AcquireStoreFails(k, c)
      PROVE  HitIsRight'
  BY <1>4 DEF AcquireStoreFails, HitIsRight, Used
<1>5. ASSUME NEW h \in {first, second}, NEW d \in Data, WriteThrough(h, d)
      PROVE  HitIsRight'
  <2>1. h \in Handle
    BY DEF TypeInv, TypeOK
  <2>2. \A s \in SlotIds : slots'[s].chunk = slots[s].chunk
    BY <1>5, <1>0, <2>1, WriteThroughSlots
  <2>3. chunkToSlot' = chunkToSlot /\ Used' = Used
    BY <1>5 DEF WriteThrough, Used
  <2> QED BY <1>0, <2>2, <2>3 DEF HitIsRight
<1>6. ASSUME NEW n \in 0..size, FlushUpTo(n)
      PROVE  HitIsRight'
  <2>1. \A s \in SlotIds : slots'[s].chunk = slots[s].chunk
    BY <1>6, <1>0 DEF FlushUpTo, Slot
  <2>2. chunkToSlot' = chunkToSlot /\ Used' = Used
    BY <1>6 DEF FlushUpTo, Used
  <2> QED BY <1>0, <2>1, <2>2 DEF HitIsRight
<1>7. ASSUME NEW data \in [Chunks -> Data], Configure(data)
      PROVE  HitIsRight'
  BY <1>7 DEF Configure, HitIsRight
<1>8. ASSUME Clone PROVE HitIsRight'
  BY <1>8 DEF Clone, HitIsRight, Used
<1>9. CASE UNCHANGED vars
  BY <1>9 DEF vars, HitIsRight, Used
<1> QED
  BY <1>1, <1>2, <1>3, <1>4, <1>5, <1>6, <1>7, <1>8, <1>9
     DEF Next, Operate, Acquire, FlushAll

(* A hit is never for another chunk, whatever fails and whatever is copied.*)
(* acquire names a slot's chunk before the load and maps it after it, so a *)
(* load that throws leaves the table right.                                *)
THEOREM HitsAreRight == Spec => []HitIsRight
<1>1. Init => HitIsRight
  BY DEF Init, HitIsRight
<1> QED BY <1>1, InitTypeInv, NextTypeInv, NextHitIsRight, PTL DEF Spec

-------------------------------------------------------------------------------
(* Coherence: the inductive strengthening of the cache's safety            *)
(* invariants, under the two conditions the code relies on: decompress     *)
(* does not throw, and a copied cache never has two handles in use.        *)

Careful == ~LoadMayFail /\ (MayClone => MaxHeld = 1)

HandlesMark ==
  \A h \in {first, second} : h # NoHandle => h.slot \in Used /\ h.marks

\* Between the two acquisitions of a pair the first chunk is the newest.
FirstIsNewest ==
  first # NoHandle /\ second = NoHandle => age[first.slot] = 0

RoomReserved == MayClone \/ reserved >= Capacity

Coherent ==
  /\ TypeInv
  /\ SlotsMatchTable
  /\ CleanIsStored
  /\ HeldStaysResident
  /\ HandlesMark
  /\ FirstIsNewest
  /\ RoomReserved

LEMMA InitCoherent == Init => Coherent
<1> SUFFICES ASSUME Init PROVE Coherent
  OBVIOUS
<1>1. TypeInv
  BY InitTypeInv
<1>2. size = 0 /\ Used = {}
  BY DEF Init, Used
<1>3. SlotsMatchTable /\ CleanIsStored
  BY <1>2 DEF Init, SlotsMatchTable, CleanIsStored
<1>4. HeldStaysResident /\ HandlesMark /\ FirstIsNewest
  BY DEF Init, HeldStaysResident, HandlesMark, FirstIsNewest
<1>5. RoomReserved
  BY CapacityAssumption DEF Init, RoomReserved
<1> QED BY <1>1, <1>3, <1>4, <1>5 DEF Coherent

(* Writing back slots of a coherent cache stores exactly the chunks mapped *)
(* to dirty slots among them.                                              *)
LEMMA FlushStores ==
  ASSUME Coherent, NEW S \in SUBSET Used, NEW c \in Chunks
  PROVE  StoreAfterFlush(S)[c] =
           IF chunkToSlot[c] \in S /\ slots[chunkToSlot[c]].dirty
           THEN Codec[slots[chunkToSlot[c]].buffer]
           ELSE store[c]
<1> DEFINE W == WrittenBack(S, c)
<1>1. \A s \in W : s = chunkToSlot[c] /\ slots[s].dirty
  BY DEF WrittenBack, NeedsStore, Coherent, SlotsMatchTable
<1>2. CASE chunkToSlot[c] \in S /\ slots[chunkToSlot[c]].dirty
  <2>1. Used \subseteq SlotIds /\ 0 \notin Used
    BY CapacityAssumption DEF Coherent, TypeInv, TypeOK, Used, SlotIds
  <2>2. slots[chunkToSlot[c]].chunk = c
    BY <1>2, <2>1 DEF Coherent, SlotsMatchTable, NoSlot
  <2>3. chunkToSlot[c] \in W
    BY <1>2, <2>2, ChunksAssumption DEF WrittenBack, NeedsStore
  <2>4. W = {chunkToSlot[c]}
    BY <1>1, <2>3
  <2>5. chunkToSlot[c] <= chunkToSlot[c]
    <3>1. chunkToSlot[c] \in SlotIds
      BY <1>2, <2>1
    <3> QED BY <3>1, CapacityAssumption DEF SlotIds
  <2>6. (CHOOSE s \in W : \A t \in W : t <= s) = chunkToSlot[c]
    BY <2>4, <2>5
  <2>7. StoreAfterFlush(S)[c] =
          Codec[slots[CHOOSE s \in W : \A t \in W : t <= s].buffer]
    BY <2>3 DEF StoreAfterFlush
  <2> QED BY <1>2, <2>6, <2>7
<1>3. CASE ~(chunkToSlot[c] \in S /\ slots[chunkToSlot[c]].dirty)
  <2>1. W = {}
    BY <1>1, <1>3 DEF WrittenBack
  <2> QED BY <1>3, <2>1 DEF StoreAfterFlush
<1> QED BY <1>2, <1>3

(* Slot s can take chunk c: it was free or has been given up, it is not    *)
(* the slot of a handle still in use, and the rest of the cache is as it   *)
(* was.                                                                    *)
Vacated(k, c, s, table, r) ==
  /\ k \in 1..2 /\ c \in Chunks /\ s \in SlotIds /\ r \in BOOLEAN
  /\ CanHold(k)
  /\ table \in [Chunks -> SlotIds \cup {NoSlot}]
  /\ table[c] = NoSlot
  /\ Used' = Used \cup {s}
  /\ \A d \in Chunks : table[d] # NoSlot =>
       table[d] = chunkToSlot[d] /\ table[d] # s
  /\ \A t \in Used \ {s} :
       /\ table[slots[t].chunk] = t
       /\ store'[slots[t].chunk] = store[slots[t].chunk]
  /\ k = 2 => first.slot # s /\ ~r

LEMMA LoadCoherent ==
  ASSUME Coherent, Careful, TypeInv', RoomReserved',
         NEW k, NEW c, NEW s, NEW table, NEW r,
         Vacated(k, c, s, table, r), Load(k, c, s, table, r)
  PROVE  Coherent'
<1> USE DEF Vacated
<1>1. /\ slots' = [slots EXCEPT ![s] =
                     [chunk |-> c, buffer |-> store'[c], dirty |-> FALSE]]
      /\ chunkToSlot' = [table EXCEPT ![c] = s]
      /\ Hold(k, c, s, r)
      /\ age' = Touched(s)
  BY DEF Load, Careful
<1>2. /\ slots \in [SlotIds -> Slot]
      /\ Used \subseteq SlotIds
      /\ NoSlot \notin SlotIds
      /\ first \in Handle
  BY CapacityAssumption DEF Coherent, TypeInv, TypeOK, Used, SlotIds, NoSlot
<1>3. \A t \in Used : slots[t].chunk \in Chunks
  BY DEF Coherent, SlotsMatchTable
<1>4. SlotsMatchTable'
  <2>1. ASSUME NEW t \in Used'
        PROVE  slots'[t].chunk \in Chunks /\ chunkToSlot'[slots'[t].chunk] = t
    <3>1. CASE t = s
      BY <3>1, <1>1, <1>2
    <3>2. CASE t # s
      <4>1. t \in Used /\ slots'[t] = slots[t]
        BY <3>2, <1>1, <1>2
      <4>2. slots[t].chunk # c
        BY <3>2, <4>1, <1>2
      <4> QED BY <3>2, <4>1, <4>2, <1>1, <1>3
    <3> QED BY <3>1, <3>2
  <2>2. ASSUME NEW d \in Chunks, chunkToSlot'[d] # NoSlot
        PROVE  chunkToSlot'[d] \in Used' /\ slots'[chunkToSlot'[d]].chunk = d
    <3>1. CASE d = c
      BY <3>1, <1>1, <1>2
    <3>2. CASE d # c
      <4>1. chunkToSlot'[d] = chunkToSlot[d] /\ chunkToSlot[d] # s /\ chunkToSlot[d] # NoSlot
        BY <2>2, <3>2, <1>1
      <4>2. chunkToSlot[d] \in Used /\ slots[chunkToSlot[d]].chunk = d
        BY <4>1 DEF Coherent, SlotsMatchTable
      <4> QED BY <4>1, <4>2, <1>1, <1>2
    <3> QED BY <3>1, <3>2
  <2> QED BY <2>1, <2>2 DEF SlotsMatchTable
<1>5. CleanIsStored'
  <2> SUFFICES ASSUME NEW t \in Used', slots'[t].chunk \in Chunks, ~slots'[t].dirty
               PROVE  store'[slots'[t].chunk]
                        \in {slots'[t].buffer, Codec[slots'[t].buffer]}
    BY DEF CleanIsStored
  <2>1. CASE t = s
    BY <2>1, <1>1, <1>2
  <2>2. CASE t # s
    <3>1. t \in Used /\ slots'[t] = slots[t]
      BY <2>2, <1>1, <1>2
    <3> QED BY <2>2, <3>1 DEF Coherent, CleanIsStored
  <2> QED BY <2>1, <2>2
<1>6. CASE k = 1
  <2>1. first' = [slot |-> s, chunk |-> c, marks |-> TRUE] /\ second' = NoHandle
    BY <1>1, <1>6 DEF Hold
  <2>2. HeldStaysResident' /\ HandlesMark' /\ FirstIsNewest'
    BY <2>1, <1>1, <1>2, TouchedType
       DEF HeldStaysResident, HandlesMark, FirstIsNewest, NoHandle, Coherent
  <2> QED BY <2>2, <1>4, <1>5 DEF Coherent
<1>7. CASE k = 2
  <2>1. first # NoHandle /\ second = NoHandle
    BY <1>7 DEF CanHold
  <2>2. /\ first.slot \in Used /\ first.marks
        /\ slots[first.slot].chunk = first.chunk
        /\ chunkToSlot[first.chunk] = first.slot
    BY <2>1 DEF Coherent, HandlesMark, HeldStaysResident
  <2>3. first' = first
    <3>1. first' = [first EXCEPT !.marks = first.marks /\ ~r]
      BY <1>1, <1>7 DEF Hold
    <3>2. (first.marks /\ ~r) = first.marks
      BY <1>7, <2>2, <1>2 DEF Handle
    <3> QED BY <3>1, <3>2, <1>2 DEF Handle
  <2>4. second' = [slot |-> s, chunk |-> c, marks |-> TRUE]
    BY <1>1, <1>7 DEF Hold
  <2>5. first.slot # s
    BY <1>7
  <2>6. slots'[first.slot] = slots[first.slot] /\ first.chunk \in Chunks
    BY <2>2, <2>5, <1>1, <1>2, <1>3
  <2>7. first.chunk # c
    BY <2>2, <2>5, <1>2
  <2>8. chunkToSlot'[first.chunk] = first.slot
    BY <2>2, <2>5, <2>6, <2>7, <1>1
  <2>9. HeldStaysResident'
    BY <2>2, <2>3, <2>4, <2>6, <2>8, <1>1, <1>2 DEF HeldStaysResident
  <2>10. HandlesMark'
    BY <2>2, <2>3, <2>4 DEF HandlesMark
  <2>11. second' # NoHandle
    BY <2>4, <1>2 DEF NoHandle
  <2>12. FirstIsNewest'
    BY <2>11 DEF FirstIsNewest
  <2> QED BY <2>9, <2>10, <2>12, <1>4, <1>5 DEF Coherent
<1> QED BY <1>6, <1>7

(* A slot appended to a cache with room left.                              *)
LEMMA FillFrame ==
  ASSUME Coherent, Careful, NEW k \in 1..2, NEW c \in Chunks, AcquireFill(k, c)
  PROVE  Vacated(k, c, size + 1, chunkToSlot, size >= reserved)
<1> DEFINE s == size + 1
<1>1. s \in SlotIds /\ Used' = Used \cup {s} /\ s \notin Used
  BY CapacityAssumption DEF AcquireFill, Coherent, TypeInv, TypeOK, SlotIds, Used
<1>2. k = 2 => ~(size >= reserved)
  BY CapacityAssumption
     DEF AcquireFill, Careful, CanHold, Coherent, RoomReserved, TypeInv, TypeOK
<1>3. k = 2 => first.slot # s
  BY <1>1 DEF AcquireFill, CanHold, Coherent, HandlesMark
<1>4. /\ chunkToSlot \in [Chunks -> SlotIds \cup {NoSlot}]
      /\ \A d \in Chunks : chunkToSlot[d] # NoSlot => chunkToSlot[d] # s
      /\ \A t \in Used : chunkToSlot[slots[t].chunk] = t
  BY <1>1 DEF Coherent, TypeInv, TypeOK, SlotsMatchTable
<1>5. (size >= reserved) \in BOOLEAN
  OBVIOUS
<1>6. CanHold(k) /\ store' = store /\ chunkToSlot[c] = NoSlot
  BY DEF AcquireFill
<1> QED BY <1>1, <1>2, <1>3, <1>4, <1>5, <1>6 DEF Vacated

(* The slot given up by a full cache: what the load of its new chunk needs.*)
LEMMA EvictFrame ==
  ASSUME Coherent, Careful, NEW k \in 1..2, NEW c \in Chunks, AcquireEvict(k, c)
  PROVE  Vacated(k, c, EvictionSlot, TableWithout(EvictionSlot), FALSE)
<1> DEFINE s == EvictionSlot
<1> USE CapacityAssumption
<1>1. s \in Used /\ age[s] = Capacity - 1
  BY EvictionSlotIsOldest DEF AcquireEvict, Coherent, TypeInv, TypeOK, Used, SlotIds
<1>2. Used' = Used \cup {s}
  BY <1>1 DEF AcquireEvict, Used
<1>3. /\ chunkToSlot[c] = NoSlot
      /\ chunkToSlot \in [Chunks -> SlotIds \cup {NoSlot}]
  BY DEF AcquireEvict, Coherent, TypeInv, TypeOK
<1>4. \A t \in Used : slots[t].chunk \in Chunks /\ chunkToSlot[slots[t].chunk] = t
  BY DEF Coherent, SlotsMatchTable
<1>5. \A d \in Chunks : chunkToSlot[d] # NoSlot => slots[chunkToSlot[d]].chunk = d
  BY DEF Coherent, SlotsMatchTable
<1>6. ASSUME NEW d \in Chunks, TableWithout(s)[d] # NoSlot
      PROVE  TableWithout(s)[d] = chunkToSlot[d] /\ TableWithout(s)[d] # s
  BY <1>5, <1>6 DEF TableWithout
<1>7. ASSUME NEW t \in Used \ {s}
      PROVE  /\ TableWithout(s)[slots[t].chunk] = t
             /\ store'[slots[t].chunk] = store[slots[t].chunk]
  <2>1. slots[t].chunk \in Chunks /\ slots[t].chunk # slots[s].chunk
    BY <1>1, <1>4, <1>7
  <2>2. store'[slots[t].chunk] = StoreAfterFlush({s})[slots[t].chunk]
    BY DEF AcquireEvict
  <2>3. chunkToSlot[slots[t].chunk] \notin {s}
    BY <1>4, <1>7
  <2> QED BY <1>1, <1>4, <2>1, <2>2, <2>3, FlushStores DEF TableWithout
<1>8. ASSUME k = 2 PROVE first.slot # s
  <2>1. first # NoHandle /\ second = NoHandle /\ MaxHeld = 2
    BY <1>8 DEF AcquireEvict, CanHold
  <2>2. age[first.slot] = 0
    BY <2>1 DEF Coherent, FirstIsNewest
  <2>3. first.chunk \in Chunks /\ chunkToSlot[first.chunk] = first.slot /\ first.slot \in Used
    BY <2>1, <1>4 DEF Coherent, HeldStaysResident, HandlesMark
  <2>4. first.slot # NoSlot
    BY <2>3 DEF Used, NoSlot
  <2>5. first.chunk # c
    BY <2>3, <2>4, <1>3
  <2>6. Capacity - 1 # 0
    BY <2>1, <2>3, <2>5, HeldAssumption
  <2> QED BY <2>2, <2>6, <1>1
<1>9. TableWithout(s) \in [Chunks -> SlotIds \cup {NoSlot}] /\ TableWithout(s)[c] = NoSlot
  BY <1>3 DEF TableWithout
<1>10. CanHold(k) /\ s \in SlotIds
  BY EvictionSlotIsOldest DEF AcquireEvict, Coherent
<1> QED BY <1>1, <1>2, <1>6, <1>7, <1>8, <1>9, <1>10 DEF Vacated

LEMMA NextCoherent == Careful /\ Coherent /\ [Next]_vars => Coherent'
<1> SUFFICES ASSUME Careful, Coherent, [Next]_vars PROVE Coherent'
  OBVIOUS
<1> USE CapacityAssumption
<1>0. TypeInv' /\ slots \in [SlotIds -> Slot] /\ Used \subseteq SlotIds /\ NoSlot \notin SlotIds
  BY NextTypeInv DEF Coherent, TypeInv, TypeOK, Used, SlotIds, NoSlot
<1>1. ASSUME NEW k \in 1..2, NEW c \in Chunks, AcquireHit(k, c)
      PROVE  Coherent'
  <2> DEFINE s == chunkToSlot[c]
  <2>1. s \in Used /\ s \in SlotIds /\ slots[s].chunk = c
    BY <1>0, <1>1 DEF AcquireHit, Coherent, SlotsMatchTable
  <2>2. /\ SlotsMatchTable' /\ CleanIsStored' /\ RoomReserved'
        /\ Used' = Used
    BY <1>1 DEF AcquireHit, Coherent, SlotsMatchTable, CleanIsStored, RoomReserved, Used
  <2>3. CASE k = 1
    <3>1. first' = [slot |-> s, chunk |-> c, marks |-> TRUE] /\ second' = NoHandle
      BY <1>1, <2>3 DEF AcquireHit, Hold
    <3>2. slots' = slots /\ chunkToSlot' = chunkToSlot /\ age'[s] = 0
      BY <1>1, <2>1, TouchedType DEF AcquireHit, Coherent
    <3>3. HeldStaysResident'
      BY <3>1, <3>2, <2>1 DEF HeldStaysResident
    <3>4. HandlesMark'
      BY <3>1, <2>1, <2>2 DEF HandlesMark
    <3>5. FirstIsNewest'
      BY <3>1, <3>2 DEF FirstIsNewest
    <3> QED BY <1>0, <2>2, <3>3, <3>4, <3>5 DEF Coherent
  <2>4. CASE k = 2
    <3>1. first # NoHandle
      BY <1>1, <2>4 DEF AcquireHit, CanHold
    <3>2. first.marks /\ first \in Handle
      BY <3>1 DEF Coherent, HandlesMark, TypeInv, TypeOK
    <3>3. first' = first
      <4>1. first' = [first EXCEPT !.marks = first.marks /\ ~FALSE]
        BY <1>1, <2>4 DEF AcquireHit, Hold
      <4>2. (first.marks /\ ~FALSE) = first.marks
        BY <3>2 DEF Handle
      <4> QED BY <4>1, <4>2, <3>2 DEF Handle
    <3>4. second' = [slot |-> s, chunk |-> c, marks |-> TRUE]
      BY <1>1, <2>4 DEF AcquireHit, Hold
    <3>5. second' # NoHandle
      BY <3>4, <2>1, <1>0 DEF NoHandle
    <3>6. HeldStaysResident' /\ HandlesMark' /\ FirstIsNewest'
      BY <3>1, <3>3, <3>4, <3>5, <2>1, <2>2, <1>1
         DEF HeldStaysResident, HandlesMark, FirstIsNewest, Coherent, AcquireHit
    <3> QED BY <1>0, <2>2, <3>6 DEF Coherent
  <2> QED BY <2>3, <2>4
<1>2. ASSUME NEW k \in 1..2, NEW c \in Chunks, AcquireFill(k, c)
      PROVE  Coherent'
  <2>1. RoomReserved'
    BY <1>2 DEF AcquireFill, Coherent, TypeInv, TypeOK, RoomReserved
  <2>2. Load(k, c, size + 1, chunkToSlot, size >= reserved)
    BY <1>2 DEF AcquireFill
  <2>3. Vacated(k, c, size + 1, chunkToSlot, size >= reserved)
    BY <1>2, FillFrame
  <2> QED BY <1>0, <2>1, <2>2, <2>3, LoadCoherent
<1>3. ASSUME NEW k \in 1..2, NEW c \in Chunks, AcquireEvict(k, c)
      PROVE  Coherent'
  <2>1. Load(k, c, EvictionSlot, TableWithout(EvictionSlot), FALSE) /\ RoomReserved'
    BY <1>3 DEF AcquireEvict, RoomReserved, Coherent
  <2>2. Vacated(k, c, EvictionSlot, TableWithout(EvictionSlot), FALSE)
    BY <1>3, EvictFrame
  <2> QED BY <1>0, <2>1, <2>2, LoadCoherent
<1>4. ASSUME NEW k \in 1..2, NEW c \in Chunks, AcquireStoreFails(k, c)
      PROVE  Coherent'
  BY <1>0, <1>4 DEF AcquireStoreFails, DropHandles, Coherent, SlotsMatchTable,
     CleanIsStored, HeldStaysResident, HandlesMark, FirstIsNewest, RoomReserved, Used
<1>5. ASSUME NEW h \in {first, second}, NEW d \in Data, WriteThrough(h, d)
      PROVE  Coherent'
  <2>1. /\ h \in Handle /\ h # NoHandle /\ h.slot \in Used /\ h.slot \in SlotIds /\ h.marks
    BY <1>0, <1>5 DEF Coherent, TypeInv, TypeOK, HandlesMark, WriteThrough
  <2>2. /\ \A s \in SlotIds \ {h.slot} : slots'[s] = slots[s]
        /\ slots'[h.slot].chunk = slots[h.slot].chunk
        /\ slots'[h.slot].dirty = (slots[h.slot].dirty \/ h.marks)
    BY <1>0, <1>5, <2>1, WriteThroughSlots
  <2>3. slots'[h.slot].dirty
    BY <2>1, <2>2
  <2>4. Used' = Used /\ \A s \in SlotIds : slots'[s].chunk = slots[s].chunk
    BY <1>5, <2>2 DEF WriteThrough, Used
  <2>5. SlotsMatchTable'
    BY <1>0, <1>5, <2>4 DEF WriteThrough, Coherent, SlotsMatchTable
  <2>6. CleanIsStored'
    BY <1>0, <1>5, <2>2, <2>3, <2>4 DEF WriteThrough, Coherent, CleanIsStored
  <2>7. HeldStaysResident' /\ HandlesMark' /\ FirstIsNewest' /\ RoomReserved'
    BY <1>0, <1>5, <2>4 DEF WriteThrough, Coherent, HeldStaysResident, HandlesMark,
       FirstIsNewest, RoomReserved
  <2> QED BY <1>0, <2>5, <2>6, <2>7 DEF Coherent
<1>6. ASSUME NEW n \in 0..size, FlushUpTo(n)
      PROVE  Coherent'
  <2>1. Used' = Used /\ \A s \in SlotIds : slots'[s].chunk = slots[s].chunk
    BY <1>6, <1>0 DEF FlushUpTo, Used, Slot
  <2>2. SlotsMatchTable' /\ RoomReserved'
    BY <1>0, <1>6, <2>1 DEF FlushUpTo, Coherent, SlotsMatchTable, RoomReserved
  <2>3. CleanIsStored'
    <3> SUFFICES ASSUME NEW t \in Used, ~slots'[t].dirty
                 PROVE  store'[slots[t].chunk]
                          \in {slots'[t].buffer, Codec[slots'[t].buffer]}
      BY <1>0, <2>1 DEF CleanIsStored
    <3>1. slots[t].chunk \in Chunks /\ chunkToSlot[slots[t].chunk] = t /\ t \in SlotIds
      BY <1>0 DEF Coherent, SlotsMatchTable
    <3>2. 1..n \in SUBSET Used
      BY DEF Used, Coherent, TypeInv, TypeOK
    <3>3. store'[slots[t].chunk] =
            IF t \in 1..n /\ slots[t].dirty THEN Codec[slots[t].buffer]
            ELSE store[slots[t].chunk]
      BY <1>6, <3>1, <3>2, FlushStores DEF FlushUpTo
    <3>4. slots'[t].buffer = slots[t].buffer
      BY <1>0, <1>6, <3>1 DEF FlushUpTo, Slot
    <3>5. CASE slots[t].dirty
      <4>1. t <= n
        BY <1>0, <1>6, <3>1, <3>5 DEF FlushUpTo
      <4>2. t \in 1..n
        BY <4>1, <3>1 DEF SlotIds
      <4> QED BY <3>3, <3>4, <3>5, <4>2
    <3>6. CASE ~slots[t].dirty
      BY <3>1, <3>3, <3>4, <3>6 DEF Coherent, CleanIsStored
    <3> QED BY <3>5, <3>6
  <2>4. HeldStaysResident' /\ HandlesMark' /\ FirstIsNewest'
    BY <1>6 DEF FlushUpTo, DropHandles, HeldStaysResident, HandlesMark, FirstIsNewest
  <2> QED BY <1>0, <2>2, <2>3, <2>4 DEF Coherent
<1>7. ASSUME NEW data \in [Chunks -> Data], Configure(data)
      PROVE  Coherent'
  <2>1. Used' = {}
    BY <1>7 DEF Configure, Used
  <2>2. SlotsMatchTable' /\ CleanIsStored'
    BY <1>7, <2>1 DEF Configure, SlotsMatchTable, CleanIsStored
  <2>3. HeldStaysResident' /\ HandlesMark' /\ FirstIsNewest'
    BY <1>7 DEF Configure, DropHandles, HeldStaysResident, HandlesMark, FirstIsNewest
  <2>4. RoomReserved'
    BY <1>7 DEF Configure, RoomReserved, Coherent, TypeInv, TypeOK
  <2> QED BY <1>0, <2>2, <2>3, <2>4 DEF Coherent
<1>8. ASSUME Clone PROVE Coherent'
  BY <1>0, <1>8 DEF Clone, DropHandles, Coherent, SlotsMatchTable,
     CleanIsStored, HeldStaysResident, HandlesMark, FirstIsNewest, RoomReserved, Used
<1>9. CASE UNCHANGED vars
  BY <1>0, <1>9 DEF vars, Coherent, SlotsMatchTable, CleanIsStored,
     HeldStaysResident, HandlesMark, FirstIsNewest, RoomReserved, Used
<1> QED
  BY <1>1, <1>2, <1>3, <1>4, <1>5, <1>6, <1>7, <1>8, <1>9
     DEF Next, Operate, Acquire, FlushAll

(* While decompress does not throw and a copied cache is not used with two *)
(* handles at once, slots and reverse table agree, no unsaved data is      *)
(* marked clean, and handles stay resident.                                *)
THEOREM CacheCoherent ==
  Careful => (Spec => [](SlotsMatchTable /\ CleanIsStored /\ HeldStaysResident))
<1>1. Coherent => SlotsMatchTable /\ CleanIsStored /\ HeldStaysResident
  BY DEF Coherent
<1>2. Careful /\ Init => Careful /\ Coherent
  BY InitCoherent
<1>3. Careful /\ Coherent /\ [Next]_vars => Coherent'
  BY NextCoherent
<1> SUFFICES ASSUME Careful
             PROVE  Spec => [](SlotsMatchTable /\ CleanIsStored /\ HeldStaysResident)
  OBVIOUS
<1>4. Coherent /\ [Next]_vars => Coherent'
  BY <1>3
<1> QED BY <1>1, <1>4, InitCoherent, PTL DEF Spec

(* Under the same conditions a slot that is not dirty holds nothing the    *)
(* store lacks, so evicting it without a store loses nothing.              *)
THEOREM CleanSlotsAreStored == Careful => (Spec => []CleanIsStored)
<1>1. SlotsMatchTable /\ CleanIsStored /\ HeldStaysResident => CleanIsStored
  OBVIOUS
<1> QED BY <1>1, CacheCoherent, PTL

(* Under the same conditions the slot of a handle in use is never given to *)
(* another chunk: the touch order is enough to protect a pair's first.     *)
THEOREM HeldChunksStay == Careful => (Spec => []HeldStaysResident)
<1>1. SlotsMatchTable /\ CleanIsStored /\ HeldStaysResident => HeldStaysResident
  OBVIOUS
<1> QED BY <1>1, CacheCoherent, PTL

-------------------------------------------------------------------------------
(* The cache implements the chunk store.                                   *)

LEMMA InitStore == Init => Promise!Init
BY DEF Init, Promise!Init, Content, Unsettled, NoSlot

(* Loading a chunk in a vacated slot, while the store keeps every chunk    *)
(* but those it settles.                                                   *)
LEMMA LoadContent ==
  ASSUME Coherent, Careful, NEW k, NEW c, NEW s, NEW table, NEW r,
         Vacated(k, c, s, table, r), Load(k, c, s, table, r),
         NEW d \in Chunks
  PROVE  /\ d = c \/ table[d] = NoSlot => Content'[d] = store'[d] /\ d \notin Unsettled'
         /\ d # c /\ table[d] # NoSlot =>
              Content'[d] = Content[d] /\ (d \in Unsettled' <=> d \in Unsettled)
<1> USE DEF Vacated
<1>1. /\ slots' = [slots EXCEPT ![s] =
                     [chunk |-> c, buffer |-> store'[c], dirty |-> FALSE]]
      /\ chunkToSlot' = [table EXCEPT ![c] = s]
  BY DEF Load, Careful
<1>2. slots \in [SlotIds -> Slot] /\ Used \subseteq SlotIds /\ NoSlot \notin SlotIds
  BY CapacityAssumption DEF Coherent, TypeInv, TypeOK, Used, SlotIds, NoSlot
<1>3. CASE d = c
  BY <1>1, <1>2, <1>3 DEF Content, Unsettled
<1>4. CASE d # c /\ table[d] = NoSlot
  BY <1>1, <1>4 DEF Content, Unsettled
<1>5. CASE d # c /\ table[d] # NoSlot
  <2>1. table[d] = chunkToSlot[d] /\ chunkToSlot[d] # s /\ chunkToSlot'[d] = chunkToSlot[d]
    BY <1>1, <1>5
  <2>2. chunkToSlot[d] \in Used /\ slots[chunkToSlot[d]].chunk = d
    BY <2>1, <1>5 DEF Coherent, SlotsMatchTable
  <2>3. slots'[chunkToSlot[d]] = slots[chunkToSlot[d]]
    BY <1>1, <1>2, <2>1, <2>2
  <2>4. store'[d] = store[d]
    BY <2>1, <2>2
  <2> QED BY <1>5, <2>1, <2>3, <2>4 DEF Content, Unsettled
<1> QED BY <1>3, <1>4, <1>5

(* Acquiring a chunk at most rounds the one it evicts.                     *)
LEMMA AcquireSettles ==
  ASSUME Careful, Coherent, NEW k \in 1..2, NEW c \in Chunks, Acquire(k, c)
  PROVE  \E S \in SUBSET Unsettled : Promise!Settle(S)
<1> USE CapacityAssumption
<1> DEFINE Stutter == Content' = Content /\ Unsettled' = Unsettled
<1>0. /\ slots \in [SlotIds -> Slot] /\ Used \subseteq SlotIds
      /\ NoSlot \notin SlotIds /\ chunkToSlot \in [Chunks -> SlotIds \cup {NoSlot}]
  BY DEF Coherent, TypeInv, TypeOK, Used, SlotIds, NoSlot
<1>1. ASSUME AcquireHit(k, c)
      PROVE  Stutter
  BY <1>1 DEF AcquireHit, Content, Unsettled
<1>2. ASSUME AcquireFill(k, c)
      PROVE  Stutter
  <2>1. Vacated(k, c, size + 1, chunkToSlot, size >= reserved)
    BY <1>2, FillFrame
  <2>2. Load(k, c, size + 1, chunkToSlot, size >= reserved) /\ store' = store
    BY <1>2 DEF AcquireFill
  <2>3. chunkToSlot[c] = NoSlot
    BY <1>2 DEF AcquireFill
  <2>4. ASSUME NEW d \in Chunks
        PROVE  Content'[d] = Content[d] /\ (d \in Unsettled' <=> d \in Unsettled)
    <3>1. CASE chunkToSlot[d] = NoSlot
      <4>1. Content'[d] = store'[d] /\ d \notin Unsettled'
        BY <3>1, <2>1, <2>2, LoadContent
      <4>2. Content[d] = store[d] /\ d \notin Unsettled
        BY <3>1 DEF Content, Unsettled
      <4> QED BY <2>2, <4>1, <4>2
    <3>2. CASE chunkToSlot[d] # NoSlot
      BY <3>2, <2>1, <2>2, <2>3, LoadContent
    <3> QED BY <3>1, <3>2
  <2> QED BY <2>4 DEF Content, Unsettled
<1>3. ASSUME AcquireEvict(k, c)
      PROVE  \E S \in SUBSET Unsettled : Promise!Settle(S)
  <2> DEFINE s == EvictionSlot
             table == TableWithout(s)
             S == {slots[s].chunk} \cap Unsettled
  <2>1. Vacated(k, c, s, table, FALSE) /\ Load(k, c, s, table, FALSE)
    BY <1>3, EvictFrame DEF AcquireEvict
  <2>2. s \in Used /\ s \in SlotIds /\ chunkToSlot[c] = NoSlot
    BY <1>3, EvictionSlotIsOldest DEF Coherent, AcquireEvict, Used, SlotIds
  <2>3. slots[s].chunk \in Chunks /\ chunkToSlot[slots[s].chunk] = s /\ slots[s].chunk # c
    BY <2>2, <1>0 DEF Coherent, SlotsMatchTable
  <2>4. ASSUME NEW d \in Chunks
        PROVE  store'[d] = IF chunkToSlot[d] = s /\ slots[s].dirty
                           THEN Codec[slots[s].buffer] ELSE store[d]
    <3>1. store'[d] = StoreAfterFlush({s})[d]
      BY <1>3 DEF AcquireEvict
    <3> QED BY <3>1, <2>2, FlushStores
  <2>5. ASSUME NEW d \in Chunks
        PROVE  /\ Content'[d] = IF d \in S THEN Codec[Content[d]] ELSE Content[d]
               /\ d \in Unsettled' <=> d \in Unsettled \ S
    <3>1. CASE d = slots[s].chunk
      <4>1. table[d] = NoSlot
        BY <3>1 DEF TableWithout
      <4>2. Content'[d] = store'[d] /\ d \notin Unsettled'
        BY <4>1, <2>1, LoadContent
      <4>3. Content[d] = slots[s].buffer /\ chunkToSlot[d] = s
        BY <3>1, <2>2, <2>3, <1>0 DEF Content
      <4>4. CASE slots[s].dirty
        <5>1. d \in S
          BY <3>1, <4>3, <4>4, <2>2, <1>0 DEF Unsettled
        <5>2. store'[d] = Codec[Content[d]]
          BY <4>3, <4>4, <2>4
        <5> QED BY <5>1, <5>2, <4>2
      <4>5. CASE ~slots[s].dirty
        <5>1. store'[d] = store[d] /\ store[d] \in {slots[s].buffer, Codec[slots[s].buffer]}
          BY <2>2, <2>3, <2>4, <3>1, <4>5 DEF Coherent, CleanIsStored
        <5>2. d \in S <=> slots[s].buffer # store[d]
          BY <3>1, <4>3, <4>5, <2>2, <1>0 DEF Unsettled
        <5>3. CASE slots[s].buffer = store[d]
          <6>1. d \notin S
            BY <5>2, <5>3
          <6>2. Content'[d] = Content[d] /\ d \notin Unsettled
            BY <5>1, <5>3, <6>1, <4>2, <4>3, <3>1
          <6> HIDE DEF S
          <6> QED BY <6>1, <6>2, <4>2
        <5>4. CASE slots[s].buffer # store[d]
          <6>1. d \in S
            BY <5>2, <5>4
          <6>2. Content'[d] = Codec[Content[d]]
            BY <5>1, <5>4, <4>2, <4>3
          <6> HIDE DEF S
          <6> QED BY <6>1, <6>2, <4>2
        <5> QED BY <5>3, <5>4
      <4> QED BY <4>4, <4>5
    <3>2. CASE d # slots[s].chunk /\ chunkToSlot[d] = NoSlot
      <4>1. table[d] = NoSlot /\ d \notin S /\ Content[d] = store[d] /\ d \notin Unsettled
        BY <3>2 DEF TableWithout, Content, Unsettled
      <4>2. Content'[d] = store'[d] /\ d \notin Unsettled'
        BY <4>1, <2>1, LoadContent
      <4>3. chunkToSlot[d] # s
        BY <3>2, <2>2, <1>0
      <4> QED BY <4>1, <4>2, <4>3, <2>4
    <3>3. CASE d # slots[s].chunk /\ chunkToSlot[d] # NoSlot
      <4>1. table[d] # NoSlot /\ d # c /\ d \notin S
        BY <3>3, <2>2 DEF TableWithout
      <4>2. Content'[d] = Content[d] /\ (d \in Unsettled' <=> d \in Unsettled)
        BY <4>1, <2>1, LoadContent
      <4> QED BY <4>1, <4>2
    <3> QED BY <3>1, <3>2, <3>3
  <2>6. Promise!Settle(S)
    <3>1. Content' = [d \in Chunks |-> IF d \in S THEN Codec[Content[d]] ELSE Content[d]]
      BY <2>5 DEF Content
    <3>2. Unsettled' = Unsettled \ S
      BY <2>5 DEF Unsettled
    <3> QED BY <3>1, <3>2 DEF Promise!Settle
  <2> QED BY <2>6
<1>4. ASSUME AcquireStoreFails(k, c)
      PROVE  Stutter
  BY <1>4 DEF AcquireStoreFails, Content, Unsettled
<1>5. Stutter => Promise!Settle({})
  BY DEF Promise!Settle, Content
<1>6. {} \in SUBSET Unsettled
  OBVIOUS
<1> QED BY <1>1, <1>2, <1>3, <1>4, <1>5, <1>6 DEF Acquire

(* Writing through a handle writes its chunk.                              *)
LEMMA WriteWrites ==
  ASSUME Careful, Coherent, NEW h \in {first, second}, NEW d \in Data, WriteThrough(h, d)
  PROVE  h.chunk \in Chunks /\ Promise!Write(h.chunk, d)
<1> USE CapacityAssumption
<1>0. /\ slots \in [SlotIds -> Slot] /\ Used \subseteq SlotIds
      /\ NoSlot \notin SlotIds /\ chunkToSlot \in [Chunks -> SlotIds \cup {NoSlot}]
  BY DEF Coherent, TypeInv, TypeOK, Used, SlotIds, NoSlot
<1> DEFINE c == h.chunk
<1>1. /\ h \in Handle /\ h.slot \in Used /\ h.slot \in SlotIds /\ h.marks
      /\ slots[h.slot].chunk = c /\ chunkToSlot[c] = h.slot
  BY <1>0 DEF Coherent, TypeInv, TypeOK, HandlesMark, HeldStaysResident, WriteThrough
<1>2. c \in Chunks
  BY <1>1 DEF Coherent, SlotsMatchTable
<1>3. /\ \A s \in SlotIds \ {h.slot} : slots'[s] = slots[s]
      /\ slots'[h.slot].buffer = d
      /\ slots'[h.slot].dirty
  BY <1>0, <1>1, WriteThroughSlots
<1>4. store' = store /\ chunkToSlot' = chunkToSlot
  BY DEF WriteThrough
<1>5. ASSUME NEW e \in Chunks, e # c
      PROVE  Content'[e] = Content[e] /\ (e \in Unsettled' <=> e \in Unsettled)
  <2>1. chunkToSlot[e] # NoSlot => chunkToSlot[e] \in SlotIds /\ chunkToSlot[e] # h.slot
    BY <1>0, <1>1, <1>5 DEF Coherent, SlotsMatchTable
  <2> QED BY <2>1, <1>3, <1>4 DEF Content, Unsettled
<1>6. Content'[c] = d /\ c \in Unsettled'
  BY <1>0, <1>1, <1>2, <1>3, <1>4 DEF Content, Unsettled
<1>7. Content' = [Content EXCEPT ![c] = d]
  BY <1>2, <1>5, <1>6 DEF Content
<1>8. Unsettled' = Unsettled \cup {c}
  BY <1>2, <1>5, <1>6 DEF Unsettled
<1> QED BY <1>2, <1>7, <1>8 DEF Promise!Write

(* A flush rounds the chunks it stores; it may end early.                  *)
LEMMA FlushSettles ==
  ASSUME Careful, Coherent, NEW n \in 0..size, FlushUpTo(n)
  PROVE  \E S \in SUBSET Unsettled : Promise!Settle(S)
<1> USE CapacityAssumption
<1>0. /\ slots \in [SlotIds -> Slot] /\ Used \subseteq SlotIds
      /\ NoSlot \notin SlotIds /\ chunkToSlot \in [Chunks -> SlotIds \cup {NoSlot}]
  BY DEF Coherent, TypeInv, TypeOK, Used, SlotIds, NoSlot
<1> DEFINE S == Unsettled \ Unsettled'
<1>1. 1..n \in SUBSET Used
  BY DEF Used, Coherent, TypeInv, TypeOK
<1>2. ASSUME NEW c \in Chunks
      PROVE  /\ Content'[c] = Content[c]
             /\ c \in Unsettled' => c \in Unsettled
             /\ c \in S => Content[c] = Codec[Content[c]]
  <2> DEFINE t == chunkToSlot[c]
  <2>1. chunkToSlot' = chunkToSlot
    BY DEF FlushUpTo
  <2>2. CASE t = NoSlot
    <3>1. store'[c] = store[c]
      BY <2>2, <1>1, <1>0, FlushStores DEF FlushUpTo
    <3> QED BY <2>1, <2>2, <3>1 DEF Content, Unsettled
  <2>3. CASE t # NoSlot
    <3>1. t \in Used /\ t \in SlotIds
      BY <2>3, <1>0 DEF Coherent, SlotsMatchTable
    <3>2. slots'[t].buffer = slots[t].buffer
      BY <1>0, <3>1 DEF FlushUpTo, Slot
    <3>3. store'[c] = IF t \in 1..n /\ slots[t].dirty THEN Codec[slots[t].buffer]
                      ELSE store[c]
      BY <1>1, FlushStores DEF FlushUpTo
    <3>4. slots'[t].dirty => slots[t].dirty
      BY <1>0, <3>1 DEF FlushUpTo, Slot
    <3>5. ~(t \in 1..n) => slots'[t] = slots[t]
      BY <1>0, <3>1 DEF FlushUpTo, SlotIds
    <3> QED BY <2>1, <2>3, <3>2, <3>3, <3>4, <3>5 DEF Content, Unsettled
  <2> QED BY <2>2, <2>3
<1>3. S \in SUBSET Unsettled /\ Unsettled' = Unsettled \ S
  BY <1>2 DEF Unsettled
<1>4. Content' = [c \in Chunks |-> IF c \in S THEN Codec[Content[c]] ELSE Content[c]]
  BY <1>2 DEF Content
<1> QED BY <1>3, <1>4 DEF Promise!Settle

LEMMA StepStore == Careful /\ Coherent /\ [Next]_vars => [StepsKeepPromise]_vars
<1> SUFFICES ASSUME Careful, Coherent, Next PROVE StepsKeepPromise
  OBVIOUS
<1>1. ASSUME NEW k \in 1..2, NEW c \in Chunks, Acquire(k, c)
      PROVE  \E S \in SUBSET Unsettled : Promise!Settle(S)
  BY <1>1, AcquireSettles
<1>2. ASSUME NEW h \in {first, second}, NEW d \in Data, WriteThrough(h, d)
      PROVE  Promise!Write(h.chunk, d)
  BY <1>2, WriteWrites
<1>3. ASSUME NEW n \in 0..size, FlushUpTo(n)
      PROVE  \E S \in SUBSET Unsettled : Promise!Settle(S)
  BY <1>3, FlushSettles
<1>4. ASSUME NEW data \in [Chunks -> Data], Configure(data)
      PROVE  Promise!Reset(data)
  BY <1>4 DEF Configure, Promise!Reset, Content, Unsettled
<1>5. ASSUME Clone PROVE \E S \in SUBSET Unsettled : Promise!Settle(S)
  <2>1. Content' = Content /\ Unsettled' = Unsettled
    BY <1>5 DEF Clone, Content, Unsettled
  <2>2. Promise!Settle({})
    BY <2>1 DEF Promise!Settle, Content
  <2> QED BY <2>2
<1>6. \/ \E h \in {first, second}, d \in Data : WriteThrough(h, d)
      \/ \E data \in [Chunks -> Data] : Configure(data)
      \/ \E S \in SUBSET Unsettled : Promise!Settle(S)
  BY <1>1, <1>3, <1>5 DEF Next, Operate, FlushAll
<1> QED
  BY <1>2, <1>4, <1>6 DEF StepsKeepPromise

LEMMA PromiseNext ==
  Careful /\ Coherent /\ [Next]_vars => [Promise!Next]_<<Content, Unsettled>>
<1> SUFFICES ASSUME Careful, Coherent, [Next]_vars
             PROVE  [Promise!Next]_<<Content, Unsettled>>
  OBVIOUS
<1>1. ASSUME NEW h \in {first, second}, NEW d \in Data, WriteThrough(h, d)
      PROVE  \E c \in Chunks : Promise!Write(c, d)
  BY <1>1, WriteWrites
<1>2. CASE UNCHANGED vars
  BY <1>2 DEF vars, Content, Unsettled
<1> QED
  BY <1>1, <1>2, StepStore DEF StepsKeepPromise, Promise!Next

(* What is read, then, when the codec is lossless.                         *)
LEMMA LosslessReads ==
  ASSUME Careful, Coherent, \A d \in Data : Codec[d] = d
  PROVE  /\ \A k \in 1..2, c \in Chunks : Acquire(k, c) => Content' = Content
         /\ \A n \in 0..size : FlushUpTo(n) => Content' = Content
         /\ \A h \in {first, second}, d \in Data :
              WriteThrough(h, d) => h.chunk \in Chunks /\ Content' = [Content EXCEPT ![h.chunk] = d]
         /\ \A data \in [Chunks -> Data] : Configure(data) => Content' = data
<1>1. \A c \in Chunks : Content[c] \in Data
  BY DEF Coherent, TypeInv, TypeOK, Content, Slot, SlotIds
<1>2. Content = [c \in Chunks |-> Content[c]]
  BY DEF Content
<1>3. \A S \in SUBSET Unsettled : Promise!Settle(S) => Content' = Content
  BY <1>1, <1>2 DEF Promise!Settle
<1>4. \A k \in 1..2, c \in Chunks : Acquire(k, c) => Content' = Content
  BY <1>3, AcquireSettles
<1>5. \A n \in 0..size : FlushUpTo(n) => Content' = Content
  BY <1>3, FlushSettles
<1>6. \A h \in {first, second}, d \in Data :
        WriteThrough(h, d) => h.chunk \in Chunks /\ Content' = [Content EXCEPT ![h.chunk] = d]
  BY WriteWrites DEF Promise!Write
<1>7. \A data \in [Chunks -> Data] : Configure(data) => Content' = data
  BY DEF Configure, Content
<1> QED BY <1>4, <1>5, <1>6, <1>7

(* While decompress does not throw and a copied cache is not used with two *)
(* handles at once, the cache is a memory of chunks: a client's write is   *)
(* the write of its chunk, an initialisation alone replaces every chunk,   *)
(* and any other step at most rounds written values, each once.            *)
THEOREM CacheImplementsStore == Careful => (Spec => ImplementsChunkStore)
<1> SUFFICES ASSUME Careful PROVE Spec => ImplementsChunkStore
  OBVIOUS
<1>1. Coherent /\ [Next]_vars => Coherent'
  BY NextCoherent
<1>2. Coherent /\ [Next]_vars => [StepsKeepPromise]_vars
  BY StepStore
<1>3. Coherent /\ [Next]_vars => [Promise!Next]_<<Content, Unsettled>>
  BY PromiseNext
<1> QED
  BY <1>1, <1>2, <1>3, InitCoherent, InitStore, PTL
     DEF Spec, ImplementsChunkStore, Promise!Spec, Promise!storeVars
===============================================================================
