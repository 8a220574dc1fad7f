\* Four chunks on two slots, pairs of handles, a codec that loses something
\* in every round trip and whose compress may throw; the back end is not copied.
SPECIFICATION UncopiedSpec
CONSTANTS
  Chunks = {c1, c2, c3, c4}
  NoChunk = NoChunk
  Data = {0, 1, 2}
  Zero = 0
  Codec <- Lossy
  Capacity = 2
  MaxHeld = 2
  LoadMayFail = FALSE
  StoreMayFail = TRUE
  MayClone = FALSE
INVARIANTS
  TypeOK
  SlotsMatchTable
  CleanIsStored
  HeldStaysResident
PROPERTIES
  ImplementsChunkStore
SYMMETRY ChunkSymmetry
