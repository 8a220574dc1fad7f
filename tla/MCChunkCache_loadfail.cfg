\* decompress may throw and the caller retries.
SPECIFICATION Spec
CONSTANTS
  Chunks = {c1, c2, c3}
  NoChunk = NoChunk
  Data = {0, 1}
  Zero = 0
  Codec <- Lossless
  Capacity = 2
  MaxHeld = 2
  LoadMayFail = TRUE
  StoreMayFail = FALSE
  MayClone = FALSE
PROPERTY
  ImplementsChunkStore
