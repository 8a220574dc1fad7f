\* The back end is copied and the copy applies pair operations.
SPECIFICATION Spec
CONSTANTS
  Chunks = {c1, c2, c3}
  NoChunk = NoChunk
  Data = {0, 1}
  Zero = 0
  Codec <- Lossless
  Capacity = 2
  MaxHeld = 2
  LoadMayFail = FALSE
  StoreMayFail = FALSE
  MayClone = TRUE
PROPERTY
  ImplementsChunkStore
