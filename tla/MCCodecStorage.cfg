\* Two owners with two chunks each, any library call failing at any time.
\* Integers of eight and four bits stand for those of 64 and 32.
SPECIFICATION Spec
CONSTANTS
  IndexBits = 8
  CountBits = 4
  DoubleBytes = 8
  AutoThreshold = 64
  Owners = {x, y}
  Chunks = {0, 1}
  Data = {d, e}
  Initial = {d}
  NoBytes = NoBytes
  Garbled = Garbled
  MaximumSize <- WorstCase
  Configs <- Settings
  Requests <- Asked
  Layouts <- Registers
  MaxCalls = 4
  MaxSuperChunkCalls = 6
INVARIANTS
  TypeOK
  StreamsFit
  ContextsFit
PROPERTIES
  ImplementsCodedChunks
  CallsEnd
  SelectionFits
CHECK_DEADLOCK FALSE
