SPECIFICATION Spec
CONSTANTS
  Layouts <- AllLayouts
  Masks <- BitMasks
INVARIANTS
  TypeOK
  CallsArePairs
  NoPairTwice
  RefsMatchLayout
  ChunksVisitedOnce
PROPERTIES
  EveryPairVisited
