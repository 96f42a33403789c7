SPECIFICATION MCSpec
CONSTANTS
  Nodes = {1, 2, 3, 4, 5, 6, 7, 8, 9, 10, 11, 12, 13, 14}
  Few = {1, 2, 3, 4, 5, 6, 7, 8}
  Erasable = {1, 2, 3, 4, 5, 6, 7, 8, 9}
  Drained = {1, 2, 3, 4, 5, 6, 7, 8}
  NULL = NULL
INVARIANTS WellLinked SearchOrder RedBlack InsertLoopInvariant EraseLoopInvariant WalksInOrder DrainReadsLive DrainMeetsAll
PROPERTIES NodesAreKept RoundsClimb
