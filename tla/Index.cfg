CONSTANTS
  Indexes = {i1}
  Archives = {a1, a2}
  Unread = Unread
  Missing = Missing
  BlockCount = 2
  kBlockLength = 2
  MaxSize = 5
  ChunkValues = 3
SPECIFICATION Spec
INVARIANTS ReturnsTheArchive IntactIsReturned NoBlockTwice
PROPERTY CallsReturn
