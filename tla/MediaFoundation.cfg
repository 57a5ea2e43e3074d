SPECIFICATION Spec
CONSTANTS
  Total = 9
  ReadOffset = 5
  FirstOffsets = {0, 5}
  DefaultBlock = 2
  BlockSizes = {2, 3}
  Lengths = {9, 12, 14, 17}
  Early = 1
  Requests = {1, 7}
  Offsets <- MCOffsets
  FrameSize = 4
  OffsetRange = 256
  MaxTroubles = 1
INVARIANTS TypeOK OneIntervalRemains GivesUpOnlyAtTheEdges FadeInIsDiscarded
PROPERTIES ImplementsFrameDevice ReadsReturn
