SPECIFICATION Spec
CONSTANTS
  Total = 9
  ReadOffset = 5
  FirstOffsets = {5}
  DefaultBlock = 2
  BlockSizes = {3}
  Lengths = {14}
  Early = 1
  Requests = {2, 7}
  Offsets <- MCOffsets
  FrameSize = 4
  OffsetRange = 256
  MaxTroubles = 0
INVARIANT SeeksCountFromTheEnd
