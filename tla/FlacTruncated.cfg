SPECIFICATION Spec
CONSTANTS
  Total = 5
  Lengths = {2, 3}
  BlockSize = 2
  Requests = {1, 4, 7}
  MaxPos = 5
  Offsets <- MCOffsets
INVARIANT NoFrameTwiceInARead
