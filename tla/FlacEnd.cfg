SPECIFICATION Spec
CONSTANTS
  Total = 5
  Lengths = {5}
  BlockSize = 2
  Requests = {1, 4, 7}
  MaxPos = 5
  Offsets <- MCOffsets
INVARIANT EndIsTheNumberOfFrames
