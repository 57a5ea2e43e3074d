SPECIFICATION Spec
CONSTANTS
  Builds <- MCBuilds
  Files <- MCFiles
  BufFrames = 2
  Total = 5
  Requests = {1, 4, 7}
  Offsets <- MCOffsets
  MaxPos = 12
  Lengths = {0, 3, 5}
  BlockSize = 2
  Gaps <- MCGaps
  ChunkSize = 2
  FileSize = 2
  Asked = {0, 1, 3}
  Sizes = {1, 3}
  Tracks = {4, 5, 7}
  Leader = 2
  Examined = 3
  FrameSize = 4
  OffsetRange = 256
INVARIANTS TypeOK PositionsAgree HoleEndsTheRead CallbackReadsWhereAsked ReadableOpens CopyHoldsAllFrames
PROPERTIES ImplementsFrameDevice ReadsReturn OpeningEnds CopiesEnd
CHECK_DEADLOCK FALSE
