SPECIFICATION Spec
CONSTANTS
  SizeBits = 9
  MaxChunks = 3
  Files <- MCFiles
  Contents <- MCContents
INVARIANTS TypeOK CompleteFilesOpen OpenedOnTheData
PROPERTY OpeningEnds
CHECK_DEADLOCK FALSE
