SPECIFICATION ReopenSpec
CONSTANTS
  Formats = {"wav", "aiff"}
  BytesPerFrame = 2
  BufFrames = 2
  SizeBits = 8
  MaxPos = 200
  WriteSizes = {1, 3, 6}
  MaxBytes = 10
  MaxFaults = 2
INVARIANTS TypeOK EveryByteOnce NothingAnnouncedThatIsMissing ClosedFileIsConsistent ClosedFileReadsBack InterruptedFileHasItsFrames
PROPERTY SizesComeLast
CHECK_DEADLOCK FALSE
