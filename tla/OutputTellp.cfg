SPECIFICATION Spec
CONSTANTS
  Formats = {"wav", "aiff"}
  BytesPerFrame = 2
  BufFrames = 2
  SizeBits = 6
  MaxPos = 200
  WriteSizes = {1, 3, 6}
  MaxBytes = 10
  MaxFaults = 2
CHECK_DEADLOCK FALSE
PROPERTY GoodMeansNoError
