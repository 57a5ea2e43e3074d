SPECIFICATION Spec
CONSTANTS
  DataBeg = 3
  NumFrames = 4
  FileLen = 24
  BytesPerSample = 2
  NumChannels = 2
  BufFrames = 2
  PutBack = 4
  Grain = 4
  MaxUnits = 5
  DeviceMayFail = TRUE
INVARIANTS TypeOK NextByteIsToldByte OnlyPcmBytes
PROPERTIES ImplementsSampleStream CallsReturn
