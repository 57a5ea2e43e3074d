SPECIFICATION Spec
CONSTANTS
  DataBeg = 3
  NumFrames = 4
  FileLen = 17
  BytesPerSample = 2
  NumChannels = 2
  BufFrames = 2
  PutBack = 4
  Grain = 2
  MaxUnits = 5
  DeviceMayFail = TRUE
INVARIANT OneStretch
PROPERTY CallsReturn
