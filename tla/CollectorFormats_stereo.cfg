SPECIFICATION Spec
CHECK_DEADLOCK FALSE
CONSTANTS
  Channels = 2
  BitsPerSample = 16
  InternalBufSize = 4
  MaxFrames = 3
INVARIANT ReportsWhatItPlaced
