SPECIFICATION Spec
CONSTANTS
  Channels = 1
  BitsPerSample = 16
  SampleBytes = 2
  InternalBufSize = 4
  MaxFrames = 1
  TickMillis = 1000
  MaxClockSteps = 0
  WriteMayFail = FALSE
PROPERTY RecordsFiveSeconds
