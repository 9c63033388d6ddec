SPECIFICATION FairSpec
CONSTANTS
  Channels = 1
  BitsPerSample = 16
  SampleBytes = 2
  InternalBufSize = 4
  MaxFrames = 8
  TickMillis = 4000
  MaxClockSteps = 1
  WriteMayFail = TRUE
INVARIANTS
  TypeOK
  HeardInOrder
  Conservation
  LossOnlyWhenLate
  RequestIsBacked
  CompleteWhenDone
  HeaderNeverOverclaims
PROPERTIES
  ImplementsRecording
  Termination
