SPECIFICATION Spec
CONSTANTS
  InternalBufSize = 4
  MaxFrames = 5
  DwordRange = 4
  RecordTime = 1
  WriteMayFail = TRUE
  UintRange = 65536
  StreamLimit = 32752
  ReadSizes = {3, 8}
  ForeignFiles <- MCForeignFiles
INVARIANTS
  TypeOK
  RoundTrip
  ReleasedAtEnd
PROPERTIES
  ImplementsRecording
  EndsInTime
