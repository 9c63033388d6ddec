SPECIFICATION FairSpec
CONSTANTS
  Streams = {"video", "audio"}
  Rate <- MCRate
  FrameUnits <- MCFrameUnits
  Delay <- MCDelay
  STREAM_DURATION = 2
INVARIANTS
  TypeOK
  EveryFrameOnce
  FlushedBeforeTrailer
  StreamsStayTogether
PROPERTIES
  Termination
