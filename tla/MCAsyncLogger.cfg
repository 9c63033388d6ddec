SPECIFICATION Spec
CONSTANTS
  QueueSize = 2
  Items <- MCItems
  Threads <- MCThreads
  Main = "main"
  MaxLogs = 1
INVARIANTS
  TypeOK
  WarningsReachDisk
PROPERTIES
  ImplementsRecording
  WrittenReachesDisk
  ShutdownEnds
