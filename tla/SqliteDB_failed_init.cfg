SPECIFICATION Spec
CHECK_DEADLOCK FALSE
CONSTANTS
  Threads = {t1, t2}
  Files = {f1}
  NoFile = NoFile
  MaxCalls = 1
INVARIANT SkippedMeansInited
