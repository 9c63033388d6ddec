SPECIFICATION Spec
CONSTANTS
  Threads = {t1, t2}
  DayLength = 3
  Rotation = 2
  LastMinute = 5
CHECK_DEADLOCK FALSE
INVARIANT ErrorsThrow
