SPECIFICATION FairSpec
CHECK_DEADLOCK FALSE
CONSTANTS
  Threads = {t1, t2, t3}
  Files = {f1, f2}
  NoFile = NoFile
  MaxCalls = 2
INVARIANTS
  TypeOK
  UsesAreOfAnOpenDatabase
  InitOpensItsFile
PROPERTIES
  InstenceIsFinal
  CallsReturn
