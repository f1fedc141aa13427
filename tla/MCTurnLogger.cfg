SPECIFICATION Spec
CONSTANTS
  Threads = {t1, t2}
  MaxRecords = 4
  RotateAt = 2
  MaxCrashes = 1
CHECK_DEADLOCK FALSE
INVARIANTS
  TypeOK
  AckedStaysOnDisk
  CounterMatchesFile
PROPERTIES
  LogReturns
