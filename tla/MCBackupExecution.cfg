SPECIFICATION Spec
CONSTANTS
  r1 = r1
  r2 = r2
  r3 = r3
  s1 = s1
  s2 = s2
  NoRun = NoRun
  Runs <- ThreeRuns
  Schedules <- MCSchedules
  SchedOf <- SchedOfThree
  MaxQueueSize = 1
  Entries <- StartAndLocal
  MaxLost = 0
SYMMETRY Symmetry
INVARIANTS
  TypeOK
  OneBackupAtATime
  NothingOutlivesTheLock
  RegistryIndexed
  ClientIsTold
PROPERTY RefinesLifecycle
CHECK_DEADLOCK FALSE
