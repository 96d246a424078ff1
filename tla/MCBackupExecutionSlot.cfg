SPECIFICATION Spec
CONSTANTS
  r1 = r1
  r2 = r2
  r3 = r3
  s1 = s1
  s2 = s2
  NoRun = NoRun
  Runs <- TwoRuns
  Schedules <- MCSchedules
  SchedOf <- SchedOfTwo
  MaxQueueSize = 1
  Entries <- AllEntries
  MaxLost = 0
INVARIANT SlotMeansBackup
CHECK_DEADLOCK FALSE
