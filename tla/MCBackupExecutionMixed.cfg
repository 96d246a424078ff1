SPECIFICATION FairSpec
CONSTANTS
  r1 = r1
  r2 = r2
  r3 = r3
  s1 = s1
  s2 = s2
  NoRun = NoRun
  Runs <- TwoRuns
  Schedules <- MCSchedules
  SchedOf <- SchedOfTwo
  MaxQueueSize = 2
  Entries <- AllEntries
  MaxLost = 1
INVARIANTS
  ClientIsTold
PROPERTIES
  RefinesLifecycle
  StartedRunsLeave
  LockReleased
CHECK_DEADLOCK FALSE
