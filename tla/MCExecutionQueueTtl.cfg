CONSTANTS
  r1 = r1
  r2 = r2
  r3 = r3
  s1 = s1
  s2 = s2
  c1 = c1
  c2 = c2
  hk = hk
  Items = {r1, r2}
  Schedules <- MCSchedules
  SchedOf <- MCSchedOf2
  NoItem = NoItem
  MaxQueueSize = 1
  Tasks <- MCTasks
  Housekeeper = hk
  MaxRestarts = 1
SPECIFICATION FairSpec
INVARIANT QueueBounded
PROPERTY ExpiredLeaves
CHECK_DEADLOCK FALSE
