CONSTANTS
  r1 = r1
  r2 = r2
  r3 = r3
  s1 = s1
  s2 = s2
  c1 = c1
  c2 = c2
  hk = hk
  Items <- MCItems
  Schedules <- MCSchedules
  SchedOf <- MCSchedOf
  NoItem = NoItem
  MaxQueueSize = 2
  Tasks <- MCTasks
  Housekeeper = hk
  MaxRestarts = 1
SPECIFICATION Spec
INVARIANTS TypeOK DispatchedIsGone NoScheduleTwice RowsVisible
PROPERTY RefinesFifo
CHECK_DEADLOCK FALSE
SYMMETRY Symmetry
