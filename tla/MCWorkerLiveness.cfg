SPECIFICATION FairSpec
CONSTANTS
  w1 = w1
  w2 = w2
  t1 = t1
  Workers = {w1, w2}
  Tasks = {t1}
  None = None
  LostAfter = 1
  Orphan = 1
  Retention = 2
  ReapEvery = 2
  MaxMissed = 2
  MaxTime = 3
INVARIANTS BeatingWorkerKeepsItsTask
PROPERTIES PrunedHoldsNothing DeadWorkersTaskReaped
CHECK_DEADLOCK FALSE
