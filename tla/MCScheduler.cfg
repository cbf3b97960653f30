SPECIFICATION Spec
CONSTANTS
  t1 = t1
  t2 = t2
  o1 = o1
  Ticks = {t1, t2}
  Requests = {o1}
  Mortal = {t1, t2}
  Every = 1
  RunAt = 2
  Stale = 1
  Settings <- MCSettings
  Cadences = {"interval", "once"}
  MaxTime = 2
SYMMETRY TickSymmetry
INVARIANTS SlotFiresOnce NeverWedged BacklogFiresOnce
CHECK_DEADLOCK FALSE
