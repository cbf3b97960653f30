SPECIFICATION FairSpec
CONSTANTS
  t1 = t1
  t2 = t2
  o1 = o1
  Ticks = {t1}
  Requests = {o1}
  Mortal = {}
  Every = 1
  RunAt = 2
  Stale = 1
  Settings <- MCSettings
  Cadences = {"cron", "once"}
  MaxTime = 2
PROPERTIES ClaimedSlotLeavesARun DueIsDecided
CHECK_DEADLOCK FALSE
