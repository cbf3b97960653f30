SPECIFICATION Spec
CONSTANTS
  cron = cron
  ping = ping
  Runners = {cron, ping}
  DayLength = 2
  Retention = 2
  MaxCheck = 1
  Plans <- MCPlans
  MaxActs = 2
  MaxTime = 4
  Serial = FALSE
  Zones <- MCZones
  None = None
SYMMETRY RunnerSymmetry
CONSTRAINT NotTorn
INVARIANTS BeatsCountedOnce OverallByHand
PROPERTIES FoldKeepsUptime
CHECK_DEADLOCK FALSE
