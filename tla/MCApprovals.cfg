SPECIFICATION FairSpec
CONSTANTS
  r1 = r1
  r2 = r2
  asker = asker
  nominee = nominee
  boss = boss
  gone = gone
  Requests = {r1, r2}
  Users = {asker, nominee, gone, boss}
  Active = {asker, nominee, boss}
  Staff = {boss}
  Requester = asker
  Named <- MCNamed
  Expiring = {r1}
  web = web
  sweeper = sweeper
  Procs = {web}
  Sweeper = sweeper
  None = None
  Wants = {"approved", "canceled"}
  Override = FALSE
  SelfApprove = FALSE
  Cap = 1
  LazyLimit = 1
  MaxFaults = 1
INVARIANTS TypeOK SettledIsComplete OnlyNamedDecide CapKept
PROPERTIES KeepsPromise OverdueEnds
CHECK_DEADLOCK FALSE
