SPECIFICATION FairSpec
CONSTANTS
  r1 = r1
  r2 = r2
  r3 = r3
  w1 = w1
  w2 = w2
  Results = {r1, r2}
  Workers = {w1, w2}
  NoResult = NoResult
  Paths <- MCOnePath
  Policy <- MCShortPolicy
  Pins = {0}
  Rank <- MCOneRank
  SweepLimit = 3
  MaxRoots = 1
  MaxCalls = 1
PROPERTIES MissedRetryRepaired ReaperRerunNoticed
CHECK_DEADLOCK FALSE
