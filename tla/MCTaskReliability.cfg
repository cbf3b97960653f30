SPECIFICATION Spec
CONSTANTS
  r1 = r1
  r2 = r2
  r3 = r3
  w1 = w1
  w2 = w2
  Results = {r1, r2, r3}
  Workers = {w1, w2}
  NoResult = NoResult
  Paths <- MCPaths
  Policy <- MCPolicy
  Pins = {0, 2}
  Rank <- MCOneRank
  SweepLimit = 3
  MaxRoots = 1
  MaxCalls = 3
SYMMETRY MCSymmetry
INVARIANTS TypeOK BudgetRespected LostRetryNeedsConsent MarkerTellsTheTruth
PROPERTIES OnlyTruthOverrulesAVerdict
CHECK_DEADLOCK FALSE
