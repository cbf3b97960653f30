SPECIFICATION FairSpec
CONSTANTS
  i1 = i1
  r1 = r1
  w1 = w1
  w2 = w2
  Issues = {i1}
  Readers = {r1}
  Workers = {w1, w2}
  None = None
  FromPost = {i1}
  Batch = 1
  MaxBatches = 2
  MaxAttempts = 2
INVARIANTS SecondCopyExplained
PROPERTIES SentIsTerminal IssueFinalized
CHECK_DEADLOCK FALSE
