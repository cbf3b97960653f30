SPECIFICATION Spec
CONSTANTS
  web = web
  job = job
  b1 = b1
  b2 = b2
  b3 = b3
  Editors = {web}
  Jobs = {job}
  Bodies = {b1, b2, b3}
  NumVersions = 2
  NumDocs = 2
  KeepVersions = {0, 1}
  OnExpire = {"archive", "delete"}
  None = None
SYMMETRY DocumentSymmetry
INVARIANTS HeadIsNewest LockMissesOnlyRewritten IndexFollows
CHECK_DEADLOCK FALSE
