SPECIFICATION Spec
CONSTANTS
  r1 = r1
  r2 = r2
  k1 = k1
  k2 = k2
  None = None
  Torn = Torn
  Rows <- Rows1
  Keys <- TwoKeys
  Ids <- IdsOneRow
  NoCommit = {}
  Filtered = {}
  MaxRuns = 3
  MaxJobs = 1
  MayTear = TRUE
  MayDirty = TRUE
INVARIANTS
  NeverRemeasured
  OneTree
  Resumable
  CleanPast
CHECK_DEADLOCK FALSE
