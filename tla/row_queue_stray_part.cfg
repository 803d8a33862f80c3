SPECIFICATION Spec
CONSTANTS
  r1 = r1
  r2 = r2
  k1 = k1
  k2 = k2
  None = None
  Torn = Torn
  Rows <- Rows1
  Keys <- TwoKeys
  Ids <- IdsOneRow
  NoCommit = {}
  Filtered = {}
  MaxRuns = 2
  MaxJobs = 1
  MayTear = FALSE
  MayDirty = FALSE
INVARIANTS
  TierIsThisRuns
CHECK_DEADLOCK FALSE
