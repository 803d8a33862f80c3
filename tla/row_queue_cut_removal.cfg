SPECIFICATION Spec
CONSTANTS
  r1 = r1
  r2 = r2
  k1 = k1
  k2 = k2
  None = None
  Torn = Torn
  Rows <- Rows2
  Keys <- OneKey
  Ids <- IdsTwo
  NoCommit = {}
  Filtered = {}
  MaxRuns = 2
  MaxJobs = 1
  MayTear = FALSE
  MayDirty = FALSE
INVARIANTS
  ResumeIsExact
CHECK_DEADLOCK FALSE
