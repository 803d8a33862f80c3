SPECIFICATION FairSpec
CONSTANTS
  r1 = r1
  r2 = r2
  k1 = k1
  k2 = k2
  None = None
  Torn = Torn
  Rows <- Rows2
  Keys <- TwoKeys
  Ids <- IdsNarrow
  NoCommit = {}
  Filtered = {k2}
  MaxRuns = 2
  MaxJobs = 1
  MayTear = TRUE
  MayDirty = TRUE
INVARIANTS
  NeverRemeasured
  OneTree
  Resumable
  CleanPast
PROPERTIES
  JournalKept
  RunEnds
  OrphansEnd
CHECK_DEADLOCK FALSE
