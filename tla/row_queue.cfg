SPECIFICATION Spec
CONSTANTS
  r1 = r1
  r2 = r2
  k1 = k1
  k2 = k2
  None = None
  Torn = Torn
  Rows <- Rows1
  Keys <- OneKey
  Ids <- IdsJustOne
  NoCommit = {}
  Filtered = {}
  MaxRuns = 2
  MaxJobs = 2
  MayTear = FALSE
  MayDirty = FALSE
INVARIANTS
  TypeOK
  OneMeasurer
  NoOrphanBesideRun
PROPERTIES
  OkIsComplete
  ImplementsLedger
CHECK_DEADLOCK FALSE
