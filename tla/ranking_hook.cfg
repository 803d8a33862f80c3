SPECIFICATION FairSpec
CONSTANTS
  i1 = i1
  i2 = i2
  off = off
  None = None
  Inputs = {i1, i2, off}
  First = {i1, off}
  Eligible = {i1, i2}
  Fan = 2
  MaxEdits = 2
  MaxFaults = 1
  Broken = FALSE
INVARIANTS TypeOK OnlyThisInput SilencedIsStale
PROPERTIES NeverReopened NoPerpetualSpinner
CHECK_DEADLOCK FALSE
