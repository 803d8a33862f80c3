SPECIFICATION FairSpec
CONSTANTS
  i1 = i1
  i2 = i2
  off = off
  None = None
  Inputs = {i1, i2, off}
  First = {i1, off}
  Eligible = {i1, i2}
  Fan = 1
  MaxEdits = 1
  MaxFaults = 0
  Broken = TRUE
PROPERTY NoPerpetualSpinner
CHECK_DEADLOCK FALSE
