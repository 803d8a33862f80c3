SPECIFICATION Spec
CONSTANTS
  Procs = {p, q}
  Spaces = {m, n}
  Keys = {k}
  Pruners = {p, q}
  None = None
INVARIANT ClaimedForLife
CHECK_DEADLOCK FALSE
