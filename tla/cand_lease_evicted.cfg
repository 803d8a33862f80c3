SPECIFICATION Spec
CONSTANTS
  Procs = {p, q}
  Spaces = {n}
  Keys = {k}
  Pruners = {p}
  None = None
INVARIANT ServedStays
CHECK_DEADLOCK FALSE
