SPECIFICATION Spec
CONSTANTS
  Procs = {p, q}
  Spaces = {m, n}
  Keys = {k}
  Pruners = {p, q}
  None = None
INVARIANTS TypeOK PruneComesFirst
PROPERTIES Untouchable GraceCovers
SYMMETRY Symmetric
CHECK_DEADLOCK FALSE
