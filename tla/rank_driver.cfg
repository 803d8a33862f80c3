SPECIFICATION FairSpec
CONSTANTS
  a = a
  b = b
  u = u
  s = s
  e1 = e1
  e2 = e2
  None = None
  N = 4
  Workers = {w1, w2}
  Signedness = {u, s}
  Rows <- FewRows
INVARIANTS TypeOK SameAsSerial CountersWhole
PROPERTY RowSettles
CHECK_DEADLOCK FALSE
