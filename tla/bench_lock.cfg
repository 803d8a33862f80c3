SPECIFICATION Spec
CONSTANTS
  p1 = p1
  p2 = p2
  p3 = p3
  A = A
  B = B
  t1 = t1
  t2 = t2
  None = None
  Torn = Torn
  Pids = {p1, p2, p3}
  Jobs <- ManyJobs
  Capacity = 3
  MaxStarts = 3
  Recycle = TRUE
SYMMETRY Renamed
INVARIANTS TypeOK RecordKept KeptApart MemoryFits
CHECK_DEADLOCK FALSE
