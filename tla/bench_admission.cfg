SPECIFICATION Spec
CONSTANTS
  p1 = p1
  p2 = p2
  p3 = p3
  A = A
  B = B
  t1 = t1
  t2 = t2
  None = None
  Torn = Torn
  Pids = {p1, p2}
  Jobs <- FewJobs
  Capacity = 3
  MaxStarts = 2
  Recycle = FALSE
INVARIANT SecondSeesFirst
CHECK_DEADLOCK FALSE
