SPECIFICATION Spec
CONSTANTS
  p1 = p1
  p2 = p2
  k1 = k1
  k2 = k2
  k3 = k3
  o1 = o1
  o2 = o2
  Rej = Rej
  Bad = Bad
  Empty = Empty
  None = None
  Procs = {p1, p2}
  Keys = {k1, k3}
  Objs = {o1}
  Truth <- Rejected
  Stores <- RejectedStores
  Verifiers = {p2}
  MaxInodes = 4
  MaxAsks <- Unevenly
  MayFail = TRUE
  MayEvict = TRUE
INVARIANTS
  StoredIsTruth
  Reconciles
  WithheldOnce
PROPERTIES
  NeverWorse
CHECK_DEADLOCK FALSE
