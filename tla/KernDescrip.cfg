CONSTANTS
  None = None
  NDFILE = 2
  NDEXTENT = 3
  NDENTRIES = 2
  Lim = 4
  FdMax = 6
  p1 = p1
  p2 = p2
  p3 = p3
  T1 = T1
  T2 = T2
  f1 = f1
  f2 = f2
  f3 = f3
  f4 = f4
  v1 = v1
  v2 = v2
  Threads = {p1, p2, p3}
  Tables = {T1, T2}
  Files = {f1, f2, f3, f4}
  Vnodes = {v1, v2}
  FDUP_MAX_COUNT = 5
  maxfiles = 3
  Scenarios <- MCScenarios
SPECIFICATION Spec
INVARIANTS SlotKept MapExact LocksOwned CountsExact
PROPERTIES Returns
CHECK_DEADLOCK FALSE
