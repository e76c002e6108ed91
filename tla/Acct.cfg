CONSTANTS
  p1 = p1
  p2 = p2
  u1 = u1
  u2 = u2
  f1 = f1
  f2 = f2
  Procs = {p1, p2}
  Users = {u1, u2}
  Files = {f1}
  Enas <- MCEnas
  Conds <- MCConds
  Opens <- MCOpens
  None = None
  MaxSeq = 2
  MaxCount = 2
SPECIFICATION Spec
INVARIANTS WatchInOrder NoLostWakeup CountCovers
PROPERTIES WakesUp
CHECK_DEADLOCK FALSE
