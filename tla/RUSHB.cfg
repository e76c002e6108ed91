CONSTANTS
  f = f
  g = g
  p1 = p1
  p2 = p2
  t1 = t1
  t2 = t2
  t3 = t3
  Names <- MCNames
  Files <- MCFiles
  SeqMod = 5
  Empty = Empty
  Garbage = Garbage
  None = None
  Runt = Runt
  Ports = {p1}
  Threads = {t1}
  AddrOf <- MCAddrOf
  MAX_TIMEOUT = 1
  DEAD_TIMEOUT = 2
  Budget <- AnyFault
  Budgets <- Mixes
  Cap = 2
  Free = {}
  Wants <- MCWants
  Chk <- AllOn
  Mis <- AllOn
  Text <- MCText
SPECIFICATION FairSpec
INVARIANTS FinAckMeansComplete
PROPERTIES Transfers Delivers
