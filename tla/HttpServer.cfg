CONSTANTS
  Labels = {0, 1, 2}
  Nil = Nil
  Top = Top
  c1 = c1
  c2 = c2
  Conns = {c1, c2}
  Leavers = {c1}
  Builds <- MCBuilds
  Scripts <- MCScripts
  ObjSets <- MCObjSets
  HeaderLen = 1
  BodyLen = 2
  MaxBelow = 1
  Room = 1
  MaxOdds = 1
SPECIFICATION Spec
INVARIANTS ScrapeExact
PROPERTIES FreedWhole Served
CHECK_DEADLOCK FALSE
