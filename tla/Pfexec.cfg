CONSTANTS
  p1 = p1
  p2 = p2
  Procs = {p1, p2}
  None = None
  PwUid <- MCPwUid
  NumId <- MCNumId
  PwEnt <- MCPwEnt
  GrGid <- MCGrGid
  NGROUPS_MAX = 3
  Logins <- MCLogins
  Execs <- MCExecs
  Commands <- MCCommands
  Confs <- MCConfs
  MaxStarts = 2
SPECIFICATION Spec
INVARIANTS  ErrorChangesNothing StackOutlivesTasks
PROPERTIES CallsReturn
CHECK_DEADLOCK FALSE
