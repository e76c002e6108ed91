CONSTANTS
  L = L
  M = M
  G = G
  a1 = a1
  a2 = a2
  OctetBits = 2
  Switches = {L, M, G}
  Adaptors = {a1, a2}
  Scenarios <- Rings
SPECIFICATION Spec
INVARIANTS LesserOnly
CHECK_DEADLOCK FALSE
