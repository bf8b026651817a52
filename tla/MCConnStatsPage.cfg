SPECIFICATION Spec
CONSTANTS
  Conns = {c1, c2}
  Actions = {a1}
  MaxSize = 1
  MaxRequests = 1
INVARIANTS PageServed
CHECK_DEADLOCK FALSE
