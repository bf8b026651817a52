SPECIFICATION FairSpec
CONSTANTS
  Conns = {c1, c2}
  Actions = {a1}
  MaxSize = 1
  MaxRequests = 2
INVARIANTS TypeOK NumbersAgree RegisterExact
PROPERTY ClosedGo
CHECK_DEADLOCK FALSE
