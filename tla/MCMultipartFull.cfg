SPECIFICATION FairSpec
CONSTANTS
  Callers = {c1, c2}
  Workers = {w1}
  FastWorkers = {f1}
  QueueCap = 1
  FastCap = 1
  OutCap = 1
  Window = 3
  MaxPieces = 3
  NoJob = NoJob
PROPERTIES CompressReturns
CHECK_DEADLOCK FALSE
