SPECIFICATION FairSpec
CONSTANTS
  Callers = {c1, c2}
  Workers = {w1, w2}
  FastWorkers = {f1}
  QueueCap = 4
  FastCap = 1
  OutCap = 1
  Window = 2
  MaxPieces = 3
  NoJob = NoJob
INVARIANTS TypeOK BuffersPrivate PiecesExact
PROPERTY CompressReturns
