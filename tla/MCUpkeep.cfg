SPECIFICATION Spec
CONSTANTS
  RingSize = 4
  Seconds = 6
  MaxEvents = 3
  Callers = {c1, c2, c3}
  max_compressors = 1
  MaxCompressions = 4
  Workers = {w1, w2}
  Slices = 4
  MaxSlices = 6
  MaxPieces = 3
  Texts = {t1, t2, t3}
  SizeOf <- MCSizeOf
  Half = half
  Gone = gone
  MaxWrites = 3
  MaxTime = 3
  Interfaces = {i1, i2, i3}
  Values = {v1, v2}
  Param = "BIND_TO"
  Files <- MCFiles
  Handlers = {h1, h2}
  GetActions <- MCGetActions
  Actions = {"ask", "status", "unknown"}
  OwnActions = {"status"}
  MaxRequests = 2
INVARIANTS HistoryExact WritersExact StatsExact StaleOnlyByRace ConfigMerged RequestsListed
PROPERTIES PickedUp EntryGoes
CHECK_DEADLOCK FALSE
