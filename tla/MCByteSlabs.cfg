SPECIFICATION FairSpec
CONSTANTS
  Requests = {r1, r2}
  ChunkCount = 2
  SlabCount = 3
  SlabSize = 4
  SmallSize = 1
  RouteReserve = 1
  Sizes = {2, 3, 6}
  MaxCalls = 3
  NoOne = NoOne
  NoChunk = NoChunk
INVARIANTS TypeOK MemorySafe SlabsExact TotalsAgree
PROPERTIES ImplementsPool CallsReturn
