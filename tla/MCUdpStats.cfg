SPECIFICATION FairSpec
CONSTANTS
  Keys = {k1, k2}
  Requests = {r1, r2, r3}
  Cleaners = {g1, g2}
  NumCleaners = 3
  MaxDatagrams = 3
  NoEntry = NoEntry
  NoOne = NoOne
INVARIANTS TypeOK EntriesExact
PROPERTY EntriesGo
