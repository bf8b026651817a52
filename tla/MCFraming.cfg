SPECIFICATION Spec
CONSTANTS
  BlockSize = 16
  Lengths = {16, 17, 31, 32, 33, 48, 49}
  ChunkSizes = {1, 2, 3, 4, 5, 8, 11, 12, 13, 14, 15}
  Base = 2
  Guids <- MCGuids
  Keys <- MCKeys
  Vals <- MCVals
  MaxParams = 2
  Senders = {"a", "b"}
  Plans <- MCPlans
  Styles <- MCStyles
  MaxFaults = 1
  MaxForwards = 1
INVARIANTS PiecesMerged ParametersRead StreamsServed
PROPERTY SentIsServed
CHECK_DEADLOCK FALSE
