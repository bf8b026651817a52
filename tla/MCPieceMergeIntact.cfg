SPECIFICATION Spec
CONSTANTS
  BlockSize = 16
  Lengths = {16, 17, 31, 32, 33, 48, 49}
  ChunkSizes = {1, 2, 3, 4, 5, 8, 11, 12, 13, 14, 15}
INVARIANTS MergedIntact
CHECK_DEADLOCK FALSE
