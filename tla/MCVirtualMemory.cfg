SPECIFICATION VMemSpec
CONSTANTS
  Cpu = {0}
  VPage <- TwoPages
  Radix = 2
  pt_levels = 2
  UnitsPerPage = 1
  Shuffle <- Shuffled
INVARIANT FreeListIsFree
CHECK_DEADLOCK FALSE
