SPECIFICATION WalkerSpec
CONSTANTS
  Cpu = {0}
  cpu = 0
  VPage <- TwoPages
  Touched <- OnlyZero
  Radix = 2
  pt_levels = 5
  UnitsPerPage = 4
  Shuffle <- Shuffled
  RQ_SIZE = 1
  MSHR_SIZE = 2
  MAX_READ = 1
  MAX_FILL = 1
  NUM_SET <- OneWay
  NUM_WAY <- OneWay
  minor_fault_penalty = 1
  PtesPerBlock = 2
  LowerRoom = 2
INVARIANT WalkReadsOwnTable
