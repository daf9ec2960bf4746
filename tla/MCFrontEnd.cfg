SPECIFICATION FairFrontEnd
CONSTANTS
  a1 = a1
  a2 = a2
  a3 = a3
  a4 = a4
  a5 = a5
  b1 = b1
  Ip = {a1, a2, a3, a4, a5, b1}
  Traces <- TheTraces
  page_of <- PageOf
  line_of <- LineOf
  window_of <- WindowOf
  Branch <- BranchOf
  IFETCH_SIZE = 2
  DECODE_SIZE = 1
  DISPATCH_SIZE = 1
  ROB_SIZE = 1
  FETCH_WIDTH = 2
  DECODE_WIDTH = 1
  DISPATCH_WIDTH = 1
  MAX_READ = 1
  MISPREDICT_PENALTY = 1
  dib_way = 1
  LowerRoom = 3
CHECK_DEADLOCK FALSE
INVARIANT WaitersAreAsked
INVARIANT StallHasCause
PROPERTY FetchedForReal
PROPERTY EveryInstructionDispatched
