SPECIFICATION FairSpec
CONSTANTS
  a1 = a1
  a2 = a2
  a3 = a3
  v1 = v1
  NoAddr = NoAddr
  Index = {0}
  index_of <- OneSet
  Addr = {a1, a2}
  Line = {a1, a2}
  line_of <- SameLine
  NUM_WAY = 2
  Assocs = {1, 2}
  Requester = {u1}
  RqTypes = {"LOAD"}
  PqTypes = {}
  demand_level = "above"
  WqTypes = {"WRITEBACK"}
  Prefetchable = {}
  va_to_pa <- NoFunction
  RQ_SIZE = 1
  WQ_SIZE = 1
  PQ_SIZE = 0
  MSHR_SIZE = 2
  HIT_LATENCY = 1
  FILL_LATENCY = 1
  VA_PREFETCH_TRANSLATION_LATENCY = 2
  MAX_READ = 1
  MAX_WRITE = 1
  match_offset_bits = FALSE
  virtual_prefetch = FALSE
  packet_can_merge = TRUE
  is_L1D = FALSE
  LowerWqSize = 1
PROPERTY EveryRequestAnswered
