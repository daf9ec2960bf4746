SPECIFICATION Spec
CONSTANTS
  a1 = a1
  a2 = a2
  a3 = a3
  v1 = v1
  NoAddr = NoAddr
  Index = {0}
  index_of <- OneSet
  Addr = {a1, a2, a3}
  Line = {a1, a3}
  line_of <- TwoWords
  NUM_WAY = 2
  Assocs = {2}
  Requester = {u1, u2}
  RqTypes = {"LOAD"}
  PqTypes = {}
  demand_level = "here"
  WqTypes = {"RFO"}
  Prefetchable = {v1}
  va_to_pa <- Virtual
  RQ_SIZE = 1
  WQ_SIZE = 1
  PQ_SIZE = 1
  MSHR_SIZE = 2
  HIT_LATENCY = 1
  FILL_LATENCY = 1
  VA_PREFETCH_TRANSLATION_LATENCY = 1
  MAX_READ = 2
  MAX_WRITE = 1
  match_offset_bits = TRUE
  virtual_prefetch = TRUE
  packet_can_merge = FALSE
  is_L1D = TRUE
  LowerWqSize = 1
SYMMETRY Symmetry
INVARIANT RepliesOwed
INVARIANT NoDuplicateLine
