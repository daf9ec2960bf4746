SPECIFICATION PartsSpec
CONSTANTS
  NUM_WAY = 6
  Unused = 20
  SetWays = 3
  maxRRPV = 3
  CounterRange = 16
  SetKind = {"srrip", "ship", "drrip", "drrip_sampled"}
  sz = 3
  Latency = {2}
  Item = {x1, x2}
  NoItem = NoItem
  NUM_CPUS = 2
  RETIRE_WIDTH = 2
  warmup_instructions = 1
  simulation_instructions = 2
  MaxAhead = 2
  MaxRetired = 8
  ScaleNum = 5
  ScaleDen = 2
  Block = {p1, p2}
  NoBlock = NoBlock
  DRAM_RQ_SIZE = 1
  RAS_SIZE = 3
  WAYS = 2
  CallIp = {10, 40}
  IndirectIp = {40}
  ConditionalIp = {70, 80}
  BranchIp = {10, 40, 70, 80}
  CallSize <- SizeOf
  tracker_of <- TrackerOf
  hash_of <- HashOf
  HISTORY = 1
  Goal = {200}
  Elsewhere = 500
  MaxDepth = 5
  MaxUses = 3
  IPT_NUM = 2
  LoadIp = {i1, i2, i3}
  NoIp = NoIp
  Addr <- AddrOf
  i1 = i1
  i2 = i2
  i3 = i3
  PageSize = 8
  L1_STRIDE_DISTANCE = 1
  L2_STRIDE_DISTANCE = 2
  SP_CONF_MAX = 3
  Watched = i1
  Record = {1, 2, 3}
  MaxTraceLength = 3
CHECK_DEADLOCK FALSE
INVARIANT CountersStacked
PROPERTY EvictsLeastRecent
INVARIANT VictimWithinReach
PROPERTY ImplementsReadyFifo
INVARIANT MetaRqExact
INVARIANT MeasuredAlike
INVARIANT KeepsFrequency
PROPERTY SimulationLive
PROPERTY EveryWalkEnds
PROPERTY ImplementsReturnStack
INVARIANT ReturnPredicted
INVARIANT KnowsLastOutcome
INVARIANT AsksAfterTwo
INVARIANT TargetIsNext
