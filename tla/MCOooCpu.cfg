SPECIFICATION CpuFairSpec
CONSTANT r = r
CONSTANT a = a
CONSTANT Register = {r}
CONSTANT None = None
CONSTANT Addr = {a}
CONSTANT Instruction <- Kinds
CONSTANT MaxInstr = 3
CONSTANT ROB_SIZE = 3
CONSTANT LQ_SIZE = 2
CONSTANT SQ_SIZE = 1
CONSTANT SCHEDULER_SIZE = 2
CONSTANT DISPATCH_WIDTH = 2
CONSTANT EXEC_WIDTH = 1
CONSTANT LQ_WIDTH = 1
CONSTANT SQ_WIDTH = 1
CONSTANT RETIRE_WIDTH = 1
CONSTANT MAX_READ = 1
CONSTANT EXEC_LATENCY = 1
INVARIANT SlotsTracked
INVARIANT CountersExact
INVARIANT LoadsSeeLastStore
INVARIANT OperandsReady
PROPERTY EveryInstructionRetires
