SPECIFICATION CpuFairSpec
CONSTANT r = r
CONSTANT a = a
CONSTANT Register = {r}
CONSTANT None = None
CONSTANT Addr = {a}
CONSTANT Instruction <- NoAmos
CONSTANT MaxInstr = 4
CONSTANT ROB_SIZE = 4
CONSTANT LQ_SIZE = 1
CONSTANT SQ_SIZE = 1
CONSTANT SCHEDULER_SIZE = 4
CONSTANT DISPATCH_WIDTH = 4
CONSTANT EXEC_WIDTH = 1
CONSTANT LQ_WIDTH = 1
CONSTANT SQ_WIDTH = 1
CONSTANT RETIRE_WIDTH = 1
CONSTANT MAX_READ = 1
CONSTANT EXEC_LATENCY = 1
PROPERTY EveryInstructionRetires
