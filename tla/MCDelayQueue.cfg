SPECIFICATION DelayQueueSpec
CONSTANT sz = 3
CONSTANT Latency = {0, 3}
CONSTANT Item = {i1}
CONSTANT NoItem = NoItem
INVARIANT OnlyReadyReleased
