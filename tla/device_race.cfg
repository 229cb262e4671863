SPECIFICATION Spec
CONSTANTS
  Threads = {t1, t2}
  Allocators = {t1, t2}
  Regions = {r1, r2}
  ChannelCount = 1
  Stride = 5
  None = None
INVARIANT AllRegionsFreed
CHECK_DEADLOCK FALSE
