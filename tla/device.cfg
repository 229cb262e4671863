SPECIFICATION FairSpec
CONSTANTS
  Threads = {t1, t2, t3}
  Allocators = {t1}
  Regions = {r1, r2, r3}
  ChannelCount = 3
  Stride = 5
  None = None
INVARIANTS RefCount NoUseAfterFree AllRegionsFreed ReplyIsOwn
PROPERTIES OneAgent EventuallyFreed
CHECK_DEADLOCK FALSE
