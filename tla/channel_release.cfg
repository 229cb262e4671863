SPECIFICATION FairSpec
CONSTANTS
  Arch = "x86"
  ChannelCount = 2
  Stride = 5
  BufferSize = 2
  MaxSwitchRun = 1
  MaxOps = 1
  MaxSwitches = 1
PROPERTY TerminationReachesAgent
CHECK_DEADLOCK FALSE
