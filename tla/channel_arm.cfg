SPECIFICATION FairSpec
CONSTANTS
  Arch = "arm"
  ChannelCount = 3
  Stride = 5
  BufferSize = 2
  MaxSwitchRun = 2
  MaxOps = 3
  MaxSwitches = 2
INVARIANT ResultIsOwn
PROPERTIES SyncReturns SubmittedExecuted ReleaseStopsAgent
CHECK_DEADLOCK FALSE
