SPECIFICATION Spec
CONSTANTS
  Arch = "x86"
  ChannelCount = 4
  Stride = 5
  BufferSize = 7
  MaxSwitchRun = 4
  MaxOps = 1
  MaxSwitches = 4
INVARIANT NoWildChannel
CHECK_DEADLOCK FALSE
