SPECIFICATION Spec
CONSTANTS
  Arch = "x86"
  ChannelCount = 3
  Stride = 5
  BufferSize = 2
  MaxSwitchRun = 2
  MaxOps = 3
  MaxSwitches = 4
INVARIANTS InOrder NoDataRace NoWildChannel IndInv
PROPERTY Refinement
CHECK_DEADLOCK FALSE
