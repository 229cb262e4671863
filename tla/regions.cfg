SPECIFICATION Spec
CONSTANTS
  Frames = 9
  Busy = {8}
  VirtualOffset = 8
  MinSize = 5
  MaxOrder = 2
  Alignment = {0, 1, 2}
INVARIANTS RegionsExact DrawsValid
PROPERTY ConstructorEnds
CHECK_DEADLOCK FALSE
