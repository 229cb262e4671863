SPECIFICATION Spec
CONSTANTS
  Addresses = 8
  Attempts = 1
  Caches <- AllCaches
  OffsetBits = 1
  LineBits = 3
  TargetReversedBits = 3
  TargetMappings = 5
INVARIANTS OnePerSet LocatesRight Recovers CanBegin
PROPERTY SearchEnds
CHECK_DEADLOCK FALSE
