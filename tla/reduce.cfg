SPECIFICATION Spec
CONSTANTS
  MaxAddresses = 10
  MaxMaxSize = 3
  MaxWays = 4
INVARIANTS InRange Sound Complete
PROPERTY Terminates
CHECK_DEADLOCK FALSE
