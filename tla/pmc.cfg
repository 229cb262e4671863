SPECIFICATION Spec
CONSTANTS
  Methods = {"intel", "amd-zen2", "rpi5", "a64fx"}
  CounterBits = 2
  WordBits = 3
  MaxInterrupts = 1
INVARIANTS LevelTold Restored
