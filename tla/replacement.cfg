SPECIFICATION Spec
CONSTANTS
  Caches <- SmallCaches
  Symbols = 5
  Length = 6
  Repetitions = 3
  MinRounds = 1
INVARIANTS TruthSurvives Distinguishable
PROPERTY Identified
CHECK_DEADLOCK FALSE
