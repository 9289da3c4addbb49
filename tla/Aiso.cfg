SPECIFICATION MCSpec
CONSTANTS
  MaxRuns = 6
  MaxSize = 4
  Values <- MCValues
  Before <- MCBefore
  Nil = Nil
INVARIANTS
  TypeOK
PROPERTIES
  Refinement
CHECK_DEADLOCK FALSE
