SPECIFICATION InferSpec
CONSTANTS
  Batch = {b1}
  MaxPrompts = 2
  MaxRuns = 2
INVARIANT
  EveryRunIsClean
CHECK_DEADLOCK FALSE
