SPECIFICATION InferSpec
CONSTANTS
  Batch = {b1}
  MaxPrompts = 2
  MaxRuns = 2
INVARIANTS
  InferTypeOK
  MarkerTellsResults
  FirstRunIsClean
  ExitCodeTellsMarkers
PROPERTY ContractKept
CHECK_DEADLOCK FALSE
