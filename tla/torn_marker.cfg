SPECIFICATION FairSpec
CONSTANTS
  Batch = {b1}
  Pod = {p1}
  None = None
  MaxPrompts = 1
  MaxRuns = 1
  MaxFaults = 2
  Faults = {"raise", "kill"}
PROPERTIES
  FailureIsReported
