SPECIFICATION Spec
CONSTANTS
  Batch = {b1}
  Pod = {p1, p2}
  None = None
  MaxPrompts = 2
  MaxRuns = 1
  MaxFaults = 1
  Faults <- AllFaults
INVARIANTS
  CompletedMeansDelivered
  VerdictIsRays
  JobHasRowAndInput
  PolledIsCounted
PROPERTIES
  EndIsNeverRevised
  OverlapKept
