\* Two pods and two batches; the first init has used up the three faults, the second
\* leaves one of any kind to one batch.
SPECIFICATION LiveSpec
CONSTANTS
  Batch = {b1, b2}
  Pod = {p1, p2}
  None = None
  MaxPrompts = 1
  MaxRuns = 1
  MaxFaults = 3
  Faults <- AllFaults
PROPERTIES
  AcceptedSettles
