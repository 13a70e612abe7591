\* One batch of two prompts, one pod, two more executions by hand, and one fault of
\* any kind but the end of the pod.
SPECIFICATION StreamSpec
CONSTANTS
  Batch = {b1}
  Pod = {p1}
  None = None
  MaxPrompts = 2
  MaxRuns = 3
  MaxFaults = 1
  Faults <- StreamFaults
INVARIANTS
  StreamTypeOK
  StreamNeverBreaks
  StreamIsOneResult
CHECK_DEADLOCK FALSE
