SPECIFICATION Spec
CONSTANTS
  Batch = {b1}
  Pod = {p1, p2}
  None = None
  MaxPrompts = 1
  MaxRuns = 1
  MaxFaults = 0
  Faults = {}
PROPERTIES
  TerminalIsFinal
