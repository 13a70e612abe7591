SPECIFICATION Spec
CONSTANTS
  Batch = {b1}
  Pod = {p1}
  None = None
  MaxPrompts = 2
  MaxRuns = 1
  MaxFaults = 2
  Faults <- AllFaults
INVARIANTS
  TypeOK
  UnattachedIsCreators
  ReplyIsKept
  EndIsTimed
PROPERTIES
  TerminalIsFinal
  LifecycleKept
