\* Three requests of any kind, scrapes among them; a body may be a prompt too long.
SPECIFICATION Spec
CONSTANTS
  Request = {r1, r2, r3}
  Batch = {b1}
  None = None
  SchemaMax = 1
SYMMETRY Symmetry
INVARIANTS
  HttpTypeOK
  AnsweredIsCounted
  ScrapeIsConsistent
CHECK_DEADLOCK FALSE
