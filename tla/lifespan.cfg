\* One rolling update from one pod to another, two outages, one request.
SPECIFICATION FairSpec
CONSTANTS
  Pod = {p1, p2}
  Request = {r1}
  MaxOutages = 2
  MaxRollouts = 1
INVARIANTS
  LifeTypeOK
  UsersFindThemBound
  AlwaysOneServes
PROPERTIES
  SweepsResume
  RolloutEnds
