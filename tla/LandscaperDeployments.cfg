SPECIFICATION Spec
CONSTANTS
  Deployments = {d1, d2}
  Targets = {t1, t2}
  None = none
  MaxNames = 3
  MaxSpec = 1
  MaxFaults = 1
  MaxUser = 1
  MaxTouch = 0
INVARIANTS OneInstance NoOrphan NotForgotten
PROPERTIES KeepsLifecycle NoLostEntry ReleasedFirst
CHECK_DEADLOCK FALSE
SYMMETRY Symmetry
