SPECIFICATION Spec
CONSTANTS
  Deployments = {d1}
  Targets = {t1}
  None = none
  MaxNames = 1
  MaxSpec = 1
  MaxFaults = 0
  MaxUser = 0
  MaxTouch = 0
INVARIANTS ListedAreUsers
CHECK_DEADLOCK FALSE
