SPECIFICATION FairSpec
CONSTANTS
  Deployments = {d1}
  Targets = {t1, t2}
  None = none
  MaxNames = 2
  MaxSpec = 2
  MaxFaults = 1
  MaxUser = 1
  MaxTouch = 1
PROPERTIES DeletionCompletes SpecArrives TargetFixed
CHECK_DEADLOCK FALSE
