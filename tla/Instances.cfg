SPECIFICATION Spec
CONSTANTS
  MaxNames = 3
  Shoots = {s1, s2}
  NoShoot = none
  MaxSpec = 2
  MaxFaults = 1
  MaxMeddle = 1
INVARIANTS ImportsComplete OneShoot ImportsAlive CleanExit IndInv
PROPERTIES KeepsLifecycle RefStability ReleasedLast
CHECK_DEADLOCK FALSE
