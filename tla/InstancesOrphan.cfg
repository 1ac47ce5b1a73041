SPECIFICATION Spec
CONSTANTS
  MaxNames = 2
  Shoots = {s1}
  NoShoot = none
  MaxSpec = 2
  MaxFaults = 0
  MaxMeddle = 0
INVARIANT OneInstallation
CHECK_DEADLOCK FALSE
