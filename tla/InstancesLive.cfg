SPECIFICATION FairSpec
CONSTANTS
  MaxNames = 3
  Shoots = {s1}
  NoShoot = none
  MaxSpec = 2
  MaxFaults = 1
  MaxMeddle = 0
PROPERTIES DeletionCompletes SpecDeployed
CHECK_DEADLOCK FALSE
