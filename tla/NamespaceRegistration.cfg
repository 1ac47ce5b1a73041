SPECIFICATION FairSpec
CONSTANTS
  Installations = {i1, i2}
  Strategies = {"default", "all", "allWithoutUninstall", "unknown"}
  MaxFaults = 1
  MaxUser = 2
  MaxRegs = 2
  MaxFailures = 1
INVARIANTS Accounted CompletedIsUsable AccessEndsFirst
PROPERTIES KeptWithoutUninstall DeletionCompletes CreationCompletes
CHECK_DEADLOCK FALSE
