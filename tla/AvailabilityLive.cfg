SPECIFICATION FairSpec
CONSTANTS
  Instances = {i1, i2}
  Self = self
  NoOne = none
  Interval = 1
  Timeout = 1
  MaxTime = 2
  MaxChanges = 2
  MaxReports = 0
  MaxFaults = 1
PROPERTIES RunsKeepUp
CHECK_DEADLOCK FALSE
