SPECIFICATION Spec
CONSTANTS
  Instances = {i1}
  Self = self
  NoOne = none
  Interval = 1
  Timeout = 1
  MaxTime = 3
  MaxChanges = 3
  MaxReports = 3
  MaxFaults = 1
INVARIANTS ReportedWasUploaded UploadIsCurrent RegisteredAtRest
PROPERTIES FailureSurfaces
CHECK_DEADLOCK FALSE
