SPECIFICATION Spec
CONSTANTS
  Versions = {v1, v2}
  v1 = v1
  v2 = v2
  Nothing = Nothing
  MaxOps = 4
  MaxFaults = 3
  MaxDrift = 1
INVARIANTS
  DesiredHasFiles
  SuccessMeans
  FailureRestores
  RegisteredRootExists
PROPERTIES
  UserFileKept
CHECK_DEADLOCK FALSE
