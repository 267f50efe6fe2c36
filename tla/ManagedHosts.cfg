SPECIFICATION Spec
CONSTANTS
  Versions = {v1, v2}
  Nothing = none
  MaxOps = 3
  MaxFaults = 3
  MaxEdits = 1
INVARIANTS
  PreimageHeld
  EditsHeld
  FailureRestores
  SuccessMeans
CHECK_DEADLOCK FALSE
