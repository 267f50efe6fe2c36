SPECIFICATION Spec
CONSTANTS
  Procs = {p1, p2}
  p1 = p1
  p2 = p2
  Controls <- MCControls
  MaxAccepted = 3
  MaxCalls = 4
  MaxMonths = 1
  MaxFaults = 0
SYMMETRY Symmetry
INVARIANTS
  RecordedOnce
CHECK_DEADLOCK FALSE
