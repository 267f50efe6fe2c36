SPECIFICATION Spec
CONSTANTS
  Procs = {p1, p2}
  p1 = p1
  p2 = p2
  NoProc = NoProc
  Kinds <- MCKinds
  MaxEvents = 3
  MaxFaults = 2
  MaxDamage = 0
INVARIANTS
  AckedLive
