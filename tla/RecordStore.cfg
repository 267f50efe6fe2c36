SPECIFICATION FairSpec
CONSTANTS
  Procs = {p1, p2}
  p1 = p1
  p2 = p2
  NoProc = NoProc
  Kinds <- MCKinds
  MaxEvents = 3
  MaxFaults = 2
  MaxDamage = 1
INVARIANTS
  OneHistory
  AckedPreserved
PROPERTIES
  GoneForever
  Implements
  LockReleased
  CallsReturn
