SPECIFICATION Spec
CONSTANTS
  Procs = {i1, i2, i3}
  i1 = i1
  i2 = i2
  i3 = i3
  NoPid = NoPid
  Ended = Ended
  MaxCrashes = 0
INVARIANTS
  MutualExclusion
