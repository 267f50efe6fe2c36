SPECIFICATION Spec
CONSTANTS
  l1 = l1
  l2 = l2
  t1 = t1
  t2 = t2
  v1 = v1
  v2 = v2
  Labs = {l1, l2}
  Groups = {"g"}
  Arms = {"A", "C"}
  Texts = {t1, t2}
  HostVersions = {v1, v2}
  Confirmation = TRUE
  Budget = 2
  MaxRuns = 3
  MaxWrites = 2
  MaxFaults = 1
  None = None
SYMMETRY Symmetry
INVARIANTS
  OneRunning
  ExportsValidate
  ApprovedWasSeen
  SameConditions
CHECK_DEADLOCK FALSE
