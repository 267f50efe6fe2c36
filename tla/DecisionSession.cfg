SPECIFICATION Spec
CONSTANTS
  c1 = c1
  c2 = c2
  Contexts = {c1, c2}
  Locales = {"en", "ko"}
  Methods <- MCMethods
  Catalogue <- MCCatalogue
  Features = {"mechanical", "cue", "doubt", "bar"}
  Mechanical = "mechanical"
  Uncertainty = {"doubt"}
  Shapes = {"memo"}
  Memo = "memo"
  Fallbacks <- MCFallbacks
  MaxEntries = 2
  Absent = Absent
  Unscoped = Unscoped
  Judgments <- MCJudgments
  Asked <- MCAsked
  Projected <- MCProjected
  MaxEpoch = 1
  MaxRequests = 5
  MaxInFlight = 1
SYMMETRY Symmetry
INVARIANTS
  WithheldIsHeld
  NothingContraindicated
PROPERTIES
  RejectedChangesNothing
CHECK_DEADLOCK FALSE
