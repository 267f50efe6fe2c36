SPECIFICATION FairSpec
CONSTANTS
  Calls = {c1}
  Closers = {k1, k2}
  c1 = c1
  k2 = k2
  k1 = k1
INVARIANTS
  NothingLeft
  AnswerMeansQuiet
  CancelOverrules
  CloseReachesAll
PROPERTIES
  EveryCallReturns
CHECK_DEADLOCK FALSE
