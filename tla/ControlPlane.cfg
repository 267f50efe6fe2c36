SPECIFICATION Spec
CONSTANTS
  Procs = {p1, p2}
  p1 = p1
  p2 = p2
  Controls <- MCControls
  MaxAccepted = 3
  MaxCalls = 4
  MaxMonths = 2
  MaxFaults = 1
SYMMETRY Symmetry
INVARIANTS
  TypeOK
  AcceptedIsRecorded
  OrphansStayOrphans
  LogLeads
  AcceptedOnce
  AnswersAgree
  OneContinuation
PROPERTIES
  NeverReissued
  NothingForgotten
CHECK_DEADLOCK FALSE
