SPECIFICATION SDFairSpec
CONSTANTS
  Procs = {i1, i2}
  i1 = i1
  i2 = i2
  NoPid = NoPid
  Ended = Ended
  MaxCrashes = 1
  Hosts = {codex}
  codex = codex
  MaxPurges = 1
CONSTRAINT FollowSharing
INVARIANTS
  ExclusiveUnlessOvertaken
  RecordKept
PROPERTIES
  JobsEnd
  DeadLockGoes
