SPECIFICATION FairSpec

CONSTANTS
  leader = leader
  a = a
  b = b
  Procs = {leader, a, b}
  Leader = leader
  Limit = 1
  MaxBytes = 2

INVARIANTS
  TypeOK
  SuccessIsComplete
  OutputIsCapped
  TimeoutKillsGroup
  KillMeansTimeout
  HomeForTheRun

PROPERTIES
  Termination
