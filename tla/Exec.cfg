SPECIFICATION ExecFairSpec

CONSTANTS
  leader = leader
  child = child
  env = env
  Procs = {leader, child}
  Leader = leader
  Limit = 1
  MaxBytes = 1
  Files = {env}
  Denied = {env}
  Skipped = {}
  Backdating = TRUE

INVARIANTS
  ExecTypeOK
  AllowIsEarned
  QuietRunIsClean

PROPERTIES
  ImplementsContract
  AnswersEveryRequest
