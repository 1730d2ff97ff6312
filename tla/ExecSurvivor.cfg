SPECIFICATION ExecSpec

CONSTANTS
  leader = leader
  child = child
  env = env
  Procs = {leader, child}
  Leader = leader
  Limit = 1
  MaxBytes = 0
  Files = {env}
  Denied = {env}
  Skipped = {}
  Backdating = FALSE

INVARIANTS
  AllowedRunIsClean
