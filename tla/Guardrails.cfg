SPECIFICATION Spec

CONSTANTS
  Callers = {c1}
  NetworkTools = {"http_request"}
  IsolatedTools = {"execute_code", "git_ops"}
  OtherTools = {"read_file"}
  s1 = s1
  s2 = s2
  c1 = c1
  Schemas = {s1, s2}

SYMMETRY Symmetry

INVARIANTS
  TypeOK
  AllowedWasAvailable
  AllowedUnderContract
