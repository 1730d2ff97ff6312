SPECIFICATION Spec

CONSTANTS
  Dirs <- MCDirs
  Contains <- MCContains
  Runtime = {"usr"}
  Devices = {"null"}
  Requests <- MCRequests
  Resources = {"cpu", "core"}
  Asked <- MCAsked
  Default <- MCDefault
  Inherited <- MCInherited
  Threads = {t1, t2}

SYMMETRY Symmetry

INVARIANTS
  TypeOK
  FailsClosed
  NothingElseWritable
  GrantsAreComplete
  LimitsHold
