SPECIFICATION Spec

CONSTANTS
  PolicyFiles <- MCPolicyFiles
  IntHalf = 32
  LongHalf = 32
  Second = 2
  MegaByte = 4
  Grace = 2
  DefaultTimeout = 3
  Default <- MCDefault
  SandboxDefault <- MCSandboxDefault
  HardLimits <- MCHardLimits
  Unlimited = Unlimited
  One = 3
  JevDefault = 2
  Reported <- MCReported
  NaN = NaN
  Missing = Missing
  Empty = Empty
  Failed = Failed
  None = None

INVARIANT AllowIsJudged
