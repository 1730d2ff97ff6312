SPECIFICATION Spec

CONSTANTS
  Names = {"w", "src", "secrets", "k.pem", ".", ".."}
  MaxSegments = 3
  Entries = {"src", "secrets"}
  Policies <- MCPolicies
  Cwd <- MCWorkspace
  Arguments <- MCArguments
  Companions <- MCCompanions
  Dotted <- MCDotted
  Wild <- MCWild

INVARIANTS
  TypeOK
  NoSecretPasses
  StaysInAllowed
  CheckStaysInside
  DenialHasGround
