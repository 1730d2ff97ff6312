SPECIFICATION Spec

CONSTANTS
  Definitions <- MCDefinitions
  Values <- MCValues
  Types <- MCTypes
  Names <- MCNames
  Texts = {"x", "y"}
  LowerTrim <- MCLowerTrim
  Trim <- MCTrim
  Indices = {"0", "1"}
  Items = "[]"
  NoBound = NoBound

INVARIANTS
  TypeOK
  ContractIsPublished
  AcceptedIsDeclared
  VerdictIsConformance
