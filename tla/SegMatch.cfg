SPECIFICATION FairSpec

CONSTANTS
  Symbols = {"*", "?", "a", "b"}
  NameSymbols = {"a", "b"}
  MaxPattern = 4
  MaxName = 4
  Patterns <- MCPatterns
  Names <- MCNames

INVARIANTS
  TypeOK
  MatchIsSound
  NoMatchIsRight

PROPERTIES
  Terminates
