SPECIFICATION Spec

CONSTANTS
  Blocked <- MCBlocked
  NetworkCalls <- MCNetworkCalls
  Numbers = {0, 1, 2, 3, 4, 5, 6, 7, 8}
  X32Bit = 6
  Architectures = {100, 101}
  Native = 100

INVARIANTS
  TypeOK
  FilterDecides
  NetworkFollowsPolicy
