\* Keys that can be compared and loops over four nodes; keys that cannot, and one error.
SPECIFICATION MCSpec
CONSTANTS
  Key = {1, 2, 3, 4, 5, 6}
  Odd = {1, 3}
  Val = {11}
  Node = {n1, n2, n3, n4}
  FREE = FREE
  NULL = NULL
  MaxRaises = 1
  Rank <- MCRank
  Source <- MCSource
  Ref <- MCRef
INVARIANTS TypeOK TreeIsSearchable RegistryIsExact NothingLostSilently
PROPERTIES LoopsAreExact ImplementsLuaDict
