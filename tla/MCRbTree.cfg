SPECIFICATION MCSpec
CONSTANTS
  N = 31
  Small = 8
  Twin = 4
  Node <- MCNode
  Key <- MCKey
  Nil = Nil
INVARIANTS TypeOK IsRedBlack SearchesAnswer
PROPERTIES CallsEnd ImplementsOrderedMap
