\* Four nodes in two lists, every sequence of calls.
SPECIFICATION Spec
CONSTANTS
  List = {"arg_table", "other"}
  Node = {n1, n2, n3, n4}
  Nil = Nil
INVARIANT LinksAgree
PROPERTY CallsAreExact
