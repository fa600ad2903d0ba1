SPECIFICATION Spec
CONSTANTS
  NOREF = NOREF
  NIL = NIL
  NONE = NONE
  MaxOpts = 1
  MaxWords = 3
  Name <- MCName
  Dashed <- MCDashed
  Word <- MCWord
  Split <- MCSplit
  ToNumber <- MCToNumber
  ToObject <- MCToObject
  Option <- MCOption
INVARIANT ValuesAreGathered
