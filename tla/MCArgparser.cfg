SPECIFICATION Spec
CONSTANTS
  NOREF = NOREF
  NIL = NIL
  NONE = NONE
  MaxOpts = 2
  MaxWords = 4
  Name <- MCName
  Dashed <- MCDashed
  Word <- MCWord
  Split <- MCSplit
  ToNumber <- MCToNumber
  ToObject <- MCToObject
  Option <- MCOption
INVARIANTS TypeOK OptIffNarg ReturnsWhatWasSaid RaisesForAReason RegistryIsExact
