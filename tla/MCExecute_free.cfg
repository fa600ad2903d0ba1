\* Programs that do as they like, with orphans, killed at any time.
SPECIFICATION Spec
CONSTANTS
  Byte = {1, 2}
  Errno = {2, 20}
  Cap = 1
  Kinds = {"free"}
  MaxOut = 2
  Orphans = TRUE
  Input <- MCInput1
  ReadSz = 1
  Interrupts = TRUE
INVARIANTS
  HandlesAreOpen OutputIsFaithful EofAfterInput ReturnsAllOutput WaitsOnce NothingLeft
PROPERTIES ImplementsProgramRun
