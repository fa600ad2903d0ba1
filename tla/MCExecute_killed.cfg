SPECIFICATION Spec
CONSTANTS
  Byte = {1}
  Errno = {2, 20}
  Cap = 1
  Kinds = {"free"}
  MaxOut = 1
  Orphans = FALSE
  Input <- MCInput1
  ReadSz = 1
  Interrupts = FALSE
INVARIANT KilledIsNoSuccess
