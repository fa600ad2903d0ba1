\* The echo servers of the tests behind pipes that are always too small; and programs that leave
\* orphans, which may hold the pipes for ever.
SPECIFICATION FairSpec
CONSTANTS
  Byte = {1, 2, 3}
  Errno = {2, 20}
  Cap = 2
  Kinds = {"stdout", "stderr", "free"}
  MaxOut = 1
  Orphans = TRUE
  Input <- MCInput5
  ReadSz = 1
  Interrupts = FALSE
INVARIANTS TypeOK InputIsFaithful FilterIsEchoed ExecTellsTheTruth
PROPERTIES CallEnds CollectorEnds
