\* What a comparison that answers 0 is documented to mean.
SPECIFICATION Spec
CONSTANTS
  Mantissa = 3
  CharSigned = TRUE
  Width = 4
  MSEC_PER_SEC = 2
  NSEC_PER_MSEC = 2
  Timeout = {0, 1, 3}
  Sleep = 1
  Start = {0, 2, 3}
  LastTime = 10
  Value <- MCValue
  Text <- MCText
  ArgumentList <- MCArgumentList
  required_vars <- MCrequired_vars
  Environment <- MCEnvironment
  Host <- MCHost
  Element <- MCElement
  FileName <- MCFileName
  cwd <- MCcwd
INVARIANT ZeroMeansEqual
