CONSTANTS
  d1 = d1
  d2 = d2
  DFS0 <- MCDFS0
  DInputs <- MCDInputs
  DOutputs <- MCDOutputs

SPECIFICATION DSpec

INVARIANT DTypeOK
INVARIANT ExtractOkIsComplete

PROPERTY DecompressTerminates

CHECK_DEADLOCK FALSE
