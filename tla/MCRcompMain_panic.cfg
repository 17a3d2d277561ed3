CONSTANTS
  d1 = d1
  d2 = d2
  DFS0 <- MCDFS0
  DInputs <- MCDInputs
  DOutputs <- MCDOutputs

SPECIFICATION MSpec

INVARIANT NoPanic



CHECK_DEADLOCK FALSE
