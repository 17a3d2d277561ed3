CONSTANTS
  p1 = p1
  p2 = p2
  junk = junk
  NoArg = NoArg
  Dash = Dash
  FS0 <- MCFS0
  Cmds <- MCCmds
  StdinTexts <- MCStdin
  MaxCmds = 2
  MaxFaults = 1

SPECIFICATION ISpec

INVARIANT ITypeOK
INVARIANT FailureChangesOnlyFinishedOutputs
INVARIANT EncodeDecodeRoundTrip

CHECK_DEADLOCK FALSE
PROPERTY CommandEnds
