CONSTANTS
  d1 = d1
  d2 = d2
  Data <- MCData
  FS0 <- MCFS0Link
  NameOrder <- MCNameOrder
  Inputs <- MCInputs
  Outputs <- MCOutputs
  DOutputs <- MCDOutputs
  MaxFaults = 1
  MaxEnvOps = 1

SPECIFICATION Spec

INVARIANT RoundTripFile
INVARIANT RoundTripDir

 

CHECK_DEADLOCK FALSE
