CONSTANTS
  d1 = d1
  d2 = d2
  Data <- MCData
  FS0 <- MCFS0
  NameOrder <- MCNameOrder
  Inputs <- MCInputs
  Outputs <- MCOutputsAlias
  DOutputs <- MCDOutputs
  MaxFaults = 1
  MaxEnvOps = 1

SPECIFICATION Spec

INVARIANT RoundTripFile

CHECK_DEADLOCK FALSE
