CONSTANTS
  d1 = d1
  d2 = d2
  Data <- MCData
  FS0 <- MCFS0
  NameOrder <- MCNameOrder
  Inputs <- MCInputs
  Outputs <- MCOutputs
  MaxFaults = 1
  MaxEnvOps = 2

SPECIFICATION CSpec

INVARIANT CTypeOK

PROPERTY CompressRefinesSpec

CHECK_DEADLOCK FALSE
