SPECIFICATION Spec
CONSTANTS
  op1 = op1
  Ops = {op1}
  OpJobs = {"run"}
  MaxContinuations = 2
  MaxPending = 1
CHECK_DEADLOCK FALSE
PROPERTIES
  ReloadKeepsQueueSession
