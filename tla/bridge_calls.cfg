SPECIFICATION FairSpec
CONSTANTS
  op1 = op1
  Ops = {op1}
  OpJobs = {"run", "prompt", "workflow", "resume", "exec", "clear", "stop", "view", "enqueue", "input"}
  MaxContinuations = 2
  MaxPending = 1
CHECK_DEADLOCK FALSE
INVARIANTS
  TypeOK
  BudgetRespected
  EndedIsNotRestored
  FollowUpHasBudget
  InFlightIsOwned
PROPERTIES
  QueueSessionIsDecided
  StageIsHealed
