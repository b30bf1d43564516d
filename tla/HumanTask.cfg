CONSTANTS
  first = first
  second = second
  RecoveringNodes = {}
  ReportingNodes = {second}
  MaxNodeActivations = 4
  MaxAttempts = 1
  Workers = {w1}
  Resumers = {r1, r2}
  Store = "prisma"
  MaxActs = 5
  Nodes <- TwoNodes
  Succ <- TwoSucc
  Entry = first
  ApprovalNodes = {first, second}
  OnTimeout = "halt"
  Managed = TRUE
  TimeoutQueue = TRUE
  MaxTasks = 3
  FaultKinds = {"crash", "loseLock"}
  MaxFaults = 1
SPECIFICATION FairTaskSpec
INVARIANTS
  TaskTypeOK
  VerdictIsOfItsTask
  PendingTaskHasTimer
  NoAnswerStranded
PROPERTIES
  AnsweredRunMovesOn
CHECK_DEADLOCK FALSE
