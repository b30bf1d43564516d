CONSTANTS
  fetch = fetch
  ask = ask
  send = send
  log = log
  RecoveringNodes = {log}
  ReportingNodes = {log}
  MaxNodeActivations = 3
  MaxAttempts = 2
  Workers = {w1, w2}
  Resumers = {r1}
  Store = "prisma"
  MaxActs = 6
  MaxTasks = 0
  FaultKinds = {"crash", "refuse"}
  MaxFaults = 2
  Nodes <- BranchNodes
  Succ <- BranchSucc
  Entry = fetch
  ApprovalNodes = {}
SPECIFICATION Spec
INVARIANTS
  BudgetRespected
  OneContinuation
  ActivationsMatch
PROPERTIES
  NoBranchDropped
  ImplementsLifecycle
CHECK_DEADLOCK FALSE
