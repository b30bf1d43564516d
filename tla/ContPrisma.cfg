CONSTANTS
  fetch = fetch
  ask = ask
  send = send
  log = log
  RecoveringNodes = {send, log}
  ReportingNodes = {log}
  MaxNodeActivations = 4
  MaxAttempts = 1
  Workers = {w1, w2}
  Resumers = {r1}
  Store = "prisma"
  MaxActs = 6
  MaxTasks = 2
  FaultKinds = {"refuse"}
  MaxFaults = 2
  Nodes <- BranchNodes
  Succ <- LogFirstSucc
  Entry = fetch
  ApprovalNodes = {ask}
SPECIFICATION FairSpec
INVARIANTS
  DecisionNotAskedAgain
PROPERTIES
  PendingRunSettles
  ImplementsLifecycle
CHECK_DEADLOCK FALSE
