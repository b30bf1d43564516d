CONSTANTS
  fetch = fetch
  ask = ask
  send = send
  log = log
  RecoveringNodes = {log}
  ReportingNodes = {fetch}
  MaxNodeActivations = 3
  MaxAttempts = 1
  Workers = {w1, w2}
  Resumers = {r1, r2}
  Store = "memory"
  MaxActs = 7
  MaxTasks = 2
  FaultKinds = {}
  MaxFaults = 0
  Nodes <- BranchNodes
  Succ <- BranchSucc
  Entry = fetch
  ApprovalNodes = {ask}
SPECIFICATION Spec
INVARIANTS
  TypeOK
  PendingHasCarrier
  ApprovalsAgree
CHECK_DEADLOCK FALSE
