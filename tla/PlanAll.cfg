CONSTANTS
  Size = 4
  Branching = {1}
  JoinNodes = {4}
  ContinueNodes = {2}
  PortNodes = {3}
  PinNodes = {2, 3}
  PinJoins = FALSE
  TriggerSets = {{1}, {1, 2}}
  Orders = {"up", "down"}
  Nodes <- MCNodes
  Root = 1
  Workflows <- MCWorkflows
  Stores = {"memory", "prisma"}
SPECIFICATION Spec
INVARIANTS
  RanWhatItShould
CHECK_DEADLOCK FALSE
