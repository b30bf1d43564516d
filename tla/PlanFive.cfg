CONSTANTS
  Size = 5
  Branching = {1}
  JoinNodes = {}
  ContinueNodes = {2}
  PortNodes = {4}
  PinNodes = {}
  PinJoins = FALSE
  TriggerSets = {{1}}
  Orders = {"up"}
  Nodes <- MCNodes
  Root = 1
  Workflows <- MCWorkflows
  Stores = {"memory"}
SPECIFICATION Spec
INVARIANTS
  TypeOK
  ActivatedOnce
  InputsArrive
PROPERTIES
  GraphOrder
CHECK_DEADLOCK FALSE
