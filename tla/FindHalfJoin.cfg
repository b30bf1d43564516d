CONSTANTS
  Size = 4
  Branching = {1}
  JoinNodes = {}
  ContinueNodes = {}
  PortNodes = {}
  PinNodes = {}
  PinJoins = FALSE
  TriggerSets = {{1}}
  Orders = {"up"}
  Nodes <- MCNodes
  Root = 1
  Workflows <- MCWorkflows
  Stores = {"memory"}
  Definition <- MCDefinition
  Pinnings <- MCPinnings
  RePins = {}
  Targets = {}
  None = None
SPECIFICATION FromSpec
INVARIANTS
  InputsArriveAgain
CHECK_DEADLOCK FALSE
