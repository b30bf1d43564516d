CONSTANTS
  Size = 4
  Branching = {1}
  JoinNodes = {}
  ContinueNodes = {}
  PortNodes = {}
  PinNodes = {}
  PinJoins = FALSE
  TriggerSets = {{1}}
  Orders = {"up"}
  Nodes <- MCNodes
  Root = 1
  Workflows <- MCWorkflows
  Stores = {"memory"}
  Definition <- MCDefinition
  Pinnings <- MCPinnings
  RePins = {2, 3}
  Targets = {2, 3, 4}
  None = None
SPECIFICATION FromSpec
INVARIANTS
  RunsWhatIsMissing
  RunsUpToTheNode
CHECK_DEADLOCK FALSE
