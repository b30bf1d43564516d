CONSTANTS
  r1 = r1
  r2 = r2
  s1 = s1
  s2 = s2
  Asks <- TwoAgents
  Readers = {r1, r2}
  Writers = {1, 2}
  MaxTokens = 2
  MaxWrites = 2
  FaultKinds = {"refresh", "save", "write", "connect", "closeAll"}
  MaxFaults = 1
  Stopping = {"api"}
  Servers = {s1, s2}
  NoOne = NoOne
  MaxClients = 2
SPECIFICATION Spec
INVARIANTS
  McpTypeOK
  HandedInOnce
  StoredTokenIsAccepted
  ConnectionAgrees
  OneClientPerServer
  PromisesSettle
CHECK_DEADLOCK FALSE
