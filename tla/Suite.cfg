CONSTANTS
  Runs <- TwoCases
  MaxNodes = 2
  Drains = {1, 2}
  Store = "prisma"
  FaultKinds = {"mark", "handler", "case", "generate", "abort"}
  MaxFaults = 1
  Concurrencies = {1, 2}
  Bus = "memory"
SPECIFICATION FairSuiteSpec
INVARIANTS
  SuiteTypeOK
  EachRunIsDrainedOnce
  EveryWaiterAnswered
  CountsMatchVerdicts
PROPERTIES
  SuiteEnds
CHECK_DEADLOCK FALSE
