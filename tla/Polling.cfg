CONSTANTS
  Commands <- TwoCommands
  Ticks <- OneTick
  MaxMessages = 2
  PageSize = 1
  Helpers = {"gmail", "defined"}
  FaultKinds = {"cycle", "emit", "setup", "restart"}
  MaxFaults = 2
  MaxCommands = 2
SPECIFICATION FairSpec
INVARIANTS
  TypeOK
  CyclesDoNotOverlap
  NothingTwice
  WindowIsAccountedFor
  LoopFollowsActivation
PROPERTIES
  NewMessageEmitted
CHECK_DEADLOCK FALSE
