SPECIFICATION Spec
CONSTANTS
  a = a
  b = b
  Sub = Sub
  Files <- ThreeBlocks
  ShortTails = {TRUE, FALSE}
  FlavorPairs <- Compatible
  SeqCount = 2
  ErrorsMax = 7
  TimeoutMax = 5
  FallbackMax = 2
  FaultKinds = {"damage", "lose data"}
  MaxFaults = 1
  PromptLine = TRUE
  UserAborts = FALSE
  DataRoom = 9
  ReplyRoom = 3
INVARIANTS FileIsPrefix NoFalseSuccess
PROPERTIES SucceedsIfClean
CHECK_DEADLOCK FALSE
