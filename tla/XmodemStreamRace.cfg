SPECIFICATION Spec
CONSTANTS
  a = a
  b = b
  Sub = Sub
  Files <- OneBlock
  ShortTails = {FALSE}
  FlavorPairs <- Streams
  SeqCount = 2
  ErrorsMax = 3
  TimeoutMax = 2
  FallbackMax = 1
  FaultKinds = {}
  MaxFaults = 0
  PromptLine = FALSE
  UserAborts = FALSE
  DataRoom = 8
  ReplyRoom = 3
INVARIANTS NoFalseSuccess
CHECK_DEADLOCK FALSE
