SPECIFICATION Spec
CONSTANTS
  a = a
  b = b
  Sub = Sub
  Files <- TwoBlocks
  ShortTails = {FALSE}
  FlavorPairs <- Crc
  SeqCount = 2
  ErrorsMax = 3
  TimeoutMax = 2
  FallbackMax = 1
  FaultKinds = {"half damage"}
  MaxFaults = 1
  PromptLine = TRUE
  UserAborts = FALSE
  DataRoom = 6
  ReplyRoom = 3
INVARIANTS FileIsPrefix
CHECK_DEADLOCK FALSE
