SPECIFICATION Spec
CONSTANTS
  a = a
  b = b
  Sub = Sub
  Files <- PaddedFiles
  ShortTails = {FALSE}
  FlavorPairs <- Plain
  SeqCount = 2
  ErrorsMax = 3
  TimeoutMax = 2
  FallbackMax = 1
  FaultKinds = {"lose data", "damage", "damage eot", "lose reply", "noise"}
  MaxFaults = 2
  PromptLine = FALSE
  UserAborts = TRUE
  DataRoom = 6
  ReplyRoom = 3
INVARIANTS IInv LockStep NoFalseSuccess
PROPERTIES RefinesFileTransfer Termination
CHECK_DEADLOCK FALSE
