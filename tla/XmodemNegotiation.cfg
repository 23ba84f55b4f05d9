SPECIFICATION Spec
CONSTANTS
  a = a
  b = b
  Sub = Sub
  Files <- OneBlock
  ShortTails = {TRUE, FALSE}
  FlavorPairs <- NoStreams
  SeqCount = 2
  ErrorsMax = 3
  TimeoutMax = 2
  FallbackMax = 1
  FaultKinds = {"lose data", "damage", "lose reply", "noise"}
  MaxFaults = 1
  PromptLine = FALSE
  UserAborts = FALSE
  DataRoom = 8
  ReplyRoom = 2
INVARIANTS TypeOK FileIsPrefix NoFalseSuccess FlavorsAgree
CHECK_DEADLOCK FALSE
