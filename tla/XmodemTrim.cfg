SPECIFICATION Spec
CONSTANTS
  a = a
  b = b
  Sub = Sub
  Bytes <- AllBytes
  Downloads <- AllFiles
  MaxSize = 5
INVARIANTS TrimInv KeepsData CompleteIsTrimmed
PROPERTIES LoopEnds
CHECK_DEADLOCK FALSE
