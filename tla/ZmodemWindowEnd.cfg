SPECIFICATION Spec
CONSTANTS
  a = a
  b = b
  Units <- MCUnits
  Batch <- TwoFiles
  Scenarios <- Clean
  BlockMax = 2
  ReliableWindow = 2
  UnreliableWindow = 1
  TimeoutMax = 4
  ErrorsMax = 5
  LineRoom = 3
  MaxFaults = 0
  SessionsMax = 1
PROPERTIES CompletesIfClean
CHECK_DEADLOCK FALSE
