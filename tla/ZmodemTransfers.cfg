SPECIFICATION Spec
CONSTANTS
  a = a
  b = b
  Units <- MCUnits
  Batch <- TwoFiles
  Scenarios <- MCScenarios
  BlockMax = 2
  ReliableWindow = 2
  UnreliableWindow = 1
  TimeoutMax = 4
  ErrorsMax = 5
  LineRoom = 3
  MaxFaults = 2
  SessionsMax = 2
INVARIANTS TypeOK CompleteIsWhole 
PROPERTIES OwnFilesKept Completes Stops RefinesBatchTransfer
CHECK_DEADLOCK FALSE
