SPECIFICATION Spec
CONSTANTS
  A = A
  B = B
  a = a
  b = b
  c = c
  Peers <- MCPeers
  Units <- MCUnits
  Batch <- TwoAndOne
  Unreadable <- SecondLocked
  Originators = {A}
  OneWays <- NobodyWaits
  TxWindow <- WindowOfOne
  RxWindow <- Streaming
  BlockMax = 1
  ResumeMin = 1
  RetriesMax = 1
  OneWayRetries = 0
  FaultKinds = {"lose", "lose initack", "read", "write", "refuse"}
  MaxFaults = 1
  UserAborts = TRUE
  ChatMax <- CallerChats
  LineRoom = 2
  SessionsMax = 2
INVARIANTS TypeOK PartIsPrefix SavedIsWhole NoFalseOk EndsTogether HeardOnce
PROPERTIES RefinesBatchTransfer
CHECK_DEADLOCK FALSE
