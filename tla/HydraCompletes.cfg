SPECIFICATION FairSpec
CONSTANTS
  A = A
  B = B
  a = a
  b = b
  c = c
  Peers <- MCPeers
  Units <- MCUnits
  Batch <- OneEach
  Unreadable <- AllReadable
  Originators = {}
  OneWays <- AnybodyWaits
  TxWindow <- WindowOfOne
  RxWindow <- Streaming
  BlockMax = 2
  ResumeMin = 1
  RetriesMax = 4
  OneWayRetries = 0
  FaultKinds = {"lose", "late"}
  MaxFaults = 2
  UserAborts = FALSE
  ChatMax <- NoChat
  LineRoom = 3
  SessionsMax = 1
PROPERTIES RewindsOnce Completes
CHECK_DEADLOCK FALSE
