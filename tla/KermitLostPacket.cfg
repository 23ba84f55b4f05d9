SPECIFICATION Spec
CONSTANTS
  Batch <- MCBatch
  Scenarios <- DataLost
  WindowSize = 3
  SeqCount = 8
  TimeoutMax = 3
  LineRoom = 3
  MaxFaults = 1
INVARIANTS OnDiskOnce
